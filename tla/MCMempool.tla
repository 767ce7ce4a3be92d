------------------------------ MODULE MCMempool ------------------------------
(***************************************************************************)
(* Six transactions for TLC.  b and c spend the two outputs of a; d spends *)
(* c and e, which spends another coin; f spends what c and e spend.  f can *)
(* replace c while a, which signals, is in the pool, and pays for c and e  *)
(* but not for d as well.  The whole family of a is one unit too large for *)
(* a package, and b makes the pool overflow by more than c, the cheapest.  *)
(***************************************************************************)
EXTENDS Mempool

CONSTANTS a, b, c, d, e, f

MCTxs == {a, b, c, d, e, f}
Coin(k) == [tx |-> Coinbase, n |-> k]
Of(t, k) == [tx |-> t, n |-> k]
MCIns == a :> {Coin(1)} @@ b :> {Of(a, 1)} @@ c :> {Of(a, 0)}
         @@ d :> {Of(c, 0), Of(e, 0)} @@ e :> {Coin(2)} @@ f :> {Of(a, 0), Coin(2)}
MCOuts == [t \in MCTxs |-> IF t = a THEN 2 ELSE 1]
MCFee == a :> 3 @@ b :> 6 @@ c :> 1 @@ d :> 2 @@ e :> 6 @@ f :> 9
MCWeight == [t \in MCTxs |-> IF t \in {b, e} THEN 12 ELSE 4]
MCSignals == [t \in MCTxs |-> t \in {a, e}]
MCFlaw == [t \in MCTxs |-> "none"]
MCRank == a :> 1 @@ b :> 2 @@ c :> 3 @@ d :> 4 @@ e :> 5 @@ f :> 6
=============================================================================
