------------------------------ MODULE BlockRules ------------------------------
(***************************************************************************)
(* Block validation of src/src/blockchain/blockchain.py: what the code     *)
(* decides about a block from the state of the chain it is offered to, and *)
(* beside it the reference rule, which looks at the block's own branch     *)
(* only.                                                                   *)
(***************************************************************************)
EXTENDS BlockTree

CONSTANTS
    Flaw,              \* what is wrong with a block whatever its context
    MedianSpan,        \* MEDIAN_TIME_SPAN, 11
    MaxFuture,         \* MAX_FUTURE_BLOCK_TIME, two hours
    RetargetInterval,  \* 2016
    TwoWeeks,          \* TWO_WEEK_SECONDS
    HalvingInterval,   \* 210 000
    InitialSubsidy,    \* INITIAL_SUBSIDY
    Maturity           \* COINBASE_MATURITY, 100

\* "pow": proof of work or target shape; "shape": no transactions, weight,
\* duplicate txids, merkle root or coinbase position; "checkpoint": another
\* hash is pinned at its height; "commitment": coinbase script size, BIP34
\* height or witness commitment; "sigops": sigop cost; "script": a
\* transaction's structure, locktime or scripts.
Flaws == {"none", "pow", "shape", "checkpoint", "commitment", "sigops", "script"}

ASSUME RulesAssumption ==
    /\ Flaw \in [Blocks -> Flaws]
    /\ MedianSpan \in Nat \ {0}
    /\ MaxFuture \in Nat
    /\ RetargetInterval \in Nat \ {0}
    /\ TwoWeeks \in Nat \ {0, 1, 2, 3}
    /\ HalvingInterval \in Nat \ {0}
    /\ InitialSubsidy \in Nat
    /\ Maturity \in Nat

\* The hard-coded first block creates the first subsidy.
ASSUME GenesisAssumption == Value(Creates[Genesis]) <= InitialSubsidy

-----------------------------------------------------------------------------
(* Header rules *)

\* The element at index len // 2 of the sorted timestamps.
MedianTime(window) ==
    LET middle == Cardinality(window) \div 2
    IN  CHOOSE t \in {Time[x] : x \in window} :
            /\ Cardinality({x \in window : Time[x] < t}) <= middle
            /\ Cardinality({x \in window : Time[x] <= t}) > middle

TimestampOk(b, window, now) ==
    /\ Time[b] <= now + MaxFuture
    /\ window = {} \/ Time[b] > MedianTime(window)

\* The last MedianSpan blocks of a branch, by the block index.
IndexWindow(b) == {x \in Branch[b] : Height[x] > Height[b] - MedianSpan}

\* The same blocks as _median_time_past finds them: active and with a body.
ActiveWindow(d, h) ==
    {x \in d.active \cap d.bodies : h - MedianSpan < Height[x] /\ Height[x] <= h}

Clamp(x, low, high) == IF x < low THEN low ELSE IF x > high THEN high ELSE x

\* _calculate_retarget: scale the target by the time the window took, at most
\* fourfold either way, never above the target of the genesis block.
Retarget(target, first, last) ==
    LET took   == Clamp(last - first, TwoWeeks \div 4, TwoWeeks * 4)
        scaled == (target * took) \div TwoWeeks
    IN  IF scaled > Bits[Genesis] THEN Bits[Genesis] ELSE scaled

\* The target the block after tip must carry, when target is taken for tip's.
ExpectedBits(tip, target) ==
    LET h == Height[tip] + 1
    IN  IF h % RetargetInterval # 0 THEN target
        ELSE Retarget(target, Time[Ancestor(tip, h - RetargetInterval)], Time[tip])

Subsidy(h) ==
    LET halvings == h \div HalvingInterval
    IN  IF halvings >= 64 THEN 0 ELSE InitialSubsidy \div 2 ^ halvings

-----------------------------------------------------------------------------
(* Transactions *)

Spending(b) == 2 .. Len(Body[b])      \* the transactions after the coinbase

IsCoinbaseCoin(c) == c.op \in Body[c.by][1].outs

Bip30Ok(b, coins) ==
    b \in Bip30Exceptions \/ Creates[b] \cap Ops(coins) = {}

\* Fault: a missing input counts as nothing instead of raising.
FeeRaisesOnNegative(b, coins) ==
    \E i \in Spending(b) : Value(Body[b][i].ins) < Value(Body[b][i].outs)

\* _get_tx_fee looks its inputs up in the utxos table alone, and raises on a
\* missing row or on a negative fee.
FeeRaises(b, coins) ==
    \E i \in Spending(b) :
        \/ ~ Body[b][i].ins \subseteq Ops(coins)
        \/ Value(Body[b][i].ins) < Value(Body[b][i].outs)

Fees(b) == MapThenSumSet(LAMBDA i : Value(Body[b][i].ins) - Value(Body[b][i].outs),
                         Spending(b))

CoinbaseOk(b, subsidy) == Value(Body[b][1].outs) <= subsidy + Fees(b)

NoDoubleSpend(b) ==
    \A i, j \in Spending(b) : i # j => Body[b][i].ins \cap Body[b][j].ins = {}

MatureAt(h, ops, coins) ==
    \A c \in coins :
        c.op \in ops /\ IsCoinbaseCoin(c) => h - Height[c.by] >= Maturity

-----------------------------------------------------------------------------
(* The decisions of the code.  d is the database as the open connection    *)
(* sees it, tip and target the cached _tip and _target.                    *)

\* _validate_block up to the fee computation of _validate_coinbase.  Without a
\* cached tip only a block with a null parent passes, and Genesis is the one.
EarlyRulesOk(b, tip, target, d, now) ==
    /\ tip # NoBlock
    /\ Prev[b] = tip
    /\ Flaw[b] \in {"none", "script"}
    /\ TimestampOk(b, ActiveWindow(d, Height[tip]), now)
    /\ Bits[b] = ExpectedBits(tip, target)
    /\ Bip30Ok(b, d.utxo)

\* Fault: the scripts are not run.
LateRulesWithoutScripts(b, tip, d) ==
    /\ CoinbaseOk(b, Subsidy(Height[tip]))
    /\ NoDoubleSpend(b)
    /\ MatureAt(Height[tip] + 1, Spends[b], d.utxo)

\* The rest: the coinbase value against the subsidy cached for the tip, then
\* _validate_block_txs.
LateRulesOk(b, tip, d) ==
    /\ CoinbaseOk(b, Subsidy(Height[tip]))
    /\ NoDoubleSpend(b)
    /\ MatureAt(Height[tip] + 1, Spends[b], d.utxo)
    /\ Flaw[b] # "script"

Validate(b, tip, target, d, now) ==
    CASE ~ EarlyRulesOk(b, tip, target, d, now) -> "refuse"
      [] EarlyRulesOk(b, tip, target, d, now) /\ FeeRaises(b, d.utxo) -> "raise"
      [] OTHER -> IF LateRulesOk(b, tip, d) THEN "accept" ELSE "refuse"

\* _validate_side_block_candidate: the checks that need no UTXO view.
SideBlockOk(b, now) ==
    LET p == Prev[b]
    IN  /\ Flaw[b] \in {"none", "sigops", "script"}
        /\ TimestampOk(b, IndexWindow(p), now)
        /\ Height[b] % RetargetInterval # 0 => Bits[b] = Bits[p]

OrphanOk(b) == Flaw[b] \notin {"pow", "shape"}

HeaderOk(b, now) == Flaw[b] \notin {"pow", "checkpoint"} /\ Time[b] <= now + MaxFuture

-----------------------------------------------------------------------------
(* The reference: what makes a block legal as the successor of its parent, *)
(* its transactions taken one after the other against the reference        *)
(* ledger.  The target rule is kept apart, and the subsidy is the one the  *)
(* code grants: that of the parent's height, where the schedule has the    *)
(* block's own.  The two differ for the first block after a halving.       *)

RightBits(b) == Bits[b] = ExpectedBits(Prev[b], Bits[Prev[b]])

\* The same when the target of the first block is taken for the parent's.
FreshBits(b) == Bits[b] = ExpectedBits(Prev[b], Bits[Genesis])

Granted(b) == Subsidy(IF b = Genesis THEN 0 ELSE Height[Prev[b]])

\* Every input is unspent after the parent or made by an earlier transaction.
InputsExist(b) ==
    \A i \in Spending(b) : \A o \in Body[b][i].ins :
        \/ o \in Ops(LedgerAt[Prev[b]])
        \/ \E j \in 2 .. i - 1 : o \in Body[b][j].outs

LegalBlock(b) ==
    /\ Flaw[b] = "none"
    /\ Time[b] > MedianTime(IndexWindow(Prev[b]))
    /\ Bip30Ok(b, LedgerAt[Prev[b]])
    /\ InputsExist(b)
    /\ NoDoubleSpend(b)
    /\ \A i \in Spending(b) : Value(Body[b][i].ins) >= Value(Body[b][i].outs)
    /\ CoinbaseOk(b, Granted(b))
    /\ MatureAt(Height[b], Spends[b], LedgerAt[Prev[b]])

Legal == {b \in Blocks : b = Genesis \/ LegalBlock(b)}

LegalBranch(b) == Branch[b] \subseteq Legal
=============================================================================
