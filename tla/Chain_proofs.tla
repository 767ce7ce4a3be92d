----------------------------- MODULE Chain_proofs -----------------------------
(***************************************************************************)
(* The chain state keeps its ledger, for every tree of blocks, every       *)
(* storage mode and every limit.  Part one: what each database operation   *)
(* does to rows that describe a branch.                                    *)
(***************************************************************************)
EXTENDS ChainProps, Finite_proofs, FiniteSetTheorems, SequenceTheorems

-----------------------------------------------------------------------------
(* Branches and the reference ledger, for every tree of blocks.  A branch is   *)
(* defined as a least closed set, so each fact about one is proved by         *)
(* exhibiting a closed set.                                                   *)

Closed(S) == \A x \in S : Prev[x] \in Blocks => Prev[x] \in S

\* A branch holds its last block and is closed under "parent of".
LEMMA BranchClosed ==
  ASSUME NEW b \in Blocks
  PROVE  /\ Branch[b] \subseteq Blocks
         /\ b \in Branch[b]
         /\ \A x \in Branch[b] : Prev[x] \in Blocks => Prev[x] \in Branch[b]
  BY DEF Branch

\* It is the least such set.
LEMMA BranchLeast ==
  ASSUME NEW b \in Blocks, NEW S \in SUBSET Blocks, b \in S, Closed(S)
  PROVE  Branch[b] \subseteq S
  BY DEF Branch, Closed

\* The branch of an ancestor is part of the branch.
LEMMA BranchNested ==
  ASSUME NEW b \in Blocks, NEW a \in Branch[b]
  PROVE  Branch[a] \subseteq Branch[b]
  <1>1. a \in Blocks /\ Branch[b] \in SUBSET Blocks /\ Closed(Branch[b])
    BY BranchClosed DEF Closed
  <1> QED BY <1>1, BranchLeast

\* A parent is a block, except that of the first one.
LEMMA ParentIsBlock ==
  ASSUME NEW b \in Blocks, b # Genesis
  PROVE  Prev[b] \in Blocks
  BY TreeAssumption

\* A branch is its parent's branch and one more block.
LEMMA BranchStep ==
  ASSUME NEW b \in Blocks, b # Genesis
  PROVE  Branch[b] = Branch[Prev[b]] \cup {b}
  <1>1. Prev[b] \in Blocks BY ParentIsBlock
  <1>2. Branch[Prev[b]] \subseteq Branch[b]
    BY <1>1, BranchClosed, BranchNested
  <1>3. Branch[b] \subseteq Branch[Prev[b]] \cup {b}
    <2> DEFINE S == Branch[Prev[b]] \cup {b}
    <2>1. S \in SUBSET Blocks /\ b \in S BY <1>1, BranchClosed
    <2>2. Closed(S) BY <1>1, BranchClosed DEF Closed
    <2> QED BY <2>1, <2>2, BranchLeast
  <1> QED BY <1>2, <1>3, BranchClosed

\* A target is at most the greatest, so that every block adds work.
LEMMA PositiveWork ==
  ASSUME NEW b \in Blocks
  PROVE  BlockWork(Bits[b]) \in Nat \ {0}
  <1>1. MaxTarget \in Nat /\ Bits[b] \in 1 .. MaxTarget BY WorkAssumption
  <1>2. \A m \in Nat : \A t \in 1 .. m : (m + 1) \div (t + 1) \in Nat \ {0} OBVIOUS
  <1> QED BY <1>1, <1>2 DEF BlockWork

\* Every branch starts at the genesis block: its lowest block has no parent.
LEMMA Rooted ==
  ASSUME NEW b \in Blocks
  PROVE  Genesis \in Branch[b]
  <1> DEFINE Heights == {Height[x] : x \in Branch[b]}
  <1>1. Branch[b] \subseteq Blocks /\ b \in Branch[b] BY BranchClosed
  <1>2. Heights \in SUBSET Nat /\ Heights # {} BY <1>1, TreeAssumption
  <1>3. PICK h \in Heights : \A k \in Heights : h <= k BY <1>2, LeastNatural
  <1>4. PICK x \in Branch[b] : Height[x] = h BY <1>3
  <1>5. ASSUME x # Genesis PROVE FALSE
    <2>1. x \in Blocks /\ Prev[x] \in Blocks BY <1>1, <1>4, <1>5, ParentIsBlock
    <2>2. Prev[x] \in Branch[b] BY <1>4, <2>1, BranchClosed
    <2>3. Height[x] = Height[Prev[x]] + 1 /\ Height[Prev[x]] \in Nat
      BY <1>5, <2>1, TreeAssumption
    <2>4. h <= Height[Prev[x]] BY <1>3, <2>2
    <2> QED BY <1>4, <2>3, <2>4
  <1> QED BY <1>4, <1>5

\* Height and work grow along a branch: an ancestor has less of both.
LEMMA AncestorIsLower ==
  ASSUME NEW b \in Blocks, NEW a \in Branch[b], a # b
  PROVE  Height[a] < Height[b] /\ ChainWork[a] < ChainWork[b]
  <1> DEFINE Lower(x) == Height[x] < Height[b] /\ ChainWork[x] < ChainWork[b]
             S == {x \in Blocks : x = b \/ Lower(x)}
  <1>1. S \in SUBSET Blocks /\ b \in S OBVIOUS
  <1>2. Closed(S)
    <2> SUFFICES ASSUME NEW x \in S, Prev[x] \in Blocks PROVE Prev[x] \in S
      BY DEF Closed
    <2>1. x \in Blocks /\ x # Genesis BY TreeAssumption
    <2>2. Height[x] = Height[Prev[x]] + 1 /\ Height[Prev[x]] \in Nat
          /\ Height[x] \in Nat /\ Height[b] \in Nat
      BY <2>1, TreeAssumption
    <2>3. ChainWork[x] > ChainWork[Prev[x]]
      <3>1. BlockWork(Bits[x]) \in Nat /\ BlockWork(Bits[x]) > 0 BY <2>1, PositiveWork
      <3>2. ChainWork[x] = ChainWork[Prev[x]] + BlockWork(Bits[x])
        BY <2>1, WorkAssumption
      <3>3. ChainWork[Prev[x]] \in Nat BY WorkAssumption
      <3> QED BY <3>1, <3>2, <3>3
    <2>4. ChainWork[x] \in Nat /\ ChainWork[Prev[x]] \in Nat /\ ChainWork[b] \in Nat
      BY <2>1, WorkAssumption
    <2>5. Height[x] <= Height[b] /\ ChainWork[x] <= ChainWork[b]
      BY <2>2, <2>4
    <2> QED BY <2>2, <2>3, <2>4, <2>5
  <1>3. Branch[b] \subseteq S BY <1>1, <1>2, BranchLeast
  <1> QED BY <1>3

\* On the way from an ancestor to the last block there is a next block.
LEMMA NextOnBranch ==
  ASSUME NEW b \in Blocks, NEW a \in Branch[b], a # b
  PROVE  \E x \in Branch[b] : Prev[x] = a
  <1> SUFFICES ASSUME \A x \in Branch[b] : Prev[x] # a PROVE FALSE
    OBVIOUS
  <1> DEFINE S == Branch[b] \ {a}
  <1>1. S \in SUBSET Blocks /\ b \in S BY BranchClosed
  <1>2. Closed(S) BY BranchClosed DEF Closed
  <1> QED BY <1>1, <1>2, BranchLeast

-----------------------------------------------------------------------------
(* The reference ledger *)

\* What a block spends and creates are outpoints.
LEMMA OpsType ==
  ASSUME NEW b \in Blocks
  PROVE  /\ Spends[b] \subseteq Outpoints
         /\ Creates[b] \subseteq Outpoints
         /\ Deletes[b] \subseteq Outpoints
         /\ Inserts(b) \subseteq Coins
  <1>1. Body[b] \in Seq(Tx) BY BodyAssumption
  <1>2. \A i \in 1 .. Len(Body[b]) : Body[b][i] \in Tx BY <1>1
  <1>3. \A i \in 1 .. Len(Body[b]) :
           Body[b][i].ins \subseteq Outpoints /\ Body[b][i].outs \subseteq Outpoints
    BY <1>2 DEF Tx
  <1>4. Spends[b] = UNION {Body[b][i].ins : i \in 1 .. Len(Body[b])} BY DEF Spends
  <1>5. Creates[b] = UNION {Body[b][i].outs : i \in 1 .. Len(Body[b])} BY DEF Creates
  <1>6. Spends[b] \subseteq Outpoints /\ Creates[b] \subseteq Outpoints
    BY <1>3, <1>4, <1>5
  <1>7. Deletes[b] \subseteq Outpoints BY <1>6 DEF Deletes
  <1>8. Inserts(b) \subseteq Coins BY <1>6 DEF Inserts, Coins
  <1> QED BY <1>6, <1>7, <1>8

\* A ledger is a set of rows.
LEMMA LedgerType ==
  ASSUME NEW b \in Blocks
  PROVE  LedgerAt[b] \in SUBSET Coins
  BY DEF LedgerAt, UnspentIn

\* Connecting a block to the ledger of its parent gives its own ledger: the
\* reference, which looks at the whole branch at once, is what replaying the
\* branch block by block computes.
THEOREM LedgerConnect ==
  ASSUME NEW b \in Blocks, b # Genesis
  PROVE  LedgerAt[b] = Without(LedgerAt[Prev[b]], Deletes[b]) \cup Inserts(b)
  <1> DEFINE p == Prev[b]
             P == UnspentIn(Branch[p])
             N == UnspentIn(Branch[b])
  <1>1. p \in Blocks /\ Branch[b] = Branch[p] \cup {b} /\ Branch[p] \subseteq Blocks
    BY ParentIsBlock, BranchStep, BranchClosed
  <1>2. \A x \in Branch[p] : Height[x] < Height[b] /\ x # b
    <2>0. Height[p] < Height[b] /\ p # b
      BY <1>1, TreeAssumption
    <2> QED BY <2>0, <1>1, AncestorIsLower, TreeAssumption
  <1>3. Inserts(b) \subseteq Coins
    BY OpsType
  <1>4. N \subseteq Without(P, Deletes[b]) \cup Inserts(b)
    <2> SUFFICES ASSUME NEW c \in N, c \notin Inserts(b)
                 PROVE  c \in Without(P, Deletes[b])
      OBVIOUS
    <2>1. c.by # b
      BY DEF UnspentIn, Inserts, Coins
    <2>2. c.by \in Branch[p] /\ c \in P /\ c.op \notin Deletes[b]
      BY <1>1, <1>2, <2>1 DEF UnspentIn
    <2> QED BY <2>2 DEF Without
  <1>5. Without(P, Deletes[b]) \subseteq N
    BY <1>1, <1>2 DEF Without, UnspentIn
  <1>6. Inserts(b) \subseteq N
    <2> SUFFICES ASSUME NEW c \in Inserts(b) PROVE c \in N
      OBVIOUS
    <2>1. c.by = b /\ c.op \in Creates[b] \ Spends[b] /\ c \in Coins
      BY <1>3 DEF Inserts
    <2>2. \A x \in Branch[b] : ~ Height[x] > Height[c.by]
      BY <1>1, <1>2, <2>1, TreeAssumption
    <2> QED BY <1>1, <2>1, <2>2 DEF UnspentIn
  <1> QED BY <1>1, <1>4, <1>5, <1>6 DEF LedgerAt

-----------------------------------------------------------------------------
(* Values *)

\* The value of a set of outpoints adds their amounts.
LEMMA ValueAdds ==
  \E sum : Adds(Outpoints, Amount, sum) /\ \A ops \in SUBSET Outpoints : Value(ops) = sum[ops]
  <1>1. IsFiniteSet(Outpoints) /\ Amount \in [Outpoints -> Nat] BY BodyAssumption
  <1>2. PICK sum : Adds(Outpoints, Amount, sum) BY <1>1, SumExists
  <1>3. ASSUME NEW ops \in SUBSET Outpoints PROVE Value(ops) = sum[ops]
    <2> DEFINE iter == CHOOSE g : g = [s \in SUBSET ops |->
                  IF s = {} THEN 0
                  ELSE Amount[CHOOSE x \in s : TRUE] + g[s \ {CHOOSE x \in s : TRUE}]]
    <2>1. Value(ops) = iter[ops] BY DEF Value, MapThenSumSet, MapThenFoldSet
    <2>2. /\ \E g : Iterates(g, ops, Amount)
          /\ \A g : Iterates(g, ops, Amount) => g[ops] = sum[ops]
      BY <1>1, <1>2, SumIterates
    <2>3. Iterates(iter, ops, Amount) BY <2>2 DEF Iterates
    <2> QED BY <2>1, <2>2, <2>3
  <1> QED BY <1>2, <1>3

LEMMA ValueType ==
  ASSUME NEW ops \in SUBSET Outpoints
  PROVE  Value(ops) \in Nat
  <1>1. PICK sum : Adds(Outpoints, Amount, sum) /\ \A s \in SUBSET Outpoints : Value(s) = sum[s]
    BY ValueAdds
  <1> QED BY <1>1 DEF Adds

-----------------------------------------------------------------------------
(* Rows that describe a branch *)

\* Undo rows hold what connecting their block took out of its parent's ledger,
\* and the block overwrote nothing it was not allowed to.
UndoKept(d) ==
    \A b \in d.undoFor \ {Genesis} :
        /\ d.spentBy[b] = Captured(b, LedgerAt[Prev[b]])
        /\ Bip30Ok(b, LedgerAt[Prev[b]])

\* The rows describe the branch of top, in storage mode m.
RowsAt(d, top, m) ==
    /\ top \in Blocks
    /\ d.active \subseteq Branch[top]
    /\ d.utxo = LedgerAt[top]
    /\ UndoKept(d)
    /\ m = "archival" => d.active = Branch[top] /\ d.active \subseteq d.bodies

\* Its last block is marked active and has its body.
TopHeld(d, top) == top \in d.active /\ top \in d.bodies

-----------------------------------------------------------------------------
(* The ledger *)

LEMMA LedgerGenesis == LedgerAt[Genesis] = Inserts(Genesis)
  <1>1. Genesis \in Blocks /\ Prev[Genesis] \notin Blocks BY TreeAssumption
  <1>2. Branch[Genesis] = {Genesis}
    <2>1. Branch[Genesis] \subseteq {Genesis}
      <3>1. {Genesis} \in SUBSET Blocks /\ Closed({Genesis}) BY <1>1 DEF Closed
      <3> QED BY <1>1, <3>1, BranchLeast
    <2> QED BY <1>1, <2>1, BranchClosed
  <1>3. ~ Height[Genesis] > Height[Genesis] BY <1>1, TreeAssumption
  <1>4. Inserts(Genesis) \subseteq Coins BY <1>1, OpsType
  <1>5. LedgerAt[Genesis] = UnspentIn({Genesis}) BY <1>1, <1>2 DEF LedgerAt
  <1>6. UnspentIn({Genesis}) \subseteq Inserts(Genesis)
    BY DEF UnspentIn, Inserts, Coins
  <1>7. Inserts(Genesis) \subseteq UnspentIn({Genesis})
    BY <1>3, <1>4 DEF UnspentIn, Inserts
  <1> QED BY <1>5, <1>6, <1>7

LEMMA CapturedType ==
  ASSUME NEW b \in Blocks, NEW coins \in SUBSET Coins
  PROVE  Captured(b, coins) \in SUBSET Coins
  BY DEF Captured

\* Taking a block's outputs out and putting its undo rows back gives the
\* ledger of its parent: disconnecting inverts connecting.
LEMMA LedgerUndo ==
  ASSUME NEW b \in Blocks, b # Genesis,
         Bip30Ok(b, LedgerAt[Prev[b]])
  PROVE  Without(LedgerAt[b], Creates[b] \cup Ops(Captured(b, LedgerAt[Prev[b]])))
           \cup Captured(b, LedgerAt[Prev[b]])
         = LedgerAt[Prev[b]]
  <1> DEFINE L == LedgerAt[Prev[b]]
             S == Captured(b, L)
  <1>1. LedgerAt[b] = Without(L, Deletes[b]) \cup Inserts(b) BY LedgerConnect
  <1>2. S \subseteq L BY DEF Captured
  <1>3. Deletes[b] = Spends[b] \cup (IF b \in Bip30Exceptions THEN Creates[b] ELSE {})
    BY DEF Deletes
  <1>4. ASSUME NEW c \in L, c \notin S
        PROVE  c.op \notin Deletes[b] /\ c.op \notin Creates[b] /\ c.op \notin Ops(S)
    <2>1. ~ (c.op \in Spends[b] \ Creates[b])
          /\ ~ (b \in Bip30Exceptions /\ c.op \in Creates[b])
      BY <1>4 DEF Captured
    <2>2. c.op \in Ops(L) BY DEF Ops
    <2>3. c.op \notin Creates[b] BY <2>1, <2>2 DEF Bip30Ok
    <2>4. c.op \notin Spends[b] BY <2>1, <2>3
    <2>5. c.op \notin Deletes[b] BY <1>3, <2>3, <2>4
    <2>6. c.op \notin Ops(S)
      BY <2>3, <2>4 DEF Ops, Captured
    <2> QED BY <2>3, <2>5, <2>6
  <1>5. \A c \in Inserts(b) : c.op \in Creates[b] BY DEF Inserts
  <1> HIDE DEF L, S
  <1>6. Without(LedgerAt[b], Creates[b] \cup Ops(S)) \subseteq L
    BY <1>1, <1>5 DEF Without
  <1>7. L \ S \subseteq Without(LedgerAt[b], Creates[b] \cup Ops(S))
    BY <1>1, <1>4 DEF Without
  <1>8. Without(LedgerAt[b], Creates[b] \cup Ops(S)) \cup S = L
    BY <1>2, <1>6, <1>7
  <1> QED BY <1>8 DEF L, S
-----------------------------------------------------------------------------
(* The rows *)

\* The highest active entry is the last block of the branch.
LEMMA TipOfRows ==
  ASSUME NEW d, NEW top, NEW m, RowsAt(d, top, m), TopHeld(d, top)
  PROVE  DbTip(d) = top
  <1>1. top \in Blocks /\ top \in d.active /\ d.active \subseteq Branch[top]
    BY DEF RowsAt, TopHeld
  <1>2. \A a \in d.active : a # top => Height[a] < Height[top]
    BY <1>1, AncestorIsLower
  <1>3. \A a \in d.active : a \in Blocks /\ Height[a] \in Nat
    BY <1>1, BranchClosed, TreeAssumption
  <1>4. \A a \in d.active : Height[a] <= Height[top] BY <1>1, <1>2, <1>3
  <1>5. \A x \in d.active :
           (\A a \in d.active : Height[a] <= Height[x]) => x = top
    BY <1>1, <1>2, <1>3
  <1> QED BY <1>1, <1>4, <1>5 DEF DbTip

LEMMA GenesisFacts ==
  ASSUME NEW m
  PROVE  /\ GenesisRows \in Database
         /\ RowsAt(GenesisRows, Genesis, m)
         /\ TopHeld(GenesisRows, Genesis)
  <1>1. Genesis \in Blocks BY TreeAssumption
  <1>2. Inserts(Genesis) \subseteq Coins BY <1>1, OpsType
  <1>3. GenesisRows \in Database BY <1>1, <1>2 DEF GenesisRows, Database, Statuses
  <1>4. Genesis \in Branch[Genesis] BY <1>1, BranchClosed
  <1>5. Branch[Genesis] \subseteq {Genesis}
    <2>1. Prev[Genesis] \notin Blocks BY TreeAssumption
    <2>2. {Genesis} \in SUBSET Blocks /\ Closed({Genesis}) BY <1>1, <2>1 DEF Closed
    <2> QED BY <1>1, <2>2, BranchLeast
  <1>6. UndoKept(GenesisRows) BY DEF UndoKept, GenesisRows
  <1>7. GenesisRows.utxo = LedgerAt[Genesis] /\ GenesisRows.active = {Genesis}
        /\ GenesisRows.bodies = {Genesis}
    BY LedgerGenesis DEF GenesisRows
  <1> QED BY <1>1, <1>3, <1>4, <1>5, <1>6, <1>7 DEF RowsAt, TopHeld

\* Connecting the next block of a branch.
LEMMA ConnectedFacts ==
  ASSUME NEW m, NEW d \in Database, NEW b \in Blocks, b # Genesis,
         RowsAt(d, Prev[b], m), Bip30Ok(b, d.utxo)
  PROVE  /\ Connected(d, b) \in Database
         /\ RowsAt(Connected(d, b), b, m)
         /\ TopHeld(Connected(d, b), b)
         /\ d.undoFor \subseteq Connected(d, b).undoFor
  <1> DEFINE e == Connected(d, b)
             p == Prev[b]
  <1>1. /\ p \in Blocks /\ d.active \subseteq Branch[p] /\ d.utxo = LedgerAt[p]
        /\ UndoKept(d)
        /\ m = "archival" => d.active = Branch[p] /\ d.active \subseteq d.bodies
    BY DEF RowsAt
  <1>2. /\ d.status \in [Blocks -> Statuses]
        /\ d.active \in SUBSET Blocks /\ d.bodies \in SUBSET Blocks
        /\ d.undoFor \in SUBSET Blocks
        /\ d.spentBy \in [Blocks -> SUBSET Coins]
        /\ d.utxo \in SUBSET Coins
    BY DEF Database
  <1>3. /\ e.status = [d.status EXCEPT ![b] = "valid"]
        /\ e.active = d.active \cup {b}
        /\ e.bodies = d.bodies \cup {b}
        /\ e.undoFor = d.undoFor \cup {b}
        /\ e.spentBy = [d.spentBy EXCEPT ![b] = Captured(b, d.utxo)]
        /\ e.utxo = Without(d.utxo, Deletes[b]) \cup Inserts(b)
    BY DEF Connected, Database
  <1>4. Without(d.utxo, Deletes[b]) \cup Inserts(b) \in SUBSET Coins
    BY <1>2, OpsType DEF Without
  <1>5. Captured(b, d.utxo) \in SUBSET Coins BY <1>2, CapturedType
  <1>6. e \in Database
    <2>1. e.status \in [Blocks -> Statuses] BY <1>2, <1>3 DEF Statuses
    <2>2. e.spentBy \in [Blocks -> SUBSET Coins] BY <1>2, <1>3, <1>5
    <2>3. e.utxo \in SUBSET Coins BY <1>3, <1>4
    <2> QED BY <1>2, <1>3, <2>1, <2>2, <2>3 DEF Connected, Database
  <1>7. e.utxo = LedgerAt[b] BY <1>1, <1>3, LedgerConnect
  <1>8. UndoKept(e)
    <2> SUFFICES ASSUME NEW x \in e.undoFor \ {Genesis}
                 PROVE  /\ e.spentBy[x] = Captured(x, LedgerAt[Prev[x]])
                        /\ Bip30Ok(x, LedgerAt[Prev[x]])
      BY DEF UndoKept
    <2>1. CASE x = b BY <1>1, <1>2, <1>3, <2>1
    <2>2. CASE x # b BY <1>1, <1>2, <1>3, <2>2 DEF UndoKept
    <2> QED BY <2>1, <2>2
  <1>9. Branch[b] = Branch[p] \cup {b} BY BranchStep
  <1> HIDE DEF e
  <1>10. RowsAt(e, b, m) BY <1>1, <1>3, <1>7, <1>8, <1>9 DEF RowsAt
  <1>11. TopHeld(e, b) BY <1>3 DEF TopHeld
  <1> QED BY <1>3, <1>6, <1>10, <1>11 DEF e

\* Disconnecting the last block of a branch whose undo rows are there.
LEMMA DisconnectedFacts ==
  ASSUME NEW m, NEW d \in Database, NEW b \in d.undoFor, b # Genesis,
         RowsAt(d, b, m)
  PROVE  /\ Disconnected(d, b) \in Database
         /\ RowsAt(Disconnected(d, b), Prev[b], m)
         /\ Disconnected(d, b).undoFor = d.undoFor
  <1> DEFINE e == Disconnected(d, b)
             p == Prev[b]
  <1>1. /\ b \in Blocks /\ d.active \subseteq Branch[b] /\ d.utxo = LedgerAt[b]
        /\ UndoKept(d)
        /\ m = "archival" => d.active = Branch[b] /\ d.active \subseteq d.bodies
    BY DEF RowsAt
  <1>2. /\ d.status \in [Blocks -> Statuses]
        /\ d.active \in SUBSET Blocks /\ d.bodies \in SUBSET Blocks
        /\ d.undoFor \in SUBSET Blocks
        /\ d.spentBy \in [Blocks -> SUBSET Coins]
        /\ d.utxo \in SUBSET Coins
    BY DEF Database
  <1>3. /\ e.status = [d.status EXCEPT ![b] = "valid"]
        /\ e.active = d.active \ {b}
        /\ e.bodies = d.bodies
        /\ e.undoFor = d.undoFor
        /\ e.spentBy = d.spentBy
        /\ e.utxo = Without(d.utxo, Creates[b] \cup Ops(d.spentBy[b])) \cup d.spentBy[b]
    BY DEF Disconnected, Database
  <1>4. e \in Database
    <2>1. e.status \in [Blocks -> Statuses] BY <1>2, <1>3 DEF Statuses
    <2>2. e.utxo \in SUBSET Coins BY <1>1, <1>2, <1>3 DEF Without
    <2> QED BY <1>2, <1>3, <2>1, <2>2 DEF Disconnected, Database
  <1>5. p \in Blocks /\ Branch[b] = Branch[p] \cup {b} BY <1>1, ParentIsBlock, BranchStep
  <1>6. b \notin Branch[p]
    <2>1. Height[p] < Height[b] BY <1>1, <1>5, TreeAssumption
    <2>2. b # p BY <1>1, <1>5, TreeAssumption
    <2> QED BY <1>1, <1>5, <2>1, <2>2, AncestorIsLower, TreeAssumption
  <1>7. d.spentBy[b] = Captured(b, LedgerAt[p]) /\ Bip30Ok(b, LedgerAt[p])
    BY <1>1 DEF UndoKept
  <1>8. e.utxo = LedgerAt[p] BY <1>1, <1>3, <1>7, LedgerUndo
  <1>9. UndoKept(e) BY <1>1, <1>3 DEF UndoKept
  <1> HIDE DEF e
  <1>10. RowsAt(e, p, m) BY <1>1, <1>3, <1>5, <1>6, <1>8, <1>9 DEF RowsAt
  <1> QED BY <1>3, <1>4, <1>10 DEF e

\* Storing a block whose body was not there.
LEMMA SideStoredFacts ==
  ASSUME NEW m, NEW d \in Database, NEW b \in Blocks, b \notin d.bodies,
         NEW top, RowsAt(d, top, m), TopHeld(d, top)
  PROVE  /\ SideStored(d, b) \in Database
         /\ RowsAt(SideStored(d, b), top, m)
         /\ TopHeld(SideStored(d, b), top)
         /\ b \in SideStored(d, b).bodies
  <1> DEFINE e == SideStored(d, b)
  <1>1. /\ d.status \in [Blocks -> Statuses]
        /\ d.active \in SUBSET Blocks /\ d.bodies \in SUBSET Blocks
    BY DEF Database
  <1>2. /\ e.status = [d.status EXCEPT ![b] = "candidate"]
        /\ e.active = d.active \ {b}
        /\ e.bodies = d.bodies \cup {b}
        /\ e.undoFor = d.undoFor
        /\ e.spentBy = d.spentBy
        /\ e.utxo = d.utxo
    BY DEF SideStored, Database
  <1>3. e \in Database
    <2>1. e.status \in [Blocks -> Statuses] BY <1>1, <1>2 DEF Statuses
    <2> QED BY <1>1, <1>2, <2>1 DEF SideStored, Database
  <1>4. UndoKept(e) BY <1>2 DEF UndoKept, RowsAt
  <1> HIDE DEF e
  <1>5. RowsAt(e, top, m) BY <1>2, <1>4 DEF RowsAt
  <1>6. TopHeld(e, top) BY <1>2 DEF TopHeld
  <1> QED BY <1>2, <1>3, <1>5, <1>6 DEF e

\* Marking a block that is not on the branch, and its descendants.
LEMMA InvalidatedFacts ==
  ASSUME NEW m, NEW d \in Database, NEW b \in Blocks,
         NEW top, RowsAt(d, top, m), TopHeld(d, top), b \notin Branch[top]
  PROVE  /\ BranchInvalidated(d, b) \in Database
         /\ RowsAt(BranchInvalidated(d, b), top, m)
         /\ TopHeld(BranchInvalidated(d, b), top)
  <1> DEFINE e == BranchInvalidated(d, b)
             doomed == {x \in Known(d) : b \in Branch[x]}
  <1>1. /\ d.status \in [Blocks -> Statuses]
        /\ d.active \in SUBSET Blocks
    BY DEF Database
  <1>2. /\ e.status = [x \in Blocks |-> IF x \in doomed THEN "invalid" ELSE d.status[x]]
        /\ e.active = d.active \ doomed
        /\ e.bodies = d.bodies
        /\ e.undoFor = d.undoFor
        /\ e.spentBy = d.spentBy
        /\ e.utxo = d.utxo
    BY DEF BranchInvalidated, Database
  <1>3. e \in Database
    <2>1. e.status \in [Blocks -> Statuses] BY <1>1, <1>2 DEF Statuses
    <2>2. e = [[d EXCEPT !.status = e.status] EXCEPT !.active = e.active]
      BY <1>2 DEF BranchInvalidated, Database
    <2> HIDE DEF e
    <2> QED BY <1>1, <1>2, <2>1, <2>2 DEF Database
  <1>4. UndoKept(e) BY <1>2 DEF UndoKept, RowsAt
  <1>5. top \in Blocks /\ d.active \subseteq Branch[top] BY DEF RowsAt
  <1>6. \A x \in Branch[top] : x \notin doomed BY <1>5, BranchNested
  <1>7. e.active = d.active BY <1>2, <1>5, <1>6
  <1> HIDE DEF e
  <1>8. RowsAt(e, top, m) BY <1>2, <1>4, <1>7 DEF RowsAt
  <1>9. TopHeld(e, top) BY <1>2, <1>7 DEF TopHeld
  <1> QED BY <1>3, <1>8, <1>9 DEF e

\* Pruning keeps the last block's body: at least one block is retained.
LEMMA PrunedFacts ==
  ASSUME NEW d \in Database, NEW top,
         RowsAt(d, top, storage), TopHeld(d, top)
  PROVE  /\ Pruned(d, Height[top]) \in Database
         /\ RowsAt(Pruned(d, Height[top]), top, storage)
         /\ TopHeld(Pruned(d, Height[top]), top)
  <1> DEFINE e == Pruned(d, Height[top])
             gone == {x \in d.bodies : Height[x] <= Height[top] - KeepBlocks}
  <1>1. CASE storage # "pruned" BY <1>1 DEF Pruned
  <1>2. CASE storage = "pruned"
    <2>1. /\ d.status \in [Blocks -> Statuses]
          /\ d.active \in SUBSET Blocks /\ d.bodies \in SUBSET Blocks
          /\ d.undoFor \in SUBSET Blocks
          /\ d.spentBy \in [Blocks -> SUBSET Coins]
          /\ d.utxo \in SUBSET Coins
      BY DEF Database
    <2>2. /\ e.status = d.status
          /\ e.active = d.active
          /\ e.bodies = d.bodies \ gone
          /\ e.undoFor = d.undoFor \ gone
          /\ e.spentBy = [x \in Blocks |-> IF x \in gone THEN {} ELSE d.spentBy[x]]
          /\ e.utxo = d.utxo
      BY <1>2 DEF Pruned, Database
    <2>3. e \in Database
      <3>1. e.spentBy \in [Blocks -> SUBSET Coins] BY <2>1, <2>2
      <3> QED BY <1>2, <2>1, <2>2, <3>1 DEF Pruned, Database
    <2>4. top \in Blocks /\ UndoKept(d) BY DEF RowsAt
    <2>5. top \notin gone BY <2>4, TreeAssumption, ChainAssumption
    <2>6. UndoKept(e) BY <2>1, <2>2, <2>4 DEF UndoKept
    <2> HIDE DEF e
    <2>7. RowsAt(e, top, storage) BY <1>2, <2>2, <2>6 DEF RowsAt
    <2>8. TopHeld(e, top) BY <2>2, <2>5 DEF TopHeld
    <2> QED BY <2>3, <2>7, <2>8 DEF e
  <1> QED BY <1>1, <1>2

LEMMA HeaderFacts ==
  ASSUME NEW m, NEW d \in Database, NEW b \in Blocks,
         NEW top, RowsAt(d, top, m), TopHeld(d, top)
  PROVE  /\ [d EXCEPT !.status[b] = "headers-only"] \in Database
         /\ RowsAt([d EXCEPT !.status[b] = "headers-only"], top, m)
         /\ TopHeld([d EXCEPT !.status[b] = "headers-only"], top)
  <1> DEFINE e == [d EXCEPT !.status[b] = "headers-only"]
  <1>1. /\ e.active = d.active /\ e.bodies = d.bodies /\ e.undoFor = d.undoFor
        /\ e.spentBy = d.spentBy /\ e.utxo = d.utxo
    BY DEF Database
  <1>2. e \in Database BY DEF Database, Statuses
  <1>3. UndoKept(e) BY <1>1 DEF UndoKept, RowsAt
  <1> HIDE DEF e
  <1>4. RowsAt(e, top, m) BY <1>1, <1>3 DEF RowsAt
  <1>5. TopHeld(e, top) BY <1>1 DEF TopHeld
  <1> QED BY <1>2, <1>4, <1>5 DEF e

-----------------------------------------------------------------------------
(* What an accepting validation has checked *)

LEMMA AcceptMeans ==
  ASSUME NEW b, NEW t, NEW g, NEW d, NEW n, Validate(b, t, g, d, n) = "accept"
  PROVE  t # NoBlock /\ Prev[b] = t /\ Bip30Ok(b, d.utxo)
  <1>1. EarlyRulesOk(b, t, g, d, n) BY DEF Validate
  <1> QED BY <1>1 DEF EarlyRulesOk

-----------------------------------------------------------------------------
(* The inductive invariant.  Between calls the rows describe the branch of *)
(* the cached tip.  During a reorganisation the committed rows still do    *)
(* that for the tip it started from, and the rows the connection reads do  *)
(* it for the block the loop has got to, so that what is left to undo can  *)
(* be undone and the fork block is still ahead.                            *)

ReorgInv ==
    /\ job.goal \in Blocks /\ job.at \in Blocks /\ job.from \in Blocks
    /\ RowsAt(db, job.from, storage) /\ TopHeld(db, job.from)
    /\ RowsAt(view, job.at, storage)
    /\ ChainWork[job.from] < ChainWork[job.goal]
    /\ \/ job.at \in Branch[job.from]
       \/ job.at \in Branch[job.goal] /\ TopHeld(view, job.at) /\ tip = job.at
    /\ Branch[job.at] \ Branch[job.goal] \subseteq view.undoFor
    /\ Branch[job.from] \cap Branch[job.goal] \subseteq Branch[job.at]

CallInv == RowsAt(db, tip, storage) /\ TopHeld(db, tip)

IInv ==
    /\ RowsTypeOK
    /\ job.phase # "reorg" => CallInv
    /\ job.phase = "reorg" => ReorgInv

\* The tip the committed rows describe.
Top == IF job.phase = "reorg" THEN job.from ELSE tip

\* A step keeps the committed tip or moves it to more work.
Grows == Top' = Top \/ ChainWork[Top'] > ChainWork[Top]

LEMMA TopIsDbTip ==
  IInv => DbTip(db) = Top /\ Top \in Blocks
  <1> SUFFICES ASSUME IInv PROVE DbTip(db) = Top /\ Top \in Blocks
    OBVIOUS
  <1>1. CASE job.phase = "reorg"
    BY <1>1, TipOfRows DEF IInv, ReorgInv, Top
  <1>2. CASE job.phase # "reorg"
    <2>1. RowsAt(db, tip, storage) /\ TopHeld(db, tip) BY <1>2 DEF IInv, CallInv
    <2> QED BY <1>2, <2>1, TipOfRows DEF Top, RowsAt
  <1> QED BY <1>1, <1>2

LEMMA InitInv == Init => IInv
  <1> SUFFICES ASSUME Init PROVE IInv
    OBVIOUS
  <1>1. GenesisRows \in Database /\ RowsAt(GenesisRows, Genesis, storage)
        /\ TopHeld(GenesisRows, Genesis)
    BY GenesisFacts
  <1>2. Genesis \in Blocks /\ Bits[Genesis] \in 1 .. MaxTarget
    BY TreeAssumption, WorkAssumption
  <1>3. job = Idle /\ Idle \in Jobs /\ job.phase = "idle"
    BY DEF Init, Idle, Jobs, Phases
  <1>4. now \in 0 .. MaxClock
    <2>1. now = 0 /\ MaxClock \in Nat BY ChainAssumption DEF Init
    <2> QED BY <2>1
  <1>5. RowsTypeOK BY <1>1, <1>2, <1>3, <1>4 DEF Init, RowsTypeOK
  <1>6. CallInv BY <1>1 DEF Init, CallInv
  <1> QED BY <1>3, <1>5, <1>6 DEF IInv

LEMMA TargetType ==
  ASSUME NEW t \in Blocks \cup {NoBlock}, SetTip(t)
  PROVE  tip' = t /\ target' \in 1 .. MaxTarget
  BY TreeAssumption, WorkAssumption DEF SetTip

LEMMA JobTypes ==
  ASSUME NEW b \in Blocks, NEW c \in Blocks
  PROVE  /\ Idle \in Jobs /\ Idle.phase = "idle"
         /\ Settling(b) \in Jobs /\ Settling(b).phase = "settle"
         /\ Reorganizing(b, c) \in Jobs
         /\ Reorganizing(b, c) = [phase |-> "reorg", goal |-> b, at |-> c, from |-> c]
  BY DEF Idle, Settling, Reorganizing, Jobs, Phases

\* The popped children are blocks, in some order, before the blocks that wait.
LEMMA PopType ==
  ASSUME NEW b, NEW rest \in Seq(Blocks), PopChildren(b, rest)
  PROVE  pending' \in Seq(Blocks)
  <1> DEFINE kids == {x \in Blocks : InPool(x) /\ Prev[x] = b}
  <1>1. Cardinality(kids) \in Nat
    BY TreeAssumption, FS_Subset, FS_CardinalityType
  <1>2. PICK order \in SetToSeqs(kids) : pending' = order \o rest
    BY DEF PopChildren
  <1>3. order \in [1 .. Cardinality(kids) -> kids] BY <1>2 DEF SetToSeqs
  <1>4. order \in [1 .. Cardinality(kids) -> Blocks] BY <1>3
  <1> HIDE DEF kids
  <1>5. order \in Seq(Blocks) BY <1>1, <1>4, SeqDef
  <1> QED BY <1>2, <1>5

\* What is left to show of a step that ends or stays outside a reorganisation.
LEMMA Outside ==
  ASSUME IInv,
         storage' = storage, db' \in Database, view' = db',
         target' \in 1 .. MaxTarget, pending' \in Seq(Blocks),
         job' \in Jobs, job'.phase # "reorg", now' \in 0 .. MaxClock,
         RowsAt(db', tip', storage), TopHeld(db', tip')
  PROVE  IInv'
  <1>1. RowsTypeOK' BY DEF IInv, RowsTypeOK, RowsAt
  <1>2. CallInv' BY DEF CallInv
  <1> QED BY <1>1, <1>2 DEF IInv

-----------------------------------------------------------------------------
(* add_block *)

LEMMA AddBlockStep ==
  ASSUME IInv, job = Idle,
         NEW b \in Blocks, NEW rest \in Seq(Blocks), AddBlock(b, rest)
  PROVE  IInv' /\ Grows
  <1>1. /\ job.phase = "idle" /\ job \in Jobs
        /\ view = db /\ db \in Database /\ now \in 0 .. MaxClock
        /\ target \in 1 .. MaxTarget
        /\ RowsAt(db, tip, storage) /\ TopHeld(db, tip) /\ tip \in Blocks
    BY JobTypes DEF IInv, CallInv, RowsTypeOK, RowsAt
  <1>2. Top = tip BY <1>1 DEF Top
  <1>3. ASSUME UNCHANGED <<storage, db, view, tip, target, job, now>>, pending' = rest
        PROVE  IInv' /\ Grows
    <2>1. IInv' BY <1>1, <1>3, Outside
    <2>2. Top' = Top BY <1>3 DEF Top
    <2> QED BY <2>1, <2>2 DEF Grows
  <1>4. CASE IgnoreKnown(b, rest) BY <1>3, <1>4 DEF IgnoreKnown, Return
  <1>5. CASE RefuseTipBlock(b, rest) BY <1>3, <1>5 DEF RefuseTipBlock, Return
  <1>6. CASE ConnectTip(b, rest)
    <2>1. /\ Prev[b] = tip /\ Validate(b, tip, target, view, now) = "accept"
          /\ db' = Connected(db, b) /\ view' = db'
          /\ SetTip(b) /\ job' = Settling(b)
          /\ pending' = rest /\ storage' = storage /\ now' = now
      BY <1>1, <1>6 DEF ConnectTip, Commit, Return
    <2>2. Bip30Ok(b, db.utxo) BY <1>1, <2>1, AcceptMeans
    <2>3. b # Genesis BY <1>1, <2>1, TreeAssumption
    <2>4. db' \in Database /\ RowsAt(db', b, storage) /\ TopHeld(db', b)
      BY <1>1, <2>1, <2>2, <2>3, ConnectedFacts
    <2>5. tip' = b /\ target' \in 1 .. MaxTarget BY <2>1, TargetType
    <2>6. job' \in Jobs /\ job'.phase = "settle" BY <2>1, JobTypes
    <2>7. IInv' BY <1>1, <2>1, <2>4, <2>5, <2>6, Outside
    <2>8. ChainWork[tip] < ChainWork[b]
      <3>1. tip \in Branch[b] BY <1>1, <2>1, BranchClosed
      <3>2. tip # b BY <1>1, <2>1, <2>3, TreeAssumption
      <3> QED BY <3>1, <3>2, AncestorIsLower
    <2>9. Top' = b BY <2>5, <2>6 DEF Top
    <2>10. ChainWork[tip] \in Nat /\ ChainWork[b] \in Nat BY <1>1, WorkAssumption
    <2> QED BY <1>2, <2>7, <2>8, <2>9, <2>10 DEF Grows
  <1>7. CASE KeepOrphan(b, rest) BY <1>3, <1>7 DEF KeepOrphan, Return
  <1>8. CASE RefuseSideBlock(b, rest) BY <1>3, <1>8 DEF RefuseSideBlock, Return
  <1>9. CASE StoreSideBlock(b, rest)
    <2> DEFINE stored == SideStored(db, b)
    <2>1. /\ b \notin db.bodies
          /\ db' = stored /\ view' = stored
          /\ UNCHANGED <<storage, tip, target, now>>
          /\ \/ PopChildren(b, rest) /\ job' = job
             \/ /\ WouldReorganize(stored, b)
                /\ job' = IF CanReorganize(stored, b)
                          THEN Reorganizing(b, DbTip(stored)) ELSE job
                /\ pending' = rest
      BY <1>1, <1>9 DEF StoreSideBlock, Refusable, Commit
    <2>2. /\ stored \in Database
          /\ RowsAt(stored, tip, storage) /\ TopHeld(stored, tip)
          /\ b \in stored.bodies
      BY <1>1, <2>1, SideStoredFacts
    <2> HIDE DEF stored
    <2>3. DbTip(stored) = tip BY <2>2, TipOfRows
    <2>4. pending' \in Seq(Blocks) BY <2>1, PopType
    <2>5. CASE job' = job
      <3>1. IInv' BY <1>1, <2>1, <2>2, <2>4, <2>5, Outside
      <3>2. Top' = Top BY <2>1, <2>5 DEF Top
      <3> QED BY <3>1, <3>2 DEF Grows
    <2>6. CASE job' # job
      <3>1. /\ job' = Reorganizing(b, tip)
            /\ WouldReorganize(stored, b) /\ CanReorganize(stored, b)
        BY <2>1, <2>3, <2>6
      <3>2. /\ job'.phase = "reorg" /\ job'.goal = b
            /\ job'.at = tip /\ job'.from = tip /\ job' \in Jobs
        BY <1>1, <3>1, JobTypes
      <3>3. ChainWork[tip] < ChainWork[b]
        BY <1>1, <2>3, <3>1, WorkAssumption DEF WouldReorganize
      <3>4. Branch[tip] \ Branch[b] \subseteq stored.undoFor
        BY <2>3, <3>1 DEF CanReorganize
      <3>5. tip \in Branch[tip] BY <1>1, BranchClosed
      <3>6. ReorgInv'
        BY <1>1, <2>1, <2>2, <3>2, <3>3, <3>4, <3>5 DEF ReorgInv
      <3>7. RowsTypeOK'
        BY <1>1, <2>1, <2>2, <2>4, <3>2 DEF RowsTypeOK, IInv
      <3>8. IInv' BY <3>2, <3>6, <3>7 DEF IInv
      <3>9. Top' = Top BY <1>2, <2>1, <3>2 DEF Top
      <3> QED BY <3>8, <3>9 DEF Grows
    <2> QED BY <2>5, <2>6
  <1> QED BY <1>4, <1>5, <1>6, <1>7, <1>8, <1>9 DEF AddBlock

-----------------------------------------------------------------------------
(* reorganize_to *)

LEMMA NextUpFacts ==
  ASSUME IInv, Connecting
  PROVE  /\ NextUp \in Blocks /\ NextUp \in Branch[job.goal]
         /\ Prev[NextUp] = job.at /\ NextUp # Genesis
  <1>1. job.goal \in Blocks /\ job.at \in Blocks
        /\ job.at \in Branch[job.goal] /\ job.at # job.goal
    BY DEF IInv, ReorgInv, Connecting
  <1>2. NextUp \in Branch[job.goal] /\ Prev[NextUp] = job.at
    BY <1>1, NextOnBranch DEF NextUp
  <1>3. NextUp \in Blocks BY <1>1, <1>2, BranchClosed
  <1>4. NextUp # Genesis BY <1>1, <1>2, TreeAssumption
  <1> QED BY <1>2, <1>3, <1>4

\* What is left to show of a step inside the transaction.
LEMMA Inside ==
  ASSUME IInv, job.phase = "reorg",
         NEW x \in Blocks, job' = [job EXCEPT !.at = x], SetTip(tip'),
         tip' \in Blocks \cup {NoBlock},
         UNCHANGED <<storage, db, pending, now>>,
         view' \in Database, RowsAt(view', x, storage),
         \/ x \in Branch[job.from]
         \/ x \in Branch[job.goal] /\ TopHeld(view', x) /\ tip' = x,
         Branch[x] \ Branch[job.goal] \subseteq view'.undoFor,
         Branch[job.from] \cap Branch[job.goal] \subseteq Branch[x]
  PROVE  IInv' /\ Grows
  <1>1. RowsTypeOK /\ ReorgInv BY DEF IInv
  <1>2. /\ job' \in Jobs /\ job'.phase = "reorg" /\ job'.goal = job.goal
        /\ job'.at = x /\ job'.from = job.from
    BY <1>1 DEF RowsTypeOK, Jobs
  <1>3. target' \in 1 .. MaxTarget BY TargetType
  <1>4. RowsTypeOK' BY <1>1, <1>2, <1>3 DEF RowsTypeOK
  <1>5. ReorgInv' BY <1>1, <1>2 DEF ReorgInv
  <1>6. Top' = Top BY <1>2 DEF Top
  <1>7. IInv' BY <1>2, <1>4, <1>5 DEF IInv
  <1> QED BY <1>6, <1>7 DEF Grows

LEMMA DisconnectStep ==
  ASSUME IInv, ReorgDisconnect
  PROVE  IInv' /\ Grows
  <1> DEFINE x == Prev[job.at]
  <1>1. /\ job.phase = "reorg" /\ job.at \notin Branch[job.goal]
        /\ view' = Disconnected(view, job.at)
        /\ SetTip(IF x \in view.bodies THEN x ELSE NoBlock)
        /\ job' = [job EXCEPT !.at = x]
        /\ UNCHANGED <<storage, db, pending, now>>
    BY DEF ReorgDisconnect, Disconnecting
  <1>2. RowsTypeOK /\ ReorgInv BY <1>1 DEF IInv
  <1>3. /\ job.goal \in Blocks /\ job.at \in Blocks /\ job.from \in Blocks
        /\ job.at \in Branch[job.from] /\ view \in Database
    BY <1>1, <1>2 DEF ReorgInv, RowsTypeOK
  <1>4. job.at # Genesis BY <1>1, <1>3, Rooted
  <1>5. /\ x \in Blocks /\ Branch[job.at] = Branch[x] \cup {job.at}
        /\ x \in Branch[job.from]
    BY <1>3, <1>4, ParentIsBlock, BranchStep, BranchClosed
  <1>6. job.at \in view.undoFor
    BY <1>1, <1>2, <1>3, BranchClosed DEF ReorgInv
  <1>7. /\ view' \in Database /\ RowsAt(view', x, storage)
        /\ view'.undoFor = view.undoFor
    BY <1>1, <1>2, <1>3, <1>4, <1>6, DisconnectedFacts DEF ReorgInv
  <1>8. Branch[x] \ Branch[job.goal] \subseteq view'.undoFor
    BY <1>2, <1>5, <1>7 DEF ReorgInv
  <1>9. Branch[job.from] \cap Branch[job.goal] \subseteq Branch[x]
    BY <1>1, <1>2, <1>5 DEF ReorgInv
  <1>10. SetTip(tip') /\ tip' \in Blocks \cup {NoBlock}
    BY <1>1, <1>5 DEF SetTip
  <1> HIDE DEF x
  <1> QED BY <1>1, <1>5, <1>7, <1>8, <1>9, <1>10, Inside

LEMMA ConnectStep ==
  ASSUME IInv, ReorgConnect
  PROVE  IInv' /\ Grows
  <1> DEFINE x == NextUp
  <1>1. /\ Connecting /\ job.phase = "reorg"
        /\ Validate(x, tip, target, view, now) = "accept"
        /\ view' = Connected(view, x) /\ SetTip(x)
        /\ job' = [job EXCEPT !.at = x]
        /\ UNCHANGED <<storage, db, pending, now>>
    BY DEF ReorgConnect, Connecting
  <1>2. /\ x \in Blocks /\ x \in Branch[job.goal]
        /\ Prev[x] = job.at /\ x # Genesis
    BY <1>1, NextUpFacts
  <1> HIDE DEF x
  <1>3. /\ view \in Database /\ ReorgInv /\ job.goal \in Blocks
        /\ RowsAt(view, Prev[x], storage)
    BY <1>1, <1>2 DEF IInv, ReorgInv, RowsTypeOK
  <1>4. Bip30Ok(x, view.utxo) BY <1>1, AcceptMeans
  <1>5. view' \in Database /\ RowsAt(view', x, storage) /\ TopHeld(view', x)
    BY <1>1, <1>2, <1>3, <1>4, ConnectedFacts
  <1>6. Branch[x] \ Branch[job.goal] \subseteq view'.undoFor
    BY <1>2, <1>3, BranchNested
  <1>7. Branch[job.from] \cap Branch[job.goal] \subseteq Branch[x]
    BY <1>2, <1>3, BranchStep DEF ReorgInv
  <1>8. SetTip(tip') /\ tip' = x /\ tip' \in Blocks \cup {NoBlock}
    BY <1>1, <1>2 DEF SetTip
  <1> QED BY <1>1, <1>2, <1>5, <1>6, <1>7, <1>8, Inside

LEMMA CommitStep ==
  ASSUME IInv, ReorgCommit
  PROVE  IInv' /\ Grows
  <1>1. /\ job.phase = "reorg" /\ job.at = job.goal
        /\ db' = view /\ view' = view /\ job' = Settling(job.goal)
        /\ UNCHANGED <<storage, tip, target, pending, now>>
    BY DEF ReorgCommit, Commit
  <1>2. RowsTypeOK /\ ReorgInv BY <1>1 DEF IInv
  <1>3. /\ job.goal \in Blocks /\ job.from \in Blocks /\ view \in Database
        /\ ChainWork[job.from] < ChainWork[job.goal]
        /\ RowsAt(view, job.goal, storage)
    BY <1>1, <1>2 DEF ReorgInv, RowsTypeOK
  <1>4. ChainWork[job.from] \in Nat /\ ChainWork[job.goal] \in Nat
    BY <1>3, WorkAssumption
  <1>5. job.goal \notin Branch[job.from]
    BY <1>3, <1>4, AncestorIsLower
  <1>6. TopHeld(view, job.goal) /\ tip = job.goal
    BY <1>1, <1>2, <1>5 DEF ReorgInv
  <1>7. job' \in Jobs /\ job'.phase = "settle" BY <1>1, <1>3, JobTypes
  <1>8. IInv'
    BY <1>1, <1>2, <1>3, <1>6, <1>7, Outside DEF RowsTypeOK
  <1>9. Top = job.from /\ Top' = job.goal BY <1>1, <1>6, <1>7 DEF Top
  <1> QED BY <1>3, <1>4, <1>8, <1>9 DEF Grows

\* The block at fault is above the fork, so marking it leaves the old branch.
LEMMA RefuseStep ==
  ASSUME IInv, ReorgRefuse
  PROVE  IInv' /\ Grows
  <1> DEFINE x == NextUp
  <1>1. /\ Connecting /\ job.phase = "reorg"
        /\ db' = BranchInvalidated(db, x) /\ view' = db'
        /\ SetTip(job.from) /\ job' = Idle
        /\ UNCHANGED <<storage, pending, now>>
    BY DEF ReorgRefuse, Connecting, Commit
  <1>2. /\ x \in Blocks /\ x \in Branch[job.goal]
        /\ Prev[x] = job.at /\ x # Genesis
    BY <1>1, NextUpFacts
  <1> HIDE DEF x
  <1>3. RowsTypeOK /\ ReorgInv BY <1>1 DEF IInv
  <1>4. /\ job.at \in Blocks /\ job.from \in Blocks /\ db \in Database
        /\ RowsAt(db, job.from, storage) /\ TopHeld(db, job.from)
        /\ Branch[job.from] \cap Branch[job.goal] \subseteq Branch[job.at]
    BY <1>3 DEF ReorgInv, RowsTypeOK
  <1>5. x \notin Branch[job.at]
    <2>1. Height[x] = Height[job.at] + 1 /\ Height[job.at] \in Nat
      BY <1>2, <1>4, TreeAssumption
    <2>2. x # job.at BY <2>1
    <2>3. x \in Branch[job.at] => Height[x] < Height[job.at]
      BY <1>4, <2>2, AncestorIsLower
    <2> QED BY <2>1, <2>3
  <1>6. x \notin Branch[job.from] BY <1>2, <1>4, <1>5
  <1>7. db' \in Database /\ RowsAt(db', job.from, storage) /\ TopHeld(db', job.from)
    BY <1>1, <1>2, <1>4, <1>6, InvalidatedFacts
  <1>8. tip' = job.from /\ target' \in 1 .. MaxTarget BY <1>1, <1>4, TargetType
  <1>9. job' \in Jobs /\ job'.phase = "idle" BY <1>1, <1>2, JobTypes
  <1>10. IInv' BY <1>1, <1>3, <1>7, <1>8, <1>9, Outside DEF RowsTypeOK
  <1>11. Top' = Top BY <1>1, <1>8, <1>9 DEF Top
  <1> QED BY <1>10, <1>11 DEF Grows

LEMMA RaiseStep ==
  ASSUME IInv, ReorgRaise
  PROVE  IInv' /\ Grows
  <1>1. /\ job.phase = "reorg" /\ view' = db /\ SetTip(job.from) /\ job' = Idle
        /\ UNCHANGED <<storage, db, pending, now>>
    BY DEF ReorgRaise
  <1>2. RowsTypeOK /\ ReorgInv BY <1>1 DEF IInv
  <1>3. /\ job.from \in Blocks /\ db \in Database
        /\ RowsAt(db, job.from, storage) /\ TopHeld(db, job.from)
    BY <1>2 DEF ReorgInv, RowsTypeOK
  <1>4. tip' = job.from /\ target' \in 1 .. MaxTarget BY <1>1, <1>3, TargetType
  <1>5. job' \in Jobs /\ job'.phase = "idle" BY <1>1, <1>3, JobTypes
  <1>6. IInv' BY <1>1, <1>2, <1>3, <1>4, <1>5, Outside DEF RowsTypeOK
  <1>7. Top' = Top BY <1>1, <1>4, <1>5 DEF Top
  <1> QED BY <1>6, <1>7 DEF Grows

-----------------------------------------------------------------------------
(* The other steps *)

LEMMA CalmFacts ==
  ASSUME IInv, job.phase # "reorg"
  PROVE  /\ view = db /\ db \in Database /\ tip \in Blocks
         /\ RowsAt(db, tip, storage) /\ TopHeld(db, tip)
         /\ target \in 1 .. MaxTarget /\ pending \in Seq(Blocks)
         /\ job \in Jobs /\ now \in 0 .. MaxClock /\ Top = tip
  BY DEF IInv, CallInv, RowsTypeOK, RowsAt, Top

LEMMA SettleStep ==
  ASSUME IInv, Settle
  PROVE  IInv' /\ Grows
  <1>1. /\ job.phase = "settle"
        /\ db' = Pruned(view, Height[tip]) /\ view' = db'
        /\ PopChildren(job.goal, pending) /\ job' = Idle
        /\ UNCHANGED <<storage, tip, target, now>>
    BY DEF Settle, Commit
  <1>2. /\ db' \in Database /\ RowsAt(db', tip, storage) /\ TopHeld(db', tip)
    BY <1>1, CalmFacts, PrunedFacts
  <1>3. pending' \in Seq(Blocks) BY <1>1, CalmFacts, PopType
  <1>4. job' \in Jobs /\ job'.phase = "idle" BY <1>1, TreeAssumption, JobTypes
  <1>5. IInv' BY <1>1, <1>2, <1>3, <1>4, CalmFacts, Outside
  <1>6. Top' = Top BY <1>1, <1>4, CalmFacts DEF Top
  <1> QED BY <1>5, <1>6 DEF Grows

LEMMA SettleFailsStep ==
  ASSUME IInv, SettleFails
  PROVE  IInv' /\ Grows
  <1>1. /\ job.phase = "settle" /\ job' = Idle
        /\ db' \in {view, Pruned(view, Height[tip])} /\ view' = db'
        /\ UNCHANGED <<storage, tip, target, pending, now>>
    BY DEF SettleFails, Commit
  <1>2. /\ db' \in Database /\ RowsAt(db', tip, storage) /\ TopHeld(db', tip)
    BY <1>1, CalmFacts, PrunedFacts
  <1>3. job' \in Jobs /\ job'.phase = "idle" BY <1>1, TreeAssumption, JobTypes
  <1>4. IInv' BY <1>1, <1>2, <1>3, CalmFacts, Outside
  <1>5. Top' = Top BY <1>1, <1>3, CalmFacts DEF Top
  <1> QED BY <1>4, <1>5 DEF Grows

LEMMA HeaderStep ==
  ASSUME IInv, NEW b \in Blocks, AddHeader(b)
  PROVE  IInv' /\ Grows
  <1>1. /\ job = Idle /\ job.phase # "reorg"
        /\ db' = [view EXCEPT !.status[b] = "headers-only"] /\ view' = db'
        /\ UNCHANGED <<storage, tip, target, pending, job, now>>
    BY TreeAssumption, JobTypes DEF AddHeader, Commit, Quiet
  <1>2. /\ db' \in Database /\ RowsAt(db', tip, storage) /\ TopHeld(db', tip)
    BY <1>1, CalmFacts, HeaderFacts
  <1>3. IInv' BY <1>1, <1>2, CalmFacts, Outside
  <1>4. Top' = Top BY <1>1 DEF Top
  <1> QED BY <1>3, <1>4 DEF Grows

LEMMA WipeStep ==
  ASSUME IInv, Wipe
  PROVE  IInv'
  <1>1. /\ job = Idle /\ job.phase = "idle"
        /\ db' = GenesisRows /\ view' = db'
        /\ SetTip(Genesis) /\ PopChildren(Genesis, << >>)
        /\ UNCHANGED <<storage, job, now>>
    BY TreeAssumption, JobTypes DEF Wipe, Commit, Quiet
  <1>2. /\ db' \in Database /\ RowsAt(db', Genesis, storage) /\ TopHeld(db', Genesis)
    BY <1>1, GenesisFacts
  <1>3. << >> \in Seq(Blocks) OBVIOUS
  <1>4. pending' \in Seq(Blocks) BY <1>1, <1>3, PopType
  <1>5. tip' = Genesis /\ target' \in 1 .. MaxTarget
    BY <1>1, TreeAssumption, TargetType
  <1> QED BY <1>1, <1>2, <1>4, <1>5, CalmFacts, Outside

LEMMA RestartStep ==
  ASSUME IInv, Restart
  PROVE  IInv' /\ Grows
  <1>1. DbTip(db) = Top /\ Top \in Blocks BY TopIsDbTip
  <1>2. RowsAt(db, Top, storage) /\ TopHeld(db, Top)
    BY DEF IInv, CallInv, ReorgInv, Top
  <1>3. /\ view' = db /\ db' = db /\ tip' = Top
        /\ target' = Bits[Genesis] /\ pending' = << >> /\ job' = Idle
        /\ UNCHANGED <<storage, now>>
    BY <1>1, <1>2 DEF Restart, TopHeld
  <1>4. target' \in 1 .. MaxTarget BY <1>3, TreeAssumption, WorkAssumption
  <1>5. job' \in Jobs /\ job'.phase = "idle" BY <1>1, <1>3, JobTypes
  <1>6. << >> \in Seq(Blocks) OBVIOUS
  <1>7. IInv'
    BY <1>2, <1>3, <1>4, <1>5, <1>6, Outside DEF IInv, RowsTypeOK
  <1>8. Top' = Top BY <1>3, <1>5 DEF Top
  <1> QED BY <1>7, <1>8 DEF Grows

LEMMA TickStep ==
  ASSUME IInv, Tick
  PROVE  IInv' /\ Grows
  <1>1. now' \in 0 .. MaxClock BY ChainAssumption DEF Tick, IInv, RowsTypeOK
  <1>2. UNCHANGED <<storage, db, view, tip, target, pending, job>> BY DEF Tick
  <1>3. IInv'
    BY <1>1, <1>2 DEF IInv, RowsTypeOK, CallInv, ReorgInv
  <1>4. Top' = Top BY <1>2 DEF Top
  <1> QED BY <1>3, <1>4 DEF Grows

-----------------------------------------------------------------------------
(* The orphan pool.  Nothing else reads it, so its invariant stands alone. *)

PoolOK == orphans \in Seq(Blocks) /\ PoolBounded

\* The size of the pool adds the sizes of its blocks.
LEMMA PoolBytesAdds ==
  ASSUME NEW os \in Seq(Blocks)
  PROVE  \E sum : /\ Adds(1 .. Len(os), [k \in 1 .. Len(os) |-> Size[os[k]]], sum)
                  /\ PoolBytes(os) = sum[1 .. Len(os)]
  <1> DEFINE D == 1 .. Len(os)
             w == [k \in D |-> Size[os[k]]]
             iter == CHOOSE g : g = [s \in SUBSET DOMAIN os |->
                  IF s = {} THEN 0
                  ELSE Size[os[CHOOSE x \in s : TRUE]] + g[s \ {CHOOSE x \in s : TRUE}]]
  <1>1. PoolBytes(os) = iter[DOMAIN os] BY DEF PoolBytes, MapThenSumSet, MapThenFoldSet
  <1>2. IsFiniteSet(D) /\ DOMAIN os = D
    <2>1. Len(os) \in Nat /\ DOMAIN os = D OBVIOUS
    <2> QED BY <2>1, FS_Interval
  <1>3. w \in [D -> Nat]
    <2>1. \A k \in D : os[k] \in Blocks BY <1>2
    <2>2. \A k \in D : Size[os[k]] \in Nat BY <2>1, ChainAssumption
    <2> QED BY <2>2
  <1>4. \A k \in D : w[k] = Size[os[k]] OBVIOUS
  <1> HIDE DEF w, D
  <1>5. PICK sum : Adds(D, w, sum) BY <1>2, <1>3, SumExists
  <1>6. D \in SUBSET D OBVIOUS
  <1>7. PICK g : Iterates(g, D, w) BY <1>2, <1>3, <1>5, <1>6, SumIterates
  <1>8. \A s \in SUBSET D : s # {} =>
           w[CHOOSE x \in s : TRUE] = Size[os[CHOOSE x \in s : TRUE]]
    BY <1>4
  <1>9. g = [s \in SUBSET DOMAIN os |->
                  IF s = {} THEN 0
                  ELSE Size[os[CHOOSE x \in s : TRUE]] + g[s \ {CHOOSE x \in s : TRUE}]]
    BY <1>2, <1>7, <1>8 DEF Iterates
  <1>10. iter = [s \in SUBSET DOMAIN os |->
                  IF s = {} THEN 0
                  ELSE Size[os[CHOOSE x \in s : TRUE]] + iter[s \ {CHOOSE x \in s : TRUE}]]
    BY <1>9
  <1> HIDE DEF iter
  <1>11. Iterates(iter, D, w) BY <1>2, <1>8, <1>10 DEF Iterates
  <1>12. iter[D] = sum[D] BY <1>2, <1>3, <1>5, <1>6, <1>11, SumIterates
  <1> QED BY <1>1, <1>2, <1>5, <1>12 DEF w, D

\* No block is in the pool twice.
Once(os) == \A i, j \in DOMAIN os : i # j => os[i] # os[j]

\* The places of the blocks to take out.
PlacesOf(os, kids) == {k \in DOMAIN os : os[k] \in kids}

\* Taking blocks out keeps the others, in their order.
LEMMA PoolDropKeeps ==
  ASSUME NEW os \in Seq(Blocks), NEW kids
  PROVE  /\ PoolDrop(os, kids) \in Seq(Blocks)
         /\ KeptOf(PoolDrop(os, kids), os, Len(os), PlacesOf(os, kids))
  <1> DEFINE iter == CHOOSE g : g = [s \in SUBSET DOMAIN os |->
                        IF s = {} THEN << >>
                        ELSE IF os[Max(s)] \in kids THEN g[s \ {Max(s)}]
                             ELSE Append(g[s \ {Max(s)}], os[Max(s)])]
             out == PlacesOf(os, kids)
  <1>1. PoolDrop(os, kids) = iter[DOMAIN os] BY DEF PoolDrop, FoldLeft, MapThenFoldSet
  <1>2. Len(os) \in Nat /\ DOMAIN os = 1 .. Len(os) OBVIOUS
  <1>3. ASSUME NEW s \in SUBSET DOMAIN os, s # {}
        PROVE  Max(s) \in out <=> os[Max(s)] \in kids
    <2>1. s \in SUBSET Nat /\ \A m \in s : m <= Len(os) BY <1>2
    <2>2. Max(s) \in s BY <1>2, <1>3, <2>1, MaxIsGreatest
    <2> QED BY <2>2 DEF PlacesOf
  <1> HIDE DEF out
  <1>4. PICK g : Sifts(g, os, out) BY SiftKeeps
  <1>5. g = [s \in SUBSET DOMAIN os |->
                        IF s = {} THEN << >>
                        ELSE IF os[Max(s)] \in kids THEN g[s \ {Max(s)}]
                             ELSE Append(g[s \ {Max(s)}], os[Max(s)])]
    BY <1>3, <1>4 DEF Sifts
  <1>6. iter = [s \in SUBSET DOMAIN os |->
                        IF s = {} THEN << >>
                        ELSE IF os[Max(s)] \in kids THEN iter[s \ {Max(s)}]
                             ELSE Append(iter[s \ {Max(s)}], os[Max(s)])]
    BY <1>5
  <1> HIDE DEF iter
  <1>7. Sifts(iter, os, out) BY <1>3, <1>6 DEF Sifts
  <1> QED BY <1>1, <1>7, SiftKeeps DEF out

\* Taking blocks out breaks no limit.
LEMMA PoolDropFacts ==
  ASSUME NEW os \in Seq(Blocks), NEW kids, WithinBounds(os), Once(os)
  PROVE  LET r == PoolDrop(os, kids)
         IN  r \in Seq(Blocks) /\ WithinBounds(r) /\ Once(r)
  <1>1. PICK r : r = PoolDrop(os, kids) OBVIOUS
  <1>2. PICK out : r \in Seq(Blocks) /\ KeptOf(r, os, Len(os), out) BY <1>1, PoolDropKeeps
  <1>3. PICK n \in Nat : n = Len(os) OBVIOUS
  <1>4. PICK l \in Nat : l = Len(r) BY <1>2
  <1>5. PICK f \in [1 .. l -> 1 .. n] :
           /\ \A i, j \in 1 .. l : i < j => f[i] < f[j]
           /\ \A i \in 1 .. l : r[i] = os[f[i]]
    BY <1>2, <1>3, <1>4 DEF KeptOf
  <1>6. DOMAIN r = 1 .. l /\ DOMAIN os = 1 .. n BY <1>2, <1>3, <1>4
  <1>7. ASSUME NEW i \in 1 .. l, NEW j \in 1 .. l, f[i] = f[j] PROVE i = j
    <2>1. i \in Int /\ j \in Int /\ f[i] \in Int /\ f[j] \in Int BY <1>5
    <2>2. ~ (f[i] < f[j]) /\ ~ (f[j] < f[i]) BY <1>7, <2>1
    <2>3. ~ (i < j) /\ ~ (j < i) BY <1>5, <2>2
    <2> QED BY <2>1, <2>3
  <1>8. Once(r) BY <1>5, <1>6, <1>7 DEF Once
  <1>9. PICK w : w = [k \in 1 .. Len(os) |-> Size[os[k]]] OBVIOUS
  <1>10. PICK u : u = [k \in 1 .. Len(r) |-> Size[r[k]]] OBVIOUS
  <1>11. PICK sum : Adds(1 .. Len(os), w, sum) /\ PoolBytes(os) = sum[1 .. Len(os)]
    BY <1>9, PoolBytesAdds
  <1>12. PICK part : Adds(1 .. Len(r), u, part) /\ PoolBytes(r) = part[1 .. Len(r)]
    BY <1>2, <1>10, PoolBytesAdds
  <1>13. w \in [1 .. Len(os) -> Nat] /\ u \in [1 .. Len(r) -> Nat]
    <2>1. \A k \in 1 .. Len(os) : os[k] \in Blocks OBVIOUS
    <2>2. \A k \in 1 .. Len(r) : r[k] \in Blocks BY <1>2
    <2>3. /\ \A k \in 1 .. Len(os) : Size[os[k]] \in Nat
          /\ \A k \in 1 .. Len(r) : Size[r[k]] \in Nat
      BY <2>1, <2>2, ChainAssumption
    <2> QED BY <1>9, <1>10, <2>3
  <1>14. \A i \in 1 .. Len(r), j \in 1 .. Len(os) : r[i] = os[j] => u[i] = w[j]
    BY <1>9, <1>10
  <1>15. Len(r) <= Len(os) /\ part[1 .. Len(r)] <= sum[1 .. Len(os)]
    BY <1>2, <1>11, <1>12, <1>13, <1>14, KeptWeighs
  <1>16. part[1 .. Len(r)] \in Nat /\ sum[1 .. Len(os)] \in Nat
    <2>1. 1 .. Len(r) \in SUBSET (1 .. Len(r)) /\ 1 .. Len(os) \in SUBSET (1 .. Len(os)) OBVIOUS
    <2> QED BY <1>11, <1>12, <2>1 DEF Adds
  <1>17. WithinBounds(r)
    <2>1. MaxOrphans \in Nat /\ MaxOrphanBytes \in Nat BY ChainAssumption
    <2> QED BY <1>3, <1>4, <1>11, <1>12, <1>15, <1>16, <2>1 DEF WithinBounds
  <1> QED BY <1>1, <1>2, <1>8, <1>17

\* The size of a pool of one.
LEMMA OneBlock ==
  ASSUME NEW b \in Blocks
  PROVE  PoolBytes(<<b>>) = Size[b]
  <1>1. <<b>> \in Seq(Blocks) /\ Len(<<b>>) = 1 /\ <<b>>[1] = b OBVIOUS
  <1>2. PICK os \in Seq(Blocks) : os = <<b>> BY <1>1
  <1>3. PICK w : w = [k \in 1 .. Len(os) |-> Size[os[k]]] OBVIOUS
  <1>4. PICK sum : Adds(1 .. Len(os), w, sum) /\ PoolBytes(os) = sum[1 .. Len(os)]
    BY <1>3, PoolBytesAdds
  <1>5. 1 .. Len(os) = {1} /\ os[1] = b BY <1>1, <1>2
  <1>6. w[1] = Size[b] BY <1>3, <1>5
  <1>7. sum[{1}] = w[1] + sum[{1} \ {1}] /\ sum[{}] = 0 BY <1>4, <1>5 DEF Adds
  <1>8. {1} \ {1} = {} OBVIOUS
  <1>9. Size[b] \in Nat BY ChainAssumption
  <1>10. sum[{1}] = Size[b] + 0 BY <1>6, <1>7, <1>8
  <1>11. \A v \in Nat : v + 0 = v OBVIOUS
  <1>12. sum[{1}] = Size[b] BY <1>9, <1>10, <1>11
  <1> QED BY <1>2, <1>4, <1>5, <1>12

\* OrphanBlockPool.add keeps both limits by letting the oldest go: in the end
\* the new block alone, which fits.
LEMMA PoolAddFacts ==
  ASSUME NEW b \in Blocks, PoolOK
  PROVE  PoolAdd(b) \in Seq(Blocks) /\ WithinBounds(PoolAdd(b)) /\ Once(PoolAdd(b))
  <1>0. orphans \in Seq(Blocks) /\ WithinBounds(orphans) /\ Once(orphans)
    BY DEF PoolOK, PoolBounded, Once
  <1>1. CASE Size[b] > MaxOrphanBytes \/ InPool(b) BY <1>0, <1>1 DEF PoolAdd
  <1>2. CASE ~ (Size[b] > MaxOrphanBytes \/ InPool(b))
    <2>1. PICK os \in Seq(Blocks) : os = orphans BY <1>0
    <2>0. Append(os, b) \in Seq(Blocks) OBVIOUS
    <2>2. PICK all \in Seq(Blocks) : all = Append(os, b) BY <2>0
    <2>3. PICK n \in Nat : n = Len(os) OBVIOUS
    <2>4. /\ Len(all) = n + 1 /\ all[n + 1] = b /\ \A k \in 1 .. n : all[k] = os[k]
          /\ DOMAIN os = 1 .. n /\ DOMAIN all = 1 .. n + 1
      BY <2>2, <2>3
    <2> DEFINE Fit(k) == WithinBounds(SubSeq(all, k + 1, Len(all)))
               cut == CHOOSE k \in 0 .. n : Fit(k) /\ \A j \in 0 .. k - 1 : ~ Fit(j)
               r == SubSeq(all, cut + 1, Len(all))
    <2>5. PoolAdd(b) = r BY <1>2, <2>1, <2>2, <2>3 DEF PoolAdd
    <2>6. Fit(n)
      <3>1. PICK q : q = SubSeq(all, n + 1, n + 1) OBVIOUS
      <3>2. Len(q) = 1 /\ q = <<b>>
        <4>1. n + 1 \in 1 .. n + 1 /\ n + 1 \in 1 .. Len(all) BY <2>4
        <4>2. q \in Seq(Blocks) /\ Len(q) = 1 BY <3>1, <4>1
        <4>3. q[1] = all[n + 1] BY <3>1, <4>1
        <4>4. q[1] = b BY <2>4, <4>3
        <4>5. <<b>> \in Seq(Blocks) /\ Len(<<b>>) = 1 /\ <<b>>[1] = b OBVIOUS
        <4>6. \A i \in 1 .. 1 : i = 1 OBVIOUS
        <4> QED BY <4>2, <4>4, <4>5, <4>6, SeqEqual
      <3>3. PoolBytes(q) = Size[b] BY <3>2, OneBlock
      <3>4. Size[b] \in Nat /\ MaxOrphanBytes \in Nat /\ MaxOrphans \in Nat \ {0}
        BY ChainAssumption
      <3>5. Size[b] <= MaxOrphanBytes BY <1>2, <3>4
      <3>6. Len(q) <= MaxOrphans BY <3>2, <3>4
      <3>7. WithinBounds(q) BY <3>3, <3>5, <3>6 DEF WithinBounds
      <3> QED BY <2>4, <3>1, <3>7
    <2> DEFINE K == {k \in 0 .. n : Fit(k)}
    <2>7. K \in SUBSET Nat /\ n \in K BY <2>6
    <2>8. PICK k \in K : \A j \in K : k <= j BY <2>7, LeastNatural
    <2> HIDE DEF Fit
    <2>9. k \in 0 .. n /\ Fit(k) BY <2>8
    <2>10. \A j \in 0 .. k - 1 : ~ Fit(j)
      <3>1. ASSUME NEW j \in 0 .. k - 1, Fit(j) PROVE FALSE
        <4>1. j \in 0 .. n /\ j < k /\ k \in Int /\ j \in Int BY <2>9, <3>1
        <4>2. j \in K BY <3>1, <4>1
        <4>3. k <= j BY <2>8, <4>2
        <4> QED BY <4>1, <4>3
      <3> QED BY <3>1
    <2>11. cut \in 0 .. n /\ Fit(cut) BY <2>9, <2>10
    <2> HIDE DEF cut
    <2>12. /\ r \in Seq(Blocks) /\ Len(r) = n + 1 - cut
           /\ \A i \in 1 .. n + 1 - cut : r[i] = all[cut + i]
      BY <2>4, <2>11
    <2>13. WithinBounds(r) BY <2>11 DEF Fit
    <2> HIDE DEF r
    <2>14. DOMAIN r = 1 .. n + 1 - cut BY <2>11, <2>12
    <2>15. \A i \in DOMAIN r : cut + i \in 1 .. n + 1 /\ r[i] = all[cut + i]
      BY <2>11, <2>12, <2>14
    <2>16. Once(all)
      <3>1. \A i \in 1 .. n : os[i] # b BY <1>2, <2>1, <2>4 DEF InPool
      <3>2. \A i \in 1 .. n + 1 : i = n + 1 \/ i \in 1 .. n OBVIOUS
      <3> QED BY <1>0, <2>1, <2>4, <3>1, <3>2 DEF Once
    <2>17. Once(r)
      <3>1. ASSUME NEW i \in DOMAIN r, NEW j \in DOMAIN r, i # j PROVE r[i] # r[j]
        <4>1. cut + i # cut + j BY <2>11, <2>14, <3>1
        <4> QED BY <2>4, <2>15, <2>16, <4>1 DEF Once
      <3> QED BY <3>1 DEF Once
    <2> QED BY <2>5, <2>12, <2>13, <2>17
  <1> QED BY <1>1, <1>2

\* An empty pool is within every limit.
LEMMA EmptyPool == WithinBounds(<< >>) /\ Once(<< >>)
  <1>0. << >> \in Seq(Blocks) OBVIOUS
  <1>1. PICK os \in Seq(Blocks) : os = << >> BY <1>0
  <1>2. Len(os) = 0 /\ DOMAIN os = {} /\ 1 .. Len(os) = {} BY <1>1
  <1>3. PICK sum : /\ Adds(1 .. Len(os), [k \in 1 .. Len(os) |-> Size[os[k]]], sum)
                   /\ PoolBytes(os) = sum[1 .. Len(os)]
    BY PoolBytesAdds
  <1>4. PoolBytes(os) = 0 BY <1>2, <1>3 DEF Adds
  <1>5. MaxOrphans \in Nat /\ MaxOrphanBytes \in Nat BY ChainAssumption
  <1> QED BY <1>1, <1>2, <1>4, <1>5 DEF WithinBounds, Once

\* Whatever add_block does, the pool keeps its limits.
LEMMA PoolStep ==
  ASSUME PoolOK, pending \in Seq(Blocks), [Next]_vars
  PROVE  PoolOK'
  <1>0. orphans \in Seq(Blocks) /\ WithinBounds(orphans) /\ Once(orphans)
    BY DEF PoolOK, PoolBounded, Once
  <1>1. ASSUME orphans' \in Seq(Blocks), WithinBounds(orphans'), Once(orphans') PROVE PoolOK'
    BY <1>1 DEF PoolOK, PoolBounded, Once
  <1>2. ASSUME UNCHANGED orphans PROVE PoolOK'
    BY <1>0, <1>1, <1>2
  <1>3. ASSUME NEW b, NEW rest, PopChildren(b, rest) PROVE PoolOK'
    <2>1. PICK kids : orphans' = PoolDrop(orphans, kids) BY <1>3 DEF PopChildren
    <2> QED BY <1>0, <1>1, <2>1, PoolDropFacts
  <1>4. ASSUME NEW b \in Blocks, NEW rest, AddBlock(b, rest) PROVE PoolOK'
    <2>1. CASE KeepOrphan(b, rest)
      <3>1. orphans' = PoolAdd(b) \/ UNCHANGED orphans BY <2>1 DEF KeepOrphan
      <3> QED BY <1>1, <1>2, <3>1, PoolAddFacts
    <2>2. CASE StoreSideBlock(b, rest) BY <1>2, <1>3, <2>2 DEF StoreSideBlock
    <2> QED BY <1>2, <1>4, <2>1, <2>2
        DEF AddBlock, IgnoreKnown, RefuseTipBlock, ConnectTip, RefuseSideBlock
  <1>5. CASE UNCHANGED vars BY <1>2, <1>5 DEF vars
  <1>6. CASE Submit BY <1>4, <1>6 DEF Submit
  <1>7. CASE AddOrphan
    <2>1. pending # << >> BY <1>7 DEF AddOrphan
    <2>2. Head(pending) \in Blocks BY <2>1
    <2> QED BY <1>4, <1>7, <2>2 DEF AddOrphan
  <1>8. CASE Settle BY <1>3, <1>8 DEF Settle
  <1>9. CASE Wipe BY <1>3, <1>9 DEF Wipe
  <1>10. CASE Restart
    <2>1. orphans' = << >> BY <1>10 DEF Restart
    <2>2. << >> \in Seq(Blocks) /\ Len(<< >>) = 0 /\ DOMAIN << >> = {} OBVIOUS
    <2> QED BY <1>1, <2>1, <2>2, EmptyPool
  <1> QED
    BY <1>2, <1>5, <1>6, <1>7, <1>8, <1>9, <1>10
    DEF Next, Running, ReorgDisconnect, ReorgConnect, ReorgCommit, ReorgRefuse, ReorgRaise,
        SettleFails, AddHeader, Tick

-----------------------------------------------------------------------------
(* Theorems *)

\* Every step of the chain state keeps the inductive invariant; every step but
\* wiping the chain keeps the committed tip or moves it to more work.
LEMMA StepInv ==
  ASSUME IInv, [Next]_vars
  PROVE  IInv' /\ (Wipe \/ Grows)
  <1>1. CASE UNCHANGED vars
    <2>1. IInv' BY <1>1 DEF vars, IInv, RowsTypeOK, CallInv, ReorgInv
    <2>2. Top' = Top BY <1>1 DEF vars, Top
    <2> QED BY <2>1, <2>2 DEF Grows
  <1>2. CASE Submit
    <2>1. << >> \in Seq(Blocks) OBVIOUS
    <2> QED BY <1>2, <2>1, AddBlockStep DEF Submit, Quiet
  <1>3. CASE AddOrphan
    <2>1. pending \in Seq(Blocks) /\ pending # << >> /\ job = Idle
      BY <1>3 DEF AddOrphan, IInv, RowsTypeOK
    <2>2. Head(pending) \in Blocks /\ Tail(pending) \in Seq(Blocks) BY <2>1
    <2> QED BY <1>3, <2>1, <2>2, AddBlockStep DEF AddOrphan
  <1>4. CASE ReorgDisconnect BY <1>4, DisconnectStep
  <1>5. CASE ReorgConnect BY <1>5, ConnectStep
  <1>6. CASE ReorgCommit BY <1>6, CommitStep
  <1>7. CASE ReorgRefuse BY <1>7, RefuseStep
  <1>8. CASE ReorgRaise BY <1>8, RaiseStep
  <1>9. CASE Settle BY <1>9, SettleStep
  <1>14. CASE SettleFails BY <1>14, SettleFailsStep
  <1>10. CASE \E b \in Announced : AddHeader(b)
    BY <1>10, ChainAssumption, HeaderStep
  <1>11. CASE Wipe BY <1>11, WipeStep
  <1>12. CASE Restart BY <1>12, RestartStep
  <1>13. CASE Tick BY <1>13, TickStep
  <1> QED
    BY <1>1, <1>2, <1>3, <1>4, <1>5, <1>6, <1>7, <1>8, <1>9, <1>10, <1>11,
       <1>12, <1>13, <1>14
    DEF Next, Running

\* The invariant holds in every reachable state of Blockchain: between calls
\* the rows describe the branch of the cached tip, and inside reorganize_to
\* the branch of the block the loop has got to.
THEOREM Invariant == Spec => []IInv
  <1>1. IInv /\ [Next]_vars => IInv' BY StepInv
  <1> QED BY InitInv, <1>1, PTL DEF Spec

\* Type correctness of the rows, the cached tip and target, the calls under
\* way and the clock; and the connection reads what is committed except inside
\* the transaction of a reorganisation.
THEOREM RowsTyped == Spec => []RowsTypeOK
  <1>1. IInv => RowsTypeOK BY DEF IInv
  <1> QED BY Invariant, <1>1, PTL

\* The utxos table is the replay of the active branch, whatever was connected,
\* undone, rolled back, pruned or interrupted on the way.
THEOREM LedgerKept == Spec => []UtxoIsReplay
  <1>1. IInv => UtxoIsReplay
    <2> SUFFICES ASSUME IInv PROVE db.utxo = LedgerAt[DbTip(db)]
      BY DEF UtxoIsReplay
    <2>1. db.utxo = LedgerAt[Top]
      BY DEF IInv, CallInv, ReorgInv, RowsAt, Top
    <2> QED BY <2>1, TopIsDbTip
  <1> QED BY Invariant, <1>1, PTL

\* The same holds at every block of a reorganisation, inside its transaction.
THEOREM LedgerKeptInside == Spec => []ViewIsReplay
  <1>1. IInv => ViewIsReplay BY DEF IInv, ReorgInv, RowsAt, ViewIsReplay
  <1> QED BY Invariant, <1>1, PTL

\* Undo rows, once written by connect_block, undo their block exactly for as
\* long as they are kept.
THEOREM UndoSound == Spec => []UndoInverts
  <1>1. IInv => UndoInverts
    <2> SUFFICES ASSUME IInv, NEW b \in db.undoFor \ {Genesis}
                 PROVE  Disconnected([db EXCEPT !.utxo = LedgerAt[b]], b).utxo
                          = LedgerAt[Prev[b]]
      BY DEF UndoInverts
    <2> DEFINE e == [db EXCEPT !.utxo = LedgerAt[b]]
    <2>1. db \in Database /\ UndoKept(db)
      BY DEF IInv, RowsTypeOK, CallInv, ReorgInv, RowsAt
    <2>2. b \in Blocks BY <2>1 DEF Database
    <2>3. /\ db.spentBy[b] = Captured(b, LedgerAt[Prev[b]])
          /\ Bip30Ok(b, LedgerAt[Prev[b]])
      BY <2>1 DEF UndoKept
    <2>4. /\ e \in Database /\ e.utxo = LedgerAt[b] /\ e.spentBy = db.spentBy
      BY <2>1, <2>2, LedgerType DEF Database
    <2>5. Disconnected(e, b).utxo
            = Without(e.utxo, Creates[b] \cup Ops(e.spentBy[b])) \cup e.spentBy[b]
      BY <2>4 DEF Disconnected, Database
    <2> HIDE DEF e
    <2>6. Disconnected(e, b).utxo = LedgerAt[Prev[b]]
      BY <2>2, <2>3, <2>4, <2>5, LedgerUndo
    <2> QED BY <2>6 DEF e
  <1> QED BY Invariant, <1>1, PTL

\* In an archival node the active entries are exactly the branch of the tip.
THEOREM ActiveChain == Spec => []ActiveIsBranch
  <1>1. IInv => ActiveIsBranch
    <2> SUFFICES ASSUME IInv, storage = "archival"
                 PROVE  db.active = Branch[DbTip(db)]
      BY DEF ActiveIsBranch
    <2>1. db.active = Branch[Top]
      BY DEF IInv, CallInv, ReorgInv, RowsAt, Top
    <2> QED BY <2>1, TopIsDbTip
  <1> QED BY Invariant, <1>1, PTL

\* The cached tip is the active tip of the database outside a reorganisation.
THEOREM CachedTip == Spec => []CachedTipIsActiveTip
  <1>1. IInv => CachedTipIsActiveTip
    BY TopIsDbTip DEF CachedTipIsActiveTip, Top
  <1> QED BY Invariant, <1>1, PTL

\* Only wiping the chain commits a tip with less work: a failed, refused or
\* interrupted reorganisation leaves the committed tip where it was.
THEOREM WorkGrows == Spec => TipWorkGrows
  <1>1. IInv /\ [Next]_vars =>
          [DbTip(db') = DbTip(db) \/ Wipe
             \/ ChainWork[DbTip(db')] > ChainWork[DbTip(db)]]_vars
    <2> SUFFICES ASSUME IInv, [Next]_vars, ~ Wipe
                 PROVE  DbTip(db') = DbTip(db)
                          \/ ChainWork[DbTip(db')] > ChainWork[DbTip(db)]
      OBVIOUS
    <2>1. IInv' /\ Grows BY StepInv
    <2>2. DbTip(db) = Top BY TopIsDbTip
    <2>3. DbTip(db') = Top'
      <3>1. (IInv => DbTip(db) = Top /\ Top \in Blocks)' BY TopIsDbTip, PTL
      <3> QED BY <2>1, <3>1
    <2> QED BY <2>1, <2>2, <2>3 DEF Grows
  <1> QED BY Invariant, <1>1, PTL DEF Spec, TipWorkGrows

\* The invariant of the orphan pool holds in every reachable state.
LEMMA PoolInvariant == Spec => []PoolOK
  <1>1. Init => PoolOK
    <2>1. << >> \in Seq(Blocks) OBVIOUS
    <2> QED BY <2>1, EmptyPool DEF Init, PoolOK, PoolBounded, Once
  <1>2. IInv /\ PoolOK /\ [Next]_vars => PoolOK' BY PoolStep DEF IInv, RowsTypeOK
  <1> QED BY Invariant, <1>1, <1>2, PTL DEF Spec

\* The orphan pool respects both of its limits and holds no block twice.
THEOREM PoolKept == Spec => []PoolBounded
  <1>1. PoolOK => PoolBounded BY DEF PoolOK
  <1> QED BY PoolInvariant, <1>1, PTL

\* Every variable of the chain state, the orphan pool included, keeps its type.
THEOREM TypeCorrect == Spec => []TypeOK
  <1>1. IInv /\ PoolOK => TypeOK BY DEF IInv, PoolOK, TypeOK
  <1> QED BY Invariant, PoolInvariant, <1>1, PTL
=============================================================================
