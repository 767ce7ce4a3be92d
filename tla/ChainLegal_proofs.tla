--------------------------- MODULE ChainLegal_proofs ---------------------------
(***************************************************************************)
(* What the chain state makes of the blocks it is given: the branches it   *)
(* follows are legal, what it puts into circulation is what it grants, and *)
(* what it condemns deserves it.                                           *)
(***************************************************************************)
EXTENDS Chain_proofs, ChainStarts

-----------------------------------------------------------------------------
(* What the branches have gone through *)

\* The branch the committed rows describe is within G, and so is the one the
\* loop of a reorganisation has reached.
BranchesIn(G) ==
    /\ Branch[Top] \subseteq G
    /\ job.phase = "reorg" => Branch[job.at] \subseteq G

\* A block that the validation accepts after a branch within G is in G.
Earns(G) ==
    \A b \in Blocks :
        /\ b # Genesis /\ Prev[b] = tip /\ tip \in Blocks
        /\ RowsAt(view, tip, storage) /\ Branch[tip] \subseteq G
        /\ Validate(b, tip, target, view, now) = "accept"
        => b \in G

\* add_block leaves the branches within G.
LEMMA AddBlockKeeps ==
  ASSUME NEW G, IInv, BranchesIn(G), Earns(G), job = Idle,
         NEW b \in Blocks, NEW rest \in Seq(Blocks), AddBlock(b, rest)
  PROVE  BranchesIn(G)'
  <1>1. job.phase = "idle" /\ Top = tip BY TreeAssumption, JobTypes DEF Top
  <1>2. view = db /\ tip \in Blocks /\ RowsAt(db, tip, storage) /\ Branch[tip] \subseteq G
    BY <1>1, CalmFacts DEF BranchesIn
  <1>3. ASSUME tip' = tip, job' = job PROVE BranchesIn(G)'
    BY <1>1, <1>2, <1>3 DEF BranchesIn, Top
  <1>4. CASE ConnectTip(b, rest)
    <2>1. /\ Prev[b] = tip /\ Validate(b, tip, target, view, now) = "accept"
          /\ SetTip(b) /\ job' = Settling(b)
      BY <1>4 DEF ConnectTip
    <2>2. b # Genesis BY <1>2, <2>1, TreeAssumption
    <2>3. b \in G BY <1>2, <2>1, <2>2 DEF Earns
    <2>4. Branch[b] \subseteq G BY <1>2, <2>1, <2>2, <2>3, BranchStep
    <2>5. tip' = b /\ job'.phase = "settle" BY <2>1, JobTypes DEF SetTip
    <2> QED BY <2>4, <2>5 DEF BranchesIn, Top
  <1>5. CASE StoreSideBlock(b, rest)
    <2>1. PICK stored : stored = SideStored(db, b) OBVIOUS
    <2>2. tip' = tip /\ (job' = job \/ job' = Reorganizing(b, DbTip(stored)))
      BY <1>2, <1>5, <2>1 DEF StoreSideBlock
    <2>3. DbTip(stored) = tip
      <3>1. db \in Database /\ b \notin db.bodies /\ TopHeld(db, tip)
        BY <1>1, <1>2, <1>5, CalmFacts DEF StoreSideBlock, Refusable
      <3>2. RowsAt(stored, tip, storage) /\ TopHeld(stored, tip)
        BY <1>2, <2>1, <3>1, SideStoredFacts
      <3> QED BY <3>2, TipOfRows
    <2>4. CASE job' = Reorganizing(b, tip)
      <3>1. job'.phase = "reorg" /\ job'.at = tip /\ job'.from = tip
        BY <1>2, <2>4, JobTypes
      <3> QED BY <1>2, <3>1 DEF BranchesIn, Top
    <2> QED BY <1>3, <2>2, <2>3, <2>4
  <1> QED
    BY <1>3, <1>4, <1>5
    DEF AddBlock, IgnoreKnown, RefuseTipBlock, KeepOrphan, RefuseSideBlock

\* So does every step.
LEMMA BranchesStay ==
  ASSUME NEW G, Genesis \in G, IInv, BranchesIn(G), Earns(G), [Next]_vars
  PROVE  BranchesIn(G)'
  <1>1. ASSUME Top' = Top, job'.phase # "reorg" PROVE BranchesIn(G)'
    BY <1>1 DEF BranchesIn
  <1>2. ASSUME UNCHANGED <<tip, job>> PROVE BranchesIn(G)'
    BY <1>2 DEF BranchesIn, Top
  <1>3. CASE Submit
    <2>1. << >> \in Seq(Blocks) OBVIOUS
    <2> QED BY <1>3, <2>1, AddBlockKeeps DEF Submit, Quiet
  <1>4. CASE AddOrphan
    <2>1. pending \in Seq(Blocks) /\ pending # << >> /\ job = Idle
      BY <1>4 DEF AddOrphan, IInv, RowsTypeOK
    <2>2. Head(pending) \in Blocks /\ Tail(pending) \in Seq(Blocks) BY <2>1
    <2> QED BY <1>4, <2>1, <2>2, AddBlockKeeps DEF AddOrphan
  <1>5. ASSUME job.phase = "reorg"
        PROVE  /\ job.at \in Blocks /\ job \in Jobs /\ Top = job.from /\ ReorgInv
               /\ Branch[job.at] \subseteq G /\ Branch[job.from] \subseteq G
    BY <1>5 DEF IInv, RowsTypeOK, ReorgInv, BranchesIn, Top
  <1>6. ASSUME NEW x \in Blocks, job.phase = "reorg", job' = [job EXCEPT !.at = x],
               Branch[x] \subseteq G
        PROVE  BranchesIn(G)'
    <2>1. job'.phase = "reorg" /\ job'.at = x /\ job'.from = job.from
      BY <1>5, <1>6 DEF Jobs
    <2> QED BY <1>5, <1>6, <2>1 DEF BranchesIn, Top
  <1>7. CASE ReorgDisconnect
    <2>1. /\ job.phase = "reorg" /\ job.at \notin Branch[job.goal]
          /\ job' = [job EXCEPT !.at = Prev[job.at]]
      BY <1>7 DEF ReorgDisconnect, Disconnecting
    <2>2. job.goal \in Blocks /\ job.at # Genesis BY <1>5, <2>1, Rooted DEF ReorgInv
    <2>3. Prev[job.at] \in Blocks /\ Branch[Prev[job.at]] \subseteq Branch[job.at]
      BY <1>5, <2>1, <2>2, ParentIsBlock, BranchStep
    <2> QED BY <1>5, <1>6, <2>1, <2>3
  <1>8. CASE ReorgConnect
    <2> DEFINE x == NextUp
    <2>1. /\ Connecting /\ job.phase = "reorg" /\ job' = [job EXCEPT !.at = x]
          /\ Validate(x, tip, target, view, now) = "accept"
      BY <1>8 DEF ReorgConnect, Connecting
    <2>2. x \in Blocks /\ Prev[x] = job.at /\ x # Genesis BY <2>1, NextUpFacts
    <2> HIDE DEF x
    <2>3. Prev[x] = tip BY <2>1, AcceptMeans
    <2>4. RowsAt(view, tip, storage) BY <1>5, <2>1, <2>2, <2>3 DEF ReorgInv
    <2>5. x \in G BY <1>5, <2>1, <2>2, <2>3, <2>4 DEF Earns
    <2>6. Branch[x] \subseteq G BY <1>5, <2>1, <2>2, <2>5, BranchStep
    <2> QED BY <1>6, <2>1, <2>2, <2>6
  <1>9. CASE ReorgCommit
    <2>1. /\ job.phase = "reorg" /\ job.at = job.goal
          /\ job' = Settling(job.goal) /\ tip' = tip
      BY <1>9 DEF ReorgCommit
    <2>2. job.goal \in Blocks /\ job'.phase = "settle" BY <1>5, <2>1, JobTypes
    <2>3. tip = job.goal
      <3>1. /\ job.from \in Blocks
            /\ ChainWork[job.from] < ChainWork[job.goal]
        BY <1>5, <2>1 DEF ReorgInv
      <3>2. ChainWork[job.from] \in Nat /\ ChainWork[job.goal] \in Nat
        BY <2>2, <3>1, WorkAssumption
      <3>3. job.goal \notin Branch[job.from] BY <3>1, <3>2, AncestorIsLower
      <3> QED BY <1>5, <2>1, <3>3 DEF ReorgInv
    <2> QED BY <1>5, <2>1, <2>2, <2>3 DEF BranchesIn, Top
  <1>10. CASE ReorgRefuse \/ ReorgRaise
    <2>1. job.phase = "reorg" /\ tip' = job.from /\ job' = Idle
      BY <1>10 DEF ReorgRefuse, ReorgRaise, SetTip, Connecting
    <2>2. job'.phase = "idle" BY <2>1, TreeAssumption, JobTypes
    <2> QED BY <1>1, <1>5, <2>1, <2>2 DEF Top
  <1>11. CASE Settle \/ SettleFails
    <2>1. job.phase = "settle" /\ tip' = tip /\ job' = Idle
      BY <1>11 DEF Settle, SettleFails
    <2>2. job'.phase = "idle" BY <2>1, TreeAssumption, JobTypes
    <2> QED BY <1>1, <2>1, <2>2 DEF Top
  <1>12. CASE Wipe
    <2>1. job = Idle /\ job' = job /\ tip' = Genesis BY <1>12 DEF Wipe, Quiet, SetTip
    <2>2. job'.phase = "idle" BY <2>1, TreeAssumption, JobTypes
    <2>3. Branch[Genesis] \subseteq {Genesis}
      <3>1. Genesis \in Blocks /\ Prev[Genesis] \notin Blocks BY TreeAssumption
      <3>2. {Genesis} \in SUBSET Blocks /\ Closed({Genesis}) BY <3>1 DEF Closed
      <3> QED BY <3>1, <3>2, BranchLeast
    <2> QED BY <2>1, <2>2, <2>3 DEF BranchesIn, Top
  <1>13. CASE Restart
    <2>1. job' = Idle /\ job'.phase = "idle" BY <1>13, TreeAssumption, JobTypes DEF Restart
    <2>2. DbTip(db) = Top /\ Top \in db.bodies
      BY TopIsDbTip DEF IInv, CallInv, ReorgInv, Top, TopHeld
    <2>3. tip' = Top BY <1>13, <2>2 DEF Restart
    <2> QED BY <1>1, <2>1, <2>3 DEF Top
  <1> QED
    BY <1>2, <1>3, <1>4, <1>7, <1>8, <1>9, <1>10, <1>11, <1>12, <1>13
    DEF Next, Running, AddHeader, Tick, vars

-----------------------------------------------------------------------------
(* What the validation accepts is legal *)

\* Rows that describe a branch without a gap give the window of the index.
LEMMA WindowsAgree ==
  ASSUME NEW d, NEW p, RowsAt(d, p, "archival")
  PROVE  ActiveWindow(d, Height[p]) = IndexWindow(p) /\ IndexWindow(p) # {}
  <1>1. p \in Blocks /\ d.active = Branch[p] /\ d.active \subseteq d.bodies
    BY DEF RowsAt
  <1>2. Height[p] \in Nat BY <1>1, TreeAssumption
  <1>3. \A x \in Branch[p] : x \in Blocks /\ Height[x] \in Nat /\ Height[x] <= Height[p]
    <2> TAKE x \in Branch[p]
    <2>1. x \in Blocks BY <1>1, BranchClosed
    <2>2. x = p \/ Height[x] < Height[p] BY <1>1, AncestorIsLower
    <2> QED BY <1>2, <2>1, <2>2, TreeAssumption
  <1>4. MedianSpan \in Nat \ {0} BY RulesAssumption
  <1>5. \A x \in Branch[p] : Height[p] - MedianSpan < Height[x]
                               <=> Height[x] > Height[p] - MedianSpan
    BY <1>2, <1>3, <1>4
  <1>6. ActiveWindow(d, Height[p]) = IndexWindow(p)
    BY <1>1, <1>3, <1>5 DEF ActiveWindow, IndexWindow
  <1>7. p \in IndexWindow(p) BY <1>1, <1>2, <1>4, BranchClosed DEF IndexWindow
  <1> QED BY <1>6, <1>7

\* A block accepted after rows that describe a branch without a gap is a
\* legal successor of its last block.
LEMMA AcceptIsLegal ==
  ASSUME NEW b \in Blocks, b # Genesis, NEW d, RowsAt(d, Prev[b], "archival"),
         NEW g, NEW n, Validate(b, Prev[b], g, d, n) = "accept"
  PROVE  b \in Legal
  <1> DEFINE p == Prev[b]
  <1>1. /\ p \in Blocks /\ d.utxo = LedgerAt[p]
        /\ d.active = Branch[p] /\ d.active \subseteq d.bodies
    BY DEF RowsAt
  <1>2. /\ EarlyRulesOk(b, p, g, d, n) /\ ~ FeeRaises(b, d.utxo) /\ LateRulesOk(b, p, d)
    <2>1. EarlyRulesOk(b, p, g, d, n) /\ ~ FeeRaises(b, d.utxo) BY DEF Validate
    <2> QED BY <2>1 DEF Validate
  <1>3. Height[b] = Height[p] + 1 /\ Height[p] \in Nat BY <1>1, TreeAssumption
  <1>4. ActiveWindow(d, Height[p]) = IndexWindow(p) /\ IndexWindow(p) # {} BY WindowsAgree
  <1>5. Flaw[b] = "none" BY <1>2 DEF EarlyRulesOk, LateRulesOk
  <1>6. Time[b] > MedianTime(IndexWindow(p)) BY <1>2, <1>4 DEF EarlyRulesOk, TimestampOk
  <1>7. Bip30Ok(b, LedgerAt[p]) BY <1>1, <1>2 DEF EarlyRulesOk
  <1>8. ASSUME NEW i \in Spending(b)
        PROVE  /\ Body[b][i].ins \subseteq Ops(LedgerAt[p])
               /\ Value(Body[b][i].ins) >= Value(Body[b][i].outs)
    <2>1. /\ Body[b][i].ins \subseteq Ops(LedgerAt[p])
          /\ ~ (Value(Body[b][i].ins) < Value(Body[b][i].outs))
      BY <1>1, <1>2 DEF FeeRaises
    <2>2. Body[b] \in Seq(Tx) BY BodyAssumption
    <2>3. i \in 1 .. Len(Body[b]) BY <2>2 DEF Spending
    <2>4. Body[b][i] \in Tx BY <2>2, <2>3
    <2>5. Value(Body[b][i].ins) \in Nat /\ Value(Body[b][i].outs) \in Nat
      BY <2>4, ValueType DEF Tx
    <2> QED BY <2>1, <2>5
  <1>9. InputsExist(b) BY <1>8 DEF InputsExist
  <1>10. CoinbaseOk(b, Granted(b)) BY <1>2 DEF LateRulesOk, Granted
  <1>11. NoDoubleSpend(b) BY <1>2 DEF LateRulesOk
  <1>12. MatureAt(Height[b], Spends[b], LedgerAt[p]) BY <1>1, <1>2, <1>3 DEF LateRulesOk
  <1> QED BY <1>5, <1>6, <1>7, <1>8, <1>9, <1>10, <1>11, <1>12 DEF Legal, LegalBlock

\* The copy of the block rules that the promise is stated with is the same.
LEMMA SameRules ==
  /\ \A b : Promised!LegalBranch(b) = LegalBranch(b)
  /\ Promised!LedgerAt = LedgerAt
  <1>1. Promised!Branch = Branch BY DEF Promised!Branch, Branch
  <1>2. Promised!Spends = Spends /\ Promised!Creates = Creates
    BY DEF Promised!Spends, Spends, Promised!Creates, Creates
  <1>3. Promised!Deletes = Deletes BY <1>2 DEF Promised!Deletes, Deletes
  <1>4. Promised!LedgerAt = LedgerAt
    BY <1>1, <1>2, <1>3
    DEF Promised!LedgerAt, LedgerAt, Promised!UnspentIn, UnspentIn, Promised!Coins, Coins
  <1>5. \A ops : Promised!Value(ops) = Value(ops)
    BY Zenon DEF Promised!Value, Value, Promised!MapThenSumSet, MapThenSumSet,
                 Promised!MapThenFoldSet, MapThenFoldSet
  <1>6. \A h : Promised!Subsidy(h) = Subsidy(h) BY DEF Promised!Subsidy, Subsidy
  <1>7. \A b : Promised!Spending(b) = Spending(b) BY DEF Promised!Spending, Spending
  <1>8. \A ops : Promised!Ops(ops) = Ops(ops) BY DEF Promised!Ops, Ops
  <1>9. \A w : Promised!MedianTime(w) = MedianTime(w)
    BY Zenon DEF Promised!MedianTime, MedianTime, Promised!Cardinality, Cardinality
  <1>10. \A b : Promised!IndexWindow(b) = IndexWindow(b)
    BY <1>1 DEF Promised!IndexWindow, IndexWindow
  <1>11. \A b, coins : Promised!Bip30Ok(b, coins) = Bip30Ok(b, coins)
    BY <1>2, <1>8 DEF Promised!Bip30Ok, Bip30Ok
  <1>12. \A b : Promised!InputsExist(b) = InputsExist(b)
    BY <1>4, <1>7, <1>8 DEF Promised!InputsExist, InputsExist
  <1>13. \A b : Promised!NoDoubleSpend(b) = NoDoubleSpend(b)
    BY <1>7 DEF Promised!NoDoubleSpend, NoDoubleSpend
  <1>14. \A b : Promised!Fees(b) = Fees(b)
    BY Zenon DEF Promised!Fees, Fees, Promised!Value, Value, Promised!Spending, Spending,
                 Promised!MapThenSumSet, MapThenSumSet, Promised!MapThenFoldSet, MapThenFoldSet
  <1>15. \A b, s : Promised!CoinbaseOk(b, s) = CoinbaseOk(b, s)
    BY <1>5, <1>14 DEF Promised!CoinbaseOk, CoinbaseOk
  <1>16. \A h, ops, coins : Promised!MatureAt(h, ops, coins) = MatureAt(h, ops, coins)
    BY DEF Promised!MatureAt, MatureAt, Promised!IsCoinbaseCoin, IsCoinbaseCoin
  <1>17. \A b : Promised!Granted(b) = Granted(b) BY <1>6 DEF Promised!Granted, Granted
  <1>18. \A b : Promised!LegalBlock(b) = LegalBlock(b)
    BY <1>2, <1>4, <1>5, <1>6, <1>7, <1>9, <1>10, <1>11, <1>12, <1>13, <1>15, <1>16, <1>17
    DEF Promised!LegalBlock, LegalBlock
  <1>19. Promised!Legal = Legal BY <1>18 DEF Promised!Legal, Legal
  <1> QED BY <1>1, <1>4, <1>19 DEF Promised!LegalBranch, LegalBranch

\* The committed utxos are the ledger of the tip the rows describe.
LEMMA LedgerOfTop == IInv => db.utxo = LedgerAt[Top]
  BY DEF IInv, CallInv, ReorgInv, RowsAt, Top

\* The storage mode is fixed.
LEMMA StorageFixed == [Next]_vars => storage' = storage
  BY DEF Next, vars, Submit, Running, AddOrphan, AddBlock, IgnoreKnown, RefuseTipBlock,
         ConnectTip, KeepOrphan, RefuseSideBlock, StoreSideBlock, Return, ReorgDisconnect,
         ReorgConnect, ReorgCommit, ReorgRefuse, ReorgRaise, Settle, SettleFails, AddHeader,
         Wipe, Restart, Tick

\* The branch of the first block.
LEMMA BranchOfGenesis == Branch[Genesis] = {Genesis}
  <1>1. Genesis \in Blocks /\ Prev[Genesis] \notin Blocks BY TreeAssumption
  <1>2. {Genesis} \in SUBSET Blocks /\ Closed({Genesis}) BY <1>1 DEF Closed
  <1> QED BY <1>1, <1>2, BranchLeast, BranchClosed

\* With every branch the rows describe legal, a step changes what readers of
\* the database see as promised, or not at all.
LEMMA PromiseStep ==
  ASSUME IInv, IInv', BranchesIn(Legal)', [Next]_vars
  PROVE  [Promised!Change]_<<DbTip(db), db.utxo>>
  <1>1. DbTip(db) = Top /\ Top \in Blocks BY TopIsDbTip
  <1>2. (IInv => DbTip(db) = Top /\ Top \in Blocks)' BY TopIsDbTip, PTL
  <1>3. DbTip(db)' = Top' /\ Top' \in Blocks BY <1>2
  <1>5. db.utxo = LedgerAt[Top] BY LedgerOfTop
  <1>6. (IInv => db.utxo = LedgerAt[Top])' BY LedgerOfTop, PTL
  <1>7. db'.utxo = LedgerAt[Top'] BY <1>6
  <1>8. Wipe \/ Grows BY StepInv
  <1>9. CASE Top' = Top
    <2>1. UNCHANGED <<DbTip(db), db.utxo>> BY <1>1, <1>3, <1>5, <1>7, <1>9
    <2> QED BY <2>1
  <1>10. CASE Wipe
    <2>1. job = Idle /\ job' = job /\ tip' = Genesis BY <1>10 DEF Wipe, Quiet, SetTip
    <2>2. Top' = Genesis BY <2>1, TreeAssumption, JobTypes DEF Top
    <2>3. Promised!Forget BY <1>3, <1>7, <2>2, SameRules DEF Promised!Forget
    <2> QED BY <2>3 DEF Promised!Change
  <1>11. CASE ChainWork[Top'] > ChainWork[Top]
    <2>1. Branch[Top'] \subseteq Legal BY DEF BranchesIn
    <2>2. LegalBranch(Top') BY <2>1 DEF LegalBranch
    <2>3. Promised!Adopt(Top') BY <1>1, <1>3, <1>7, <1>11, <2>2, SameRules DEF Promised!Adopt
    <2> QED BY <1>3, <2>3 DEF Promised!Change
  <1> QED BY <1>8, <1>9, <1>10, <1>11 DEF Grows

-----------------------------------------------------------------------------
(* What the blocks put into circulation *)

LEMMA SubsidyType ==
  ASSUME NEW h \in Nat
  PROVE  Subsidy(h) \in Nat
  <1> DEFINE k == h \div HalvingInterval
  <1>1. k \in Nat BY RulesAssumption
  <1>2. 2 ^ k \in Nat \ {0} BY <1>1, PowerOfTwo
  <1>3. PICK z \in Nat \ {0} : z = 2 ^ k BY <1>2
  <1>4. InitialSubsidy \div z \in Nat BY <1>3, RulesAssumption
  <1> QED BY <1>3, <1>4 DEF Subsidy

\* So does what a block is granted.
LEMMA GrantedType ==
  /\ \A b \in Blocks : Granted(b) \in Nat
  /\ Granted(Genesis) = Subsidy(0)
  /\ \A b \in Blocks \ {Genesis} : Granted(b) = Subsidy(Height[Prev[b]])
  <1>1. \A b \in Blocks \ {Genesis} : Prev[b] \in Blocks BY ParentIsBlock
  <1>2. Height \in [Blocks -> Nat] BY TreeAssumption
  <1> QED BY <1>1, <1>2, SubsidyType DEF Granted

\* What the blocks of a branch are granted.
Issued(b) == MapThenSumSet(Granted, Branch[b])

\* A block adds its own to those of its parent's branch.
LEMMA IssuedStep ==
  /\ Issued(Genesis) = Subsidy(0)
  /\ \A b \in Blocks : Issued(b) \in Nat
  /\ \A b \in Blocks \ {Genesis} : Issued(b) = Issued(Prev[b]) + Granted(b)
  <1> DEFINE w == [x \in Blocks |-> Granted(x)]
  <1>1. IsFiniteSet(Blocks) /\ w \in [Blocks -> Nat] BY TreeAssumption, GrantedType
  <1>2. \A x \in Blocks : w[x] = Granted(x) OBVIOUS
  <1> HIDE DEF w
  <1>3. PICK sum : Adds(Blocks, w, sum) BY <1>1, SumExists
  <1>4. ASSUME NEW b \in Blocks PROVE Issued(b) = sum[Branch[b]]
    <2> DEFINE S == Branch[b]
               iter == CHOOSE g : g = [s \in SUBSET S |->
                  IF s = {} THEN 0
                  ELSE Granted(CHOOSE x \in s : TRUE) + g[s \ {CHOOSE x \in s : TRUE}]]
    <2>1. Issued(b) = iter[S] BY DEF Issued, MapThenSumSet, MapThenFoldSet
    <2>2. S \in SUBSET Blocks BY BranchClosed
    <2> HIDE DEF S
    <2>3. PICK g : Iterates(g, S, w) BY <1>1, <1>3, <2>2, SumIterates
    <2>4. \A s \in SUBSET S : s # {} =>
             w[CHOOSE x \in s : TRUE] = Granted(CHOOSE x \in s : TRUE)
      BY <1>2, <2>2
    <2>5. g = [s \in SUBSET S |->
                  IF s = {} THEN 0
                  ELSE Granted(CHOOSE x \in s : TRUE) + g[s \ {CHOOSE x \in s : TRUE}]]
      BY <2>3, <2>4 DEF Iterates
    <2>6. iter = [s \in SUBSET S |->
                  IF s = {} THEN 0
                  ELSE Granted(CHOOSE x \in s : TRUE) + iter[s \ {CHOOSE x \in s : TRUE}]]
      BY <2>5
    <2> HIDE DEF iter
    <2>7. Iterates(iter, S, w) BY <2>4, <2>6 DEF Iterates
    <2> QED BY <1>1, <1>3, <2>1, <2>2, <2>7, SumIterates DEF S
  <1>5. \A b \in Blocks : Issued(b) \in Nat
    <2> TAKE b \in Blocks
    <2>1. Branch[b] \in SUBSET Blocks BY BranchClosed
    <2> QED BY <1>3, <1>4, <2>1 DEF Adds
  <1>6. ASSUME NEW b \in Blocks, b # Genesis
        PROVE  Issued(b) = Issued(Prev[b]) + Granted(b)
    <2>1. /\ Prev[b] \in Blocks /\ Branch[b] = Branch[Prev[b]] \cup {b}
          /\ Branch[b] \in SUBSET Blocks /\ b \in Branch[b]
      BY <1>6, ParentIsBlock, BranchStep, BranchClosed
    <2>2. b \notin Branch[Prev[b]]
      <3>1. Height[b] = Height[Prev[b]] + 1 /\ Height[Prev[b]] \in Nat
        BY <1>6, <2>1, TreeAssumption
      <3>2. ~ (Height[b] <= Height[Prev[b]]) BY <3>1
      <3> QED BY <2>1, <3>1, <3>2, AncestorIsLower
    <2>3. Branch[b] \ {b} = Branch[Prev[b]] BY <2>1, <2>2
    <2>4. sum[Branch[b]] = w[b] + sum[Branch[b] \ {b}] BY <1>3, <2>1 DEF Adds
    <2>5. w[b] \in Nat /\ Issued(Prev[b]) \in Nat BY <1>1, <1>5, <2>1
    <2>6. Issued(b) = w[b] + Issued(Prev[b]) BY <1>4, <2>1, <2>3, <2>4
    <2>7. w[b] = Granted(b) BY <1>2
    <2> QED BY <2>5, <2>6, <2>7
  <1>7. Issued(Genesis) = Subsidy(0)
    <2>1. Genesis \in Blocks /\ Height[Genesis] = 0 BY TreeAssumption
    <2>2. Branch[Genesis] = {Genesis} /\ {Genesis} \ {Genesis} = {} BY BranchOfGenesis
    <2>3. {Genesis} \in SUBSET Blocks /\ Genesis \in {Genesis} BY <2>1
    <2>4. sum[{Genesis}] = w[Genesis] + 0 BY <1>3, <2>2, <2>3 DEF Adds
    <2>5. w[Genesis] \in Nat BY <1>1, <2>1
    <2>6. Issued(Genesis) = sum[{Genesis}] BY <1>4, <2>1, <2>2
    <2>7. w[Genesis] = Subsidy(0) BY <1>2, <2>1, GrantedType
    <2> QED BY <2>4, <2>5, <2>6, <2>7
  <1> QED BY <1>5, <1>6, <1>7

\* The fees of a block whose transactions spend no less than they create.
LEMMA FeesAdd ==
  ASSUME NEW b \in Blocks, NEW fee \in [Spending(b) -> Nat],
         \A i \in Spending(b) : fee[i] = Value(Body[b][i].ins) - Value(Body[b][i].outs)
  PROVE  \E sum : Adds(Spending(b), fee, sum) /\ Fees(b) = sum[Spending(b)]
  <1> DEFINE S == Spending(b)
             cost(i) == Value(Body[b][i].ins) - Value(Body[b][i].outs)
             iter == CHOOSE g : g = [s \in SUBSET S |->
                IF s = {} THEN 0
                ELSE cost(CHOOSE x \in s : TRUE) + g[s \ {CHOOSE x \in s : TRUE}]]
  <1>1. Fees(b) = iter[S] BY DEF Fees, MapThenSumSet, MapThenFoldSet
  <1>2. IsFiniteSet(S)
    <2>1. Body[b] \in Seq(Tx) BY BodyAssumption
    <2>2. PICK n \in Nat : n = Len(Body[b]) BY <2>1
    <2>3. IsFiniteSet(2 .. n) BY FS_Interval
    <2> QED BY <2>2, <2>3 DEF Spending
  <1>3. fee \in [S -> Nat]
        /\ \A i \in S : fee[i] = cost(i)
    OBVIOUS
  <1> HIDE DEF S, cost
  <1>4. PICK sum : Adds(S, fee, sum) BY <1>2, <1>3, SumExists
  <1>5. PICK g : Iterates(g, S, fee) BY <1>2, <1>3, <1>4, SumIterates
  <1>6. \A s \in SUBSET S : s # {} =>
           fee[CHOOSE x \in s : TRUE] = cost(CHOOSE x \in s : TRUE)
    BY <1>3
  <1>7. g = [s \in SUBSET S |->
                IF s = {} THEN 0
                ELSE cost(CHOOSE x \in s : TRUE) + g[s \ {CHOOSE x \in s : TRUE}]]
    BY <1>5, <1>6 DEF Iterates
  <1>8. iter = [s \in SUBSET S |->
                IF s = {} THEN 0
                ELSE cost(CHOOSE x \in s : TRUE) + iter[s \ {CHOOSE x \in s : TRUE}]]
    BY <1>7
  <1> HIDE DEF iter
  <1>9. Iterates(iter, S, fee) BY <1>6, <1>8 DEF Iterates
  <1>10. iter[S] = sum[S] BY <1>2, <1>3, <1>4, <1>9, SumIterates
  <1> QED BY <1>1, <1>4, <1>10 DEF S

\* The transactions of a block that come after the coinbase.
LEMMA BodyFacts ==
  ASSUME NEW b \in Blocks
  PROVE  /\ IsFiniteSet(Spending(b))
         /\ \A i \in Spending(b) : Body[b][i].ins \in SUBSET Outpoints
                                   /\ Body[b][i].outs \in SUBSET Outpoints
         /\ Body[b][1].outs \in SUBSET Outpoints
         /\ Spends[b] = UNION {Body[b][i].ins : i \in Spending(b)}
         /\ Creates[b] = Body[b][1].outs \cup UNION {Body[b][i].outs : i \in Spending(b)}
  <1>1. Body[b] \in Seq(Tx) /\ Body[b] # << >> /\ Body[b][1].ins = {} BY BodyAssumption
  <1>2. PICK n \in Nat : n = Len(Body[b]) BY <1>1
  <1>3. n # 0 BY <1>1, <1>2
  <1>4. Spending(b) = 2 .. n BY <1>2 DEF Spending
  <1>5. 1 .. n = {1} \cup (2 .. n) /\ 1 \in 1 .. n BY <1>3
  <1>6. \A i \in 1 .. n : Body[b][i] \in Tx BY <1>1, <1>2
  <1>7. \A i \in 1 .. n : Body[b][i].ins \in SUBSET Outpoints /\ Body[b][i].outs \in SUBSET Outpoints
    BY <1>6 DEF Tx
  <1>8. IsFiniteSet(2 .. n) BY FS_Interval
  <1>9. Spends[b] = UNION {Body[b][i].ins : i \in 1 .. n} BY <1>2 DEF Spends
  <1>10. Creates[b] = UNION {Body[b][i].outs : i \in 1 .. n} BY <1>2 DEF Creates
  <1>11. Spends[b] = UNION {Body[b][i].ins : i \in 2 .. n} BY <1>1, <1>5, <1>9
  <1>12. Creates[b] = Body[b][1].outs \cup UNION {Body[b][i].outs : i \in 2 .. n} BY <1>5, <1>10
  <1> QED BY <1>4, <1>5, <1>7, <1>8, <1>11, <1>12

\* A block creates no more than it spends and the subsidy it is allowed.
LEMMA BlockBalance ==
  ASSUME NEW b \in Blocks, NoDoubleSpend(b), NEW s \in Nat, CoinbaseOk(b, s),
         \A i \in Spending(b) : Value(Body[b][i].ins) >= Value(Body[b][i].outs)
  PROVE  Value(Creates[b]) <= Value(Spends[b]) + s
  <1>1. PICK V : Adds(Outpoints, Amount, V) /\ \A ops \in SUBSET Outpoints : Value(ops) = V[ops]
    BY ValueAdds
  <1>2. IsFiniteSet(Outpoints) /\ Amount \in [Outpoints -> Nat] BY BodyAssumption
  <1>3. \A ops \in SUBSET Outpoints : V[ops] \in Nat BY <1>1 DEF Adds
  <1> DEFINE S == Spending(b)
             ins(i) == Body[b][i].ins
             outs(i) == Body[b][i].outs
             fee == [i \in S |-> V[ins(i)] - V[outs(i)]]
             Ins(A) == UNION {ins(i) : i \in A}
             Outs(A) == UNION {outs(i) : i \in A}
  <1>4. /\ IsFiniteSet(S) /\ \A i \in S : ins(i) \in SUBSET Outpoints /\ outs(i) \in SUBSET Outpoints
        /\ outs(1) \in SUBSET Outpoints
        /\ Spends[b] = Ins(S) /\ Creates[b] = outs(1) \cup Outs(S)
    BY BodyFacts
  <1>5. \A i \in S : V[ins(i)] >= V[outs(i)] /\ V[ins(i)] \in Nat /\ V[outs(i)] \in Nat
    BY <1>1, <1>3, <1>4
  <1>6. fee \in [S -> Nat] /\ \A i \in S : fee[i] = V[ins(i)] - V[outs(i)] BY <1>5
  <1>7. PICK F : Adds(S, fee, F) /\ Fees(b) = F[S]
    <2>1. \A i \in S : fee[i] = Value(ins(i)) - Value(outs(i)) BY <1>1, <1>4
    <2> HIDE DEF fee
    <2> QED BY <1>6, <2>1, FeesAdd
  <1>8. \A i, j \in S : i # j => ins(i) \cap ins(j) = {} BY DEF NoDoubleSpend
  <1>9. \A A \in SUBSET S : Ins(A) \in SUBSET Outpoints /\ Outs(A) \in SUBSET Outpoints BY <1>4
  <1>10. V[outs(1)] <= s + F[S] BY <1>1, <1>4, <1>7 DEF CoinbaseOk
  <1>11. \A A \in SUBSET S : \A x \in A :
            /\ Ins(A) = Ins(A \ {x}) \cup ins(x) /\ Outs(A) = Outs(A \ {x}) \cup outs(x)
            /\ Ins(A \ {x}) \cap ins(x) = {}
    BY <1>8
  <1>12. Ins({}) = {} /\ Outs({}) = {} OBVIOUS
  <1> HIDE DEF S, ins, outs, fee, Ins, Outs
  <1> DEFINE Bad == {A \in SUBSET S : ~ (V[Outs(A)] + F[A] <= V[Ins(A)])}
  <1>13. Bad \in SUBSET SUBSET S OBVIOUS
  <1>14. \A A : A \in Bad <=> A \in SUBSET S /\ ~ (V[Outs(A)] + F[A] <= V[Ins(A)]) OBVIOUS
  <1> HIDE DEF Bad
  <1>15. ASSUME Bad # {} PROVE FALSE
    <2>1. PICK A \in Bad : \A B \in Bad : B \subseteq A => B = A BY <1>4, <1>13, <1>15, LeastSet
    <2>2. A \in SUBSET S /\ ~ (V[Outs(A)] + F[A] <= V[Ins(A)]) BY <1>14, <2>1
    <2>3. A # {}
      <3>1. V[{}] = 0 /\ F[{}] = 0 BY <1>1, <1>7 DEF Adds
      <3> QED BY <1>12, <2>2, <3>1
    <2>4. PICK x \in A : TRUE BY <2>3
    <2>5. A \ {x} \in SUBSET S /\ A \ {x} \notin Bad /\ x \in S BY <2>1, <2>2, <2>4
    <2>6. PICK B \in SUBSET S : B = A \ {x} BY <2>5
    <2>7. V[Outs(B)] + F[B] <= V[Ins(B)] BY <1>14, <2>5, <2>6
    <2>8. F[A] = fee[x] + F[B] BY <1>7, <2>2, <2>4, <2>6 DEF Adds
    <2>9. fee[x] = V[ins(x)] - V[outs(x)] BY <1>6, <2>5
    <2>10. V[Outs(A)] <= V[Outs(B)] + V[outs(x)]
      <3>1. Outs(B) \in SUBSET Outpoints /\ outs(x) \in SUBSET Outpoints BY <1>4, <1>9, <2>5
      <3>2. V[Outs(B) \cup outs(x)] <= V[Outs(B)] + V[outs(x)] BY <1>1, <1>2, <3>1, SumOfUnion
      <3> QED BY <1>11, <2>2, <2>4, <2>6, <3>2
    <2>11. V[Ins(A)] = V[Ins(B)] + V[ins(x)]
      <3>1. Ins(B) \in SUBSET Outpoints /\ ins(x) \in SUBSET Outpoints BY <1>4, <1>9, <2>5
      <3>2. Ins(B) \cap ins(x) = {} /\ Ins(A) = Ins(B) \cup ins(x) BY <1>11, <2>2, <2>4, <2>6
      <3>4. PICK I \in SUBSET Outpoints, J \in SUBSET Outpoints : I = Ins(B) /\ J = ins(x)
        BY <3>1
      <3>5. I \cap J = {} BY <3>2, <3>4
      <3>6. V[I \cup J] = V[I] + V[J] BY <1>1, <1>2, <3>5, SumOfUnion
      <3>3. V[Ins(B) \cup ins(x)] = V[Ins(B)] + V[ins(x)] BY <3>4, <3>6
      <3> QED BY <3>2, <3>3
    <2>12. /\ V[Outs(A)] \in Nat /\ V[Outs(B)] \in Nat /\ V[Ins(B)] \in Nat
           /\ V[ins(x)] \in Nat /\ V[outs(x)] \in Nat
      BY <1>3, <1>5, <1>9, <2>2, <2>5
    <2>13. F[B] \in Nat BY <1>7 DEF Adds
    <2> QED BY <2>2, <2>7, <2>8, <2>9, <2>10, <2>11, <2>12, <2>13
  <1>16. V[Outs(S)] + F[S] <= V[Ins(S)]
    <2>1. S \in SUBSET S OBVIOUS
    <2> QED BY <1>14, <1>15, <2>1
  <1>17. V[outs(1) \cup Outs(S)] <= V[outs(1)] + V[Outs(S)]
    <2>1. Outs(S) \in SUBSET Outpoints BY <1>9
    <2> QED BY <1>1, <1>2, <1>4, <2>1, SumOfUnion
  <1>18. /\ V[outs(1)] \in Nat /\ V[Outs(S)] \in Nat /\ V[Ins(S)] \in Nat
         /\ V[outs(1) \cup Outs(S)] \in Nat /\ F[S] \in Nat
    <2>1. S \in SUBSET S OBVIOUS
    <2>2. outs(1) \cup Outs(S) \in SUBSET Outpoints BY <1>4, <1>9, <2>1
    <2> QED BY <1>3, <1>4, <1>7, <1>9, <2>1, <2>2 DEF Adds
  <1>19. Value(Creates[b]) = V[outs(1) \cup Outs(S)] /\ Value(Spends[b]) = V[Ins(S)]
    <2>1. Creates[b] \in SUBSET Outpoints /\ Spends[b] \in SUBSET Outpoints BY OpsType
    <2> QED BY <1>1, <1>4, <2>1
  <1> QED BY <1>10, <1>16, <1>17, <1>18, <1>19

\* The branches whose ledger is worth no more than what they are granted.
Funded == {b \in Blocks : Value(Ops(LedgerAt[b])) <= Issued(b)}

\* An accepted block keeps its branch so.
LEMMA AcceptIsFunded ==
  ASSUME NEW b \in Blocks, b # Genesis, Prev[b] \in Funded,
         NEW d, NEW m, RowsAt(d, Prev[b], m),
         NEW g, NEW n, Validate(b, Prev[b], g, d, n) = "accept"
  PROVE  b \in Funded
  <1> DEFINE p == Prev[b]
             L == LedgerAt[p]
  <1>1. p \in Blocks /\ Value(Ops(L)) <= Issued(p) /\ d.utxo = L BY DEF Funded, RowsAt
  <1>2. ~ FeeRaises(b, L) /\ LateRulesOk(b, p, d)
    <2>1. EarlyRulesOk(b, p, g, d, n) /\ ~ FeeRaises(b, L) BY <1>1 DEF Validate
    <2> QED BY <1>1, <2>1 DEF Validate
  <1>3. \A i \in Spending(b) :
           Body[b][i].ins \subseteq Ops(L) /\ Value(Body[b][i].ins) >= Value(Body[b][i].outs)
    <2> TAKE i \in Spending(b)
    <2>1. Body[b][i].ins \subseteq Ops(L) /\ ~ (Value(Body[b][i].ins) < Value(Body[b][i].outs))
      BY <1>2 DEF FeeRaises
    <2>2. Value(Body[b][i].ins) \in Nat /\ Value(Body[b][i].outs) \in Nat BY BodyFacts, ValueType
    <2> QED BY <2>1, <2>2
  <1>4. CoinbaseOk(b, Granted(b)) /\ NoDoubleSpend(b) BY <1>2 DEF LateRulesOk, Granted
  <1>5. PICK s \in Nat : s = Granted(b) BY GrantedType
  <1>6. Value(Creates[b]) <= Value(Spends[b]) + s BY <1>3, <1>4, <1>5, BlockBalance
  <1>7. PICK V : Adds(Outpoints, Amount, V) /\ \A ops \in SUBSET Outpoints : Value(ops) = V[ops]
    BY ValueAdds
  <1>8. IsFiniteSet(Outpoints) /\ Amount \in [Outpoints -> Nat] BY BodyAssumption
  <1>9. PICK O \in SUBSET Outpoints : O = Ops(L)
    <2>1. L \in SUBSET Coins BY <1>1, LedgerType
    <2>2. Ops(L) \in SUBSET Outpoints BY <2>1 DEF Ops, Coins
    <2> QED BY <2>2
  <1>10. PICK C \in SUBSET Outpoints : C = Creates[b] BY OpsType
  <1>11. PICK I \in SUBSET O : I = Spends[b]
    <2>1. Spends[b] \subseteq Ops(L) BY <1>3, BodyFacts
    <2> QED BY <1>9, <2>1
  <1>12. PICK E \in SUBSET Outpoints : E = Ops(LedgerAt[b])
    <2>1. LedgerAt[b] \in SUBSET Coins BY LedgerType
    <2>2. Ops(LedgerAt[b]) \in SUBSET Outpoints BY <2>1 DEF Ops, Coins
    <2> QED BY <2>2
  <1>13. E \in SUBSET ((O \ I) \cup C)
    <2>1. LedgerAt[b] = Without(L, Deletes[b]) \cup Inserts(b) BY LedgerConnect
    <2>2. I \subseteq Deletes[b] BY <1>11 DEF Deletes
    <2> QED BY <1>9, <1>10, <1>12, <2>1, <2>2 DEF Ops, Without, Inserts
  <1>14. PICK R \in SUBSET Outpoints : R = O \ I OBVIOUS
  <1>15. PICK U \in SUBSET Outpoints : U = R \cup C OBVIOUS
  <1>16. V[E] <= V[U] BY <1>7, <1>8, <1>13, <1>14, <1>15, SumOfParts
  <1>17. V[U] <= V[R] + V[C] BY <1>7, <1>8, <1>15, SumOfUnion
  <1>18. V[O] = V[I] + V[R] BY <1>7, <1>8, <1>14, SumOfParts
  <1>19. V[C] <= V[I] + s /\ V[O] <= Issued(p) BY <1>1, <1>6, <1>7, <1>9, <1>10, <1>11
  <1>20. V[E] \in Nat /\ V[U] \in Nat /\ V[R] \in Nat /\ V[C] \in Nat /\ V[I] \in Nat /\ V[O] \in Nat
    BY <1>7 DEF Adds
  <1>21. Issued(p) \in Nat /\ Issued(b) = Issued(p) + s BY <1>1, <1>5, IssuedStep
  <1>22. V[E] <= Issued(b) BY <1>16, <1>17, <1>18, <1>19, <1>20, <1>21
  <1> QED BY <1>7, <1>12, <1>22 DEF Funded

\* The first block creates the first subsidy.
LEMMA GenesisIsFunded == Genesis \in Funded
  <1>1. Genesis \in Blocks BY TreeAssumption
  <1>2. PICK C \in SUBSET Outpoints : C = Creates[Genesis] BY <1>1, OpsType
  <1>3. PICK E \in SUBSET C : E = Ops(LedgerAt[Genesis])
    <2>1. LedgerAt[Genesis] = {[op |-> o, by |-> Genesis] : o \in C \ Spends[Genesis]}
      BY <1>2, LedgerGenesis DEF Inserts
    <2>2. Ops(LedgerAt[Genesis]) \in SUBSET C BY <2>1 DEF Ops
    <2> QED BY <2>2
  <1>4. PICK V : Adds(Outpoints, Amount, V) /\ \A ops \in SUBSET Outpoints : Value(ops) = V[ops]
    BY ValueAdds
  <1>5. IsFiniteSet(Outpoints) /\ Amount \in [Outpoints -> Nat] BY BodyAssumption
  <1>6. V[E] <= V[C] BY <1>4, <1>5, SumOfParts
  <1>7. V[C] <= InitialSubsidy BY <1>2, <1>4, GenesisAssumption
  <1>8. Subsidy(0) = InitialSubsidy
    <2>1. PICK k \in Nat \ {0} : k = HalvingInterval BY RulesAssumption
    <2>2. 0 \div k = 0 OBVIOUS
    <2>3. PICK z \in Nat : z = 2 ^ 0 /\ z = 1 BY TwoToNone
    <2>4. InitialSubsidy \div z = InitialSubsidy BY <2>3, RulesAssumption
    <2>6. Subsidy(0) = IF 0 >= 64 THEN 0 ELSE InitialSubsidy \div 2 ^ 0
      BY <2>1, <2>2 DEF Subsidy
    <2>7. ~ (0 >= 64) OBVIOUS
    <2>5. Subsidy(0) = InitialSubsidy \div z BY <2>3, <2>6, <2>7
    <2> QED BY <2>4, <2>5
  <1>9. V[E] \in Nat /\ V[C] \in Nat /\ InitialSubsidy \in Nat BY <1>4, RulesAssumption DEF Adds
  <1>10. V[E] <= Issued(Genesis) BY <1>6, <1>7, <1>8, <1>9, IssuedStep
  <1> QED BY <1>1, <1>3, <1>4, <1>10 DEF Funded

-----------------------------------------------------------------------------
(* What the validation refuses inside a reorganisation is illegal *)

\* A block breaks no rule, whichever target the code starts from: the parent's or,
\* at the tips of S, the first block's.
Sound(b, S) ==
    /\ b \in Legal
    /\ b = Genesis \/ (RightBits(b) /\ (Prev[b] \in S => FreshBits(b)))

\* A block that is due and refused after such rows, with one of these targets
\* cached, does break one.
LEMMA RefuseIsIllegal ==
  ASSUME NEW b \in Blocks, b # Genesis, NEW d, RowsAt(d, Prev[b], "archival"),
         NEW n, Time[b] <= n + MaxFuture, NEW S,
         NEW g, g = Bits[Prev[b]] \/ (g = Bits[Genesis] /\ Prev[b] \in S),
         Validate(b, Prev[b], g, d, n) = "refuse"
  PROVE  ~ Sound(b, S)
  <1> SUFFICES ASSUME LegalBlock(b), RightBits(b), Prev[b] \in S => FreshBits(b)
               PROVE  FALSE
    BY DEF Sound, Legal
  <1> DEFINE p == Prev[b]
  <1>1. p \in Blocks /\ d.utxo = LedgerAt[p] BY DEF RowsAt
  <1>2. Height[b] = Height[p] + 1 /\ Height[p] \in Nat BY <1>1, TreeAssumption
  <1>3. ActiveWindow(d, Height[p]) = IndexWindow(p) BY WindowsAgree
  <1>4. EarlyRulesOk(b, p, g, d, n)
    <2>1. p # NoBlock BY <1>1, TreeAssumption
    <2>2. Flaw[b] \in {"none", "script"} BY DEF LegalBlock
    <2>3. TimestampOk(b, ActiveWindow(d, Height[p]), n) BY <1>3 DEF TimestampOk, LegalBlock
    <2>4. Bits[b] = ExpectedBits(p, g) BY DEF RightBits, FreshBits
    <2>5. Bip30Ok(b, d.utxo) BY <1>1 DEF LegalBlock
    <2> QED BY <2>1, <2>2, <2>3, <2>4, <2>5 DEF EarlyRulesOk
  <1>5. LateRulesOk(b, p, d)
    <2>1. CoinbaseOk(b, Subsidy(Height[p])) BY DEF LegalBlock, Granted
    <2>2. NoDoubleSpend(b) BY DEF LegalBlock
    <2>3. MatureAt(Height[p] + 1, Spends[b], d.utxo) BY <1>1, <1>2 DEF LegalBlock
    <2>4. Flaw[b] # "script" BY DEF LegalBlock
    <2> QED BY <2>1, <2>2, <2>3, <2>4 DEF LateRulesOk
  <1> QED BY <1>4, <1>5 DEF Validate

-----------------------------------------------------------------------------
(* Every mark is earned *)

\* Bodies are not from the future, and what is marked invalid breaks a rule, or
\* descends from a block that does.
RowsFair(d, n, S) ==
    /\ \A b \in d.bodies \ {Genesis} : Time[b] <= n + MaxFuture
    /\ \A b \in Blocks : d.status[b] = "invalid" => \E x \in Branch[b] : ~ Sound(x, S)

\* The cached target is that of the cached tip or, at the tips of S, that of the
\* first block.
TargetFrom(S) == target = Bits[tip] \/ (target = Bits[Genesis] /\ tip \in S)

\* In an archival node the cached target is one of these, both sets of rows are
\* fair, and a reorganisation has the bodies it needs and knows where it stands.
FairInv(S) ==
    storage = "archival" =>
        /\ TargetFrom(S)
        /\ RowsFair(db, now, S) /\ RowsFair(view, now, S)
        /\ job.phase = "reorg" => /\ tip = job.at
                                  /\ Branch[job.goal] \ Branch[job.from] \subseteq view.bodies

LEMMA FairRows ==
  ASSUME NEW S, NEW d \in Database, NEW n, RowsFair(d, n, S), NEW b \in Blocks
  PROVE  /\ Time[b] <= n + MaxFuture => RowsFair(Connected(d, b), n, S) /\ RowsFair(SideStored(d, b), n, S)
         /\ RowsFair(Disconnected(d, b), n, S)
         /\ ~ Sound(b, S) => RowsFair(BranchInvalidated(d, b), n, S)
         /\ RowsFair([d EXCEPT !.status[b] = "headers-only"], n, S)
         /\ RowsFair(GenesisRows, n, S)
         /\ d.bodies \subseteq Connected(d, b).bodies
         /\ d.bodies = Disconnected(d, b).bodies
  <1>1. d.status \in [Blocks -> Statuses] BY DEF Database
  <1>2. /\ Connected(d, b).status = [d.status EXCEPT ![b] = "valid"]
        /\ Connected(d, b).bodies = d.bodies \cup {b}
    BY DEF Connected, Database
  <1>3. /\ SideStored(d, b).status = [d.status EXCEPT ![b] = "candidate"]
        /\ SideStored(d, b).bodies = d.bodies \cup {b}
    BY DEF SideStored, Database
  <1>4. /\ Disconnected(d, b).status = [d.status EXCEPT ![b] = "valid"]
        /\ Disconnected(d, b).bodies = d.bodies
    BY DEF Disconnected, Database
  <1>5. LET h == [d EXCEPT !.status[b] = "headers-only"]
        IN  h.status = [d.status EXCEPT ![b] = "headers-only"] /\ h.bodies = d.bodies
    BY DEF Database
  <1>6. /\ BranchInvalidated(d, b).bodies = d.bodies
        /\ \A x \in Blocks : BranchInvalidated(d, b).status[x] = "invalid"
                                => d.status[x] = "invalid" \/ b \in Branch[x]
    BY DEF BranchInvalidated, Database
  <1>7. GenesisRows.bodies = {Genesis} /\ \A x \in Blocks : GenesisRows.status[x] # "invalid"
    BY DEF GenesisRows
  <1>8. Time[b] <= n + MaxFuture => RowsFair(Connected(d, b), n, S) BY <1>1, <1>2 DEF RowsFair
  <1>9. Time[b] <= n + MaxFuture => RowsFair(SideStored(d, b), n, S) BY <1>1, <1>3 DEF RowsFair
  <1>10. RowsFair(Disconnected(d, b), n, S) BY <1>1, <1>4 DEF RowsFair
  <1>11. RowsFair([d EXCEPT !.status[b] = "headers-only"], n, S) BY <1>1, <1>5 DEF RowsFair
  <1>12. ~ Sound(b, S) => RowsFair(BranchInvalidated(d, b), n, S)
    BY <1>6 DEF RowsFair
  <1>13. RowsFair(GenesisRows, n, S) BY <1>7 DEF RowsFair
  <1> QED BY <1>2, <1>4, <1>8, <1>9, <1>10, <1>11, <1>12, <1>13

\* The clock only goes forward.
LEMMA FairLater ==
  ASSUME NEW S, NEW d \in Database, NEW n \in Nat, RowsFair(d, n, S)
  PROVE  RowsFair(d, n + 1, S)
  <1>1. \A b \in d.bodies \ {Genesis} : Time[b] <= n + 1 + MaxFuture
    <2> TAKE b \in d.bodies \ {Genesis}
    <2>1. b \in Blocks BY DEF Database
    <2>2. Time[b] \in Nat /\ MaxFuture \in Nat BY <2>1, BodyAssumption, RulesAssumption
    <2>3. Time[b] <= n + MaxFuture BY DEF RowsFair
    <2> QED BY <2>2, <2>3
  <1> QED BY <1>1 DEF RowsFair

\* What has been earned stays so when the program is started on more tips.
LEMMA FairMore ==
  ASSUME NEW R, NEW S, R \subseteq S, FairInv(R)
  PROVE  FairInv(S)
  <1>1. \A x : Sound(x, S) => Sound(x, R) BY DEF Sound
  <1>2. \A d, n : RowsFair(d, n, R) => RowsFair(d, n, S) BY <1>1 DEF RowsFair
  <1>3. TargetFrom(R) => TargetFrom(S) BY DEF TargetFrom
  <1> QED BY <1>2, <1>3 DEF FairInv

\* add_block keeps the rows fair.
LEMMA AddBlockFair ==
  ASSUME NEW S, IInv, FairInv(S), storage = "archival", job = Idle,
         NEW b \in Blocks, NEW rest, AddBlock(b, rest)
  PROVE  FairInv(S)'
  <1>1. job.phase = "idle" BY TreeAssumption, JobTypes
  <1>2. /\ view = db /\ db \in Database /\ RowsFair(db, now, S) /\ TargetFrom(S)
        /\ tip \in Blocks /\ RowsAt(db, tip, "archival") /\ TopHeld(db, tip)
    BY <1>1, CalmFacts DEF FairInv
  <1>3. CASE ConnectTip(b, rest)
    <2>1. /\ Validate(b, tip, target, view, now) = "accept" /\ db' = Connected(db, b)
          /\ view' = db' /\ SetTip(b) /\ job' = Settling(b) /\ now' = now
      BY <1>2, <1>3 DEF ConnectTip, Commit, Return
    <2>2. Time[b] <= now + MaxFuture
      <3>1. EarlyRulesOk(b, tip, target, view, now) BY <2>1 DEF Validate
      <3> QED BY <3>1 DEF EarlyRulesOk, TimestampOk
    <2>3. RowsFair(db', now', S) BY <1>2, <2>1, <2>2, FairRows
    <2>4. target' = Bits[tip'] BY <2>1, TreeAssumption DEF SetTip
    <2>5. job'.phase = "settle" BY <2>1, JobTypes
    <2> QED BY <2>1, <2>3, <2>4, <2>5 DEF FairInv, TargetFrom
  <1>4. CASE StoreSideBlock(b, rest)
    <2> DEFINE stored == SideStored(db, b)
    <2>1. /\ SideBlockOk(b, now) /\ db' = stored /\ view' = stored /\ b \notin db.bodies
          /\ UNCHANGED <<tip, target, now>>
          /\ \/ job' = job
             \/ job' = Reorganizing(b, DbTip(stored)) /\ CanReorganize(stored, b)
      BY <1>2, <1>4 DEF StoreSideBlock, Commit, Refusable
    <2>2. Time[b] <= now + MaxFuture BY <2>1 DEF SideBlockOk, TimestampOk
    <2>3. RowsFair(stored, now, S) BY <1>2, <2>2, FairRows
    <2>4. RowsAt(stored, tip, "archival") /\ TopHeld(stored, tip)
      BY <1>2, <2>1, SideStoredFacts
    <2> HIDE DEF stored
    <2>5. DbTip(stored) = tip BY <2>4, TipOfRows
    <2>6. CASE job' = job BY <1>1, <1>2, <2>1, <2>3, <2>6 DEF FairInv, TargetFrom
    <2>7. CASE job' = Reorganizing(b, tip) /\ CanReorganize(stored, b)
      <3>1. job'.at = tip /\ job'.goal = b /\ job'.from = tip BY <1>2, <2>7, JobTypes
      <3>2. Branch[b] \ Branch[tip] \subseteq stored.bodies BY <2>5, <2>7 DEF CanReorganize
      <3> QED BY <1>2, <2>1, <2>3, <3>1, <3>2 DEF FairInv, TargetFrom
    <2> QED BY <2>1, <2>5, <2>6, <2>7
  <1>5. CASE UNCHANGED <<db, view, tip, target, job, now>>
    BY <1>1, <1>2, <1>5 DEF FairInv, TargetFrom
  <1> QED
    BY <1>3, <1>4, <1>5
    DEF AddBlock, IgnoreKnown, RefuseTipBlock, KeepOrphan, RefuseSideBlock, Return

\* The next block of a branch under reorganisation is above the fork.
LEMMA NextIsNew ==
  ASSUME IInv, Connecting
  PROVE  NextUp \in Branch[job.goal] \ Branch[job.from]
  <1>1. /\ NextUp \in Blocks /\ NextUp \in Branch[job.goal] /\ Prev[NextUp] = job.at
        /\ NextUp # Genesis
    BY NextUpFacts
  <1>2. job.at \in Blocks /\ Branch[job.from] \cap Branch[job.goal] \subseteq Branch[job.at]
    BY DEF IInv, ReorgInv, Connecting
  <1>3. PICK x \in Blocks : x = NextUp BY <1>1
  <1>4. Height[x] = Height[job.at] + 1 /\ Height[job.at] \in Nat
    BY <1>1, <1>2, <1>3, TreeAssumption
  <1>5. x # job.at /\ ~ (Height[x] < Height[job.at]) BY <1>4
  <1>6. x \notin Branch[job.at] BY <1>2, <1>5, AncestorIsLower
  <1> QED BY <1>1, <1>2, <1>3, <1>6

\* So does every step.
LEMMA FairStep ==
  ASSUME NEW S, IInv, FairInv(S), storage = "archival", [Next]_vars,
         Restart => tip' \in S
  PROVE  FairInv(S)'
  <1>1. /\ TargetFrom(S) /\ RowsFair(db, now, S) /\ RowsFair(view, now, S)
        /\ db \in Database /\ view \in Database /\ now \in Nat
    BY DEF FairInv, IInv, RowsTypeOK
  <1>2. CASE UNCHANGED <<storage, db, view, tip, target, job, now>>
    BY <1>2 DEF FairInv, TargetFrom
  <1>3. CASE Submit BY <1>3, AddBlockFair DEF Submit, Quiet
  <1>4. CASE AddOrphan
    <2>1. pending \in Seq(Blocks) /\ pending # << >> BY <1>4 DEF AddOrphan, IInv, RowsTypeOK
    <2>2. Head(pending) \in Blocks BY <2>1
    <2> QED BY <1>4, <2>2, AddBlockFair DEF AddOrphan
  <1>5. ASSUME job.phase = "reorg"
        PROVE  /\ ReorgInv /\ job.at \in Blocks /\ job.from \in Blocks /\ job.goal \in Blocks
               /\ job \in Jobs /\ tip = job.at /\ RowsAt(view, job.at, "archival")
               /\ Branch[job.goal] \ Branch[job.from] \subseteq view.bodies
    BY <1>5 DEF FairInv, IInv, RowsTypeOK, ReorgInv
  <1>6. ASSUME NEW x \in Blocks, job.phase = "reorg", job' = [job EXCEPT !.at = x],
               tip' = x, target' = Bits[x], UNCHANGED <<db, now>>,
               RowsFair(view', now, S), view.bodies \subseteq view'.bodies
        PROVE  FairInv(S)'
    <2>1. job'.at = x /\ job'.goal = job.goal /\ job'.from = job.from BY <1>5, <1>6 DEF Jobs
    <2> QED BY <1>1, <1>5, <1>6, <2>1 DEF FairInv, TargetFrom
  <1>7. CASE ReorgDisconnect
    <2> DEFINE x == Prev[job.at]
    <2>1. /\ job.phase = "reorg" /\ job.at \notin Branch[job.goal]
          /\ view' = Disconnected(view, job.at)
          /\ SetTip(IF x \in view.bodies THEN x ELSE NoBlock)
          /\ job' = [job EXCEPT !.at = x] /\ UNCHANGED <<db, now>>
      BY <1>7 DEF ReorgDisconnect, Disconnecting
    <2>2. job.at # Genesis BY <1>5, <2>1, Rooted
    <2>3. x \in Blocks /\ x \in Branch[job.at] BY <1>5, <2>1, <2>2, ParentIsBlock, BranchClosed
    <2>4. x \in view.bodies BY <1>5, <2>1, <2>3 DEF RowsAt
    <2>5. tip' = x /\ target' = Bits[x] BY <1>1, <2>1, <2>3, <2>4, TreeAssumption DEF SetTip
    <2>6. RowsFair(view', now, S) /\ view.bodies \subseteq view'.bodies
      BY <1>1, <1>5, <2>1, FairRows
    <2> HIDE DEF x
    <2> QED BY <1>6, <2>1, <2>3, <2>5, <2>6
  <1>8. ASSUME Connecting
        PROVE  /\ NextUp \in Blocks /\ NextUp # Genesis /\ Prev[NextUp] = tip
               /\ RowsAt(view, Prev[NextUp], "archival")
               /\ Time[NextUp] <= now + MaxFuture
    <2>1. job.phase = "reorg" BY <1>8 DEF Connecting
    <2>2. NextUp \in Blocks /\ NextUp # Genesis /\ Prev[NextUp] = job.at BY <1>8, NextUpFacts
    <2>3. NextUp \in view.bodies BY <1>5, <1>8, <2>1, NextIsNew
    <2>4. Time[NextUp] <= now + MaxFuture BY <1>1, <2>2, <2>3 DEF RowsFair
    <2> QED BY <1>5, <2>1, <2>2, <2>4
  <1>9. CASE ReorgConnect
    <2> DEFINE x == NextUp
    <2>1. /\ Connecting /\ job.phase = "reorg" /\ view' = Connected(view, x) /\ SetTip(x)
          /\ job' = [job EXCEPT !.at = x] /\ UNCHANGED <<db, now>>
      BY <1>9 DEF ReorgConnect, Connecting
    <2>2. x \in Blocks /\ Time[x] <= now + MaxFuture BY <1>8, <2>1
    <2> HIDE DEF x
    <2>3. RowsFair(view', now, S) /\ view.bodies \subseteq view'.bodies BY <1>1, <2>1, <2>2, FairRows
    <2>4. tip' = x /\ target' = Bits[x] BY <1>1, <2>1, <2>2, TreeAssumption DEF SetTip
    <2> QED BY <1>6, <2>1, <2>2, <2>3, <2>4
  <1>10. ASSUME job'.phase # "reorg", RowsFair(db', now', S), view' = db',
                TargetFrom(S)'
         PROVE  FairInv(S)'
    BY <1>10 DEF FairInv
  <1>11. CASE ReorgCommit
    <2>1. /\ job.phase = "reorg" /\ db' = view /\ view' = view /\ tip' = tip /\ target' = target
          /\ now' = now /\ job' = Settling(job.goal)
      BY <1>11 DEF ReorgCommit, Commit
    <2>2. job'.phase = "settle" BY <1>5, <2>1, JobTypes
    <2>4. TargetFrom(S)' BY <1>1, <2>1 DEF TargetFrom
    <2> QED BY <1>1, <1>10, <2>1, <2>2, <2>4
  <1>12. CASE ReorgRefuse
    <2> DEFINE x == NextUp
    <2>1. /\ Connecting /\ job.phase = "reorg" /\ Validate(x, tip, target, view, now) = "refuse"
          /\ db' = BranchInvalidated(db, x) /\ view' = db' /\ SetTip(job.from)
          /\ job' = Idle /\ now' = now
      BY <1>12 DEF ReorgRefuse, Connecting, Commit
    <2>2. /\ x \in Blocks /\ x # Genesis /\ Prev[x] = tip /\ RowsAt(view, Prev[x], "archival")
          /\ Time[x] <= now + MaxFuture
      BY <1>8, <2>1
    <2> HIDE DEF x
    <2>3. Validate(x, Prev[x], target, view, now) = "refuse" BY <2>1, <2>2
    <2>4. ~ Sound(x, S)
      <3>1. target = Bits[Prev[x]] \/ (target = Bits[Genesis] /\ Prev[x] \in S)
        BY <1>1, <2>2 DEF TargetFrom
      <3> QED BY <2>2, <2>3, <3>1, RefuseIsIllegal
    <2>5. RowsFair(db', now', S) BY <1>1, <2>1, <2>2, <2>4, FairRows
    <2>6. TargetFrom(S)' BY <1>5, <2>1, TreeAssumption DEF SetTip, TargetFrom
    <2>7. job'.phase = "idle" BY <2>1, TreeAssumption, JobTypes
    <2> QED BY <1>10, <2>1, <2>5, <2>6, <2>7
  <1>13. CASE ReorgRaise
    <2>1. /\ job.phase = "reorg" /\ view' = db /\ db' = db /\ SetTip(job.from)
          /\ job' = Idle /\ now' = now
      BY <1>13 DEF ReorgRaise
    <2>2. TargetFrom(S)' BY <1>5, <2>1, TreeAssumption DEF SetTip, TargetFrom
    <2>3. job'.phase = "idle" BY <2>1, TreeAssumption, JobTypes
    <2> QED BY <1>1, <1>10, <2>1, <2>2, <2>3
  <1>14. CASE Settle \/ SettleFails
    <2>1. /\ job' = Idle /\ now' = now /\ UNCHANGED <<tip, target>> /\ view' = db'
          /\ db' \in {view, Pruned(view, Height[tip])}
      BY <1>14 DEF Settle, SettleFails, Commit
    <2>2. db' = view BY <2>1 DEF Pruned
    <2>3. job'.phase = "idle" BY <2>1, TreeAssumption, JobTypes
    <2>4. TargetFrom(S)' BY <1>1, <2>1 DEF TargetFrom
    <2> QED BY <1>1, <1>10, <2>1, <2>2, <2>3, <2>4
  <1>15. CASE \E b \in Announced : AddHeader(b)
    <2>1. PICK b \in Announced : AddHeader(b) BY <1>15
    <2>2. b \in Blocks BY ChainAssumption
    <2>3. /\ job = Idle /\ job' = job /\ now' = now /\ UNCHANGED <<tip, target>> /\ view' = db'
          /\ db' = [view EXCEPT !.status[b] = "headers-only"]
      BY <2>1 DEF AddHeader, Commit, Quiet
    <2>4. job'.phase = "idle" BY <2>3, TreeAssumption, JobTypes
    <2>5. RowsFair(db', now', S) BY <1>1, <2>2, <2>3, FairRows
    <2>6. TargetFrom(S)' BY <1>1, <2>3 DEF TargetFrom
    <2> QED BY <1>10, <2>3, <2>4, <2>5, <2>6
  <1>16. CASE Wipe
    <2>1. /\ job = Idle /\ job' = job /\ now' = now /\ view' = db' /\ db' = GenesisRows
          /\ SetTip(Genesis)
      BY <1>16 DEF Wipe, Commit, Quiet
    <2>2. job'.phase = "idle" BY <2>1, TreeAssumption, JobTypes
    <2>3. RowsFair(db', now', S) BY <1>1, <2>1, TreeAssumption, FairRows
    <2>4. TargetFrom(S)' BY <2>1, TreeAssumption DEF SetTip, TargetFrom
    <2> QED BY <1>10, <2>1, <2>2, <2>3, <2>4
  <1>17. CASE Restart
    <2>1. /\ job' = Idle /\ now' = now /\ view' = db /\ db' = db /\ target' = Bits[Genesis]
      BY <1>17 DEF Restart
    <2>2. job'.phase = "idle" BY <2>1, TreeAssumption, JobTypes
    <2>3. TargetFrom(S)' BY <1>17, <2>1 DEF TargetFrom
    <2> QED BY <1>1, <1>10, <2>1, <2>2, <2>3
  <1>18. CASE Tick
    <2>1. now' = now + 1 /\ UNCHANGED <<storage, db, view, tip, target, job>> BY <1>18 DEF Tick
    <2>2. RowsFair(db, now', S) /\ RowsFair(view, now', S) BY <1>1, <2>1, FairLater
    <2> QED BY <1>1, <2>1, <2>2 DEF FairInv, TargetFrom
  <1> QED
    BY <1>2, <1>3, <1>4, <1>7, <1>9, <1>11, <1>12, <1>13, <1>14, <1>15, <1>16, <1>17, <1>18
    DEF Next, Running, vars

-----------------------------------------------------------------------------
(* Theorems *)

\* The branches of an archival node are legal: what the rows of every step
\* describe, inside a reorganisation too, keeps every rule of every block.
LEMMA BranchesLegal ==
  Spec /\ storage = "archival" => [](storage = "archival" /\ BranchesIn(Legal))
  <1> DEFINE Archival == storage = "archival"
  <1>1. Init => BranchesIn(Legal)
    <2> SUFFICES ASSUME Init PROVE Branch[Genesis] \subseteq Legal
      BY JobTypes, TreeAssumption DEF Init, BranchesIn, Top
    <2>1. Genesis \in Blocks BY TreeAssumption
    <2> QED BY <2>1, BranchOfGenesis DEF Legal
  <1>2. IInv /\ Archival /\ BranchesIn(Legal) /\ [Next]_vars => (Archival /\ BranchesIn(Legal))'
    <2> SUFFICES ASSUME IInv, Archival, BranchesIn(Legal), [Next]_vars
                 PROVE  Archival' /\ BranchesIn(Legal)'
      OBVIOUS
    <2>1. Archival' BY StorageFixed
    <2>2. Earns(Legal) BY AcceptIsLegal DEF Earns
    <2>3. Genesis \in Legal BY TreeAssumption DEF Legal
    <2> QED BY <2>1, <2>2, <2>3, BranchesStay
  <1> QED BY Invariant, <1>1, <1>2, PTL DEF Spec

\* An archival node implements the promise of the chain state: a step changes
\* the active branch to a legal one with more work, and the ledger with it, or
\* wipes the chain, or changes nothing that readers see.
THEOREM Refinement == Spec /\ storage = "archival" => ImplementsActiveLedger
  <1>1. Init => Promised!Start
    <2> SUFFICES ASSUME Init PROVE Promised!Start OBVIOUS
    <2>1. IInv BY InitInv
    <2>2. DbTip(db) = Top BY <2>1, TopIsDbTip
    <2>3. db.utxo = LedgerAt[Top] BY <2>1, LedgerOfTop
    <2>4. Top = Genesis BY TreeAssumption, JobTypes DEF Init, Top
    <2> QED BY <2>2, <2>3, <2>4, SameRules DEF Promised!Start
  <1>2. IInv /\ IInv' /\ BranchesIn(Legal)' /\ [Next]_vars
          => [Promised!Change]_<<DbTip(db), db.utxo>>
    BY PromiseStep
  <1> QED
    BY Invariant, BranchesLegal, <1>1, <1>2, PTL
    DEF Spec, ImplementsActiveLedger, Promised!Promise

\* No more value is unspent than the code has granted the blocks of the active
\* branch, in either storage mode and across halvings: what is beyond the
\* schedule of subsidies is one block at the old subsidy for each of them.
THEOREM SupplyKept == Spec => []SupplyAsGranted
  <1>1. Init => BranchesIn(Funded)
    <2> SUFFICES ASSUME Init PROVE Branch[Genesis] \subseteq Funded
      BY JobTypes, TreeAssumption DEF Init, BranchesIn, Top
    <2> QED BY BranchOfGenesis, GenesisIsFunded
  <1>2. IInv /\ BranchesIn(Funded) /\ [Next]_vars => BranchesIn(Funded)'
    <2> SUFFICES ASSUME IInv, BranchesIn(Funded), [Next]_vars PROVE BranchesIn(Funded)'
      OBVIOUS
    <2>1. Earns(Funded)
      <3> SUFFICES ASSUME NEW b \in Blocks, b # Genesis, Prev[b] = tip, tip \in Blocks,
                          RowsAt(view, tip, storage), Branch[tip] \subseteq Funded,
                          Validate(b, tip, target, view, now) = "accept"
                   PROVE  b \in Funded
        BY DEF Earns
      <3>1. tip \in Funded BY BranchClosed
      <3> QED BY <3>1, AcceptIsFunded
    <2> QED BY <2>1, GenesisIsFunded, BranchesStay
  <1>3. IInv /\ BranchesIn(Funded) => SupplyAsGranted
    <2> SUFFICES ASSUME IInv, BranchesIn(Funded) PROVE SupplyAsGranted
      OBVIOUS
    <2>1. DbTip(db) = Top /\ Top \in Blocks /\ db.utxo = LedgerAt[Top] BY TopIsDbTip, LedgerOfTop
    <2>2. Top \in Funded BY <2>1, BranchClosed DEF BranchesIn
    <2>3. Value(Ops(LedgerAt[Top])) <= Issued(Top) BY <2>2 DEF Funded
    <2> QED BY <2>1, <2>3 DEF SupplyAsGranted, Issued
  <1> QED BY Invariant, <1>1, <1>2, <1>3, PTL DEF Spec

\* The tips a start on which misjudges no block outside M.
StartsWithin(M) ==
    {p \in Blocks : \A x \in Blocks \ {Genesis} : Prev[x] = p /\ ~ FreshBits(x) => x \in M}

\* In an archival node every block marked invalid breaks a rule or has an
\* ancestor that does, for any order of blocks, faults, retargets and restarts.
\* The target counts as wrong when it is not what the branch prescribes or, where
\* the program was started on the parent, not what it then expects.
THEOREM InvalidKept == StartedSpec => []InvalidIsEarned
  <1> DEFINE Inv == FairInv(StartsWithin(misjudged))
  <1>1. StartedSpec => Spec
    <2>1. StartedInit => Init BY DEF StartedInit
    <2>2. [StartedNext]_<<vars, misjudged>> => [Next]_vars BY DEF StartedNext
    <2> QED BY <2>1, <2>2, PTL DEF StartedSpec, Spec
  <1>2. StartedInit => Inv
    <2> SUFFICES ASSUME StartedInit PROVE Inv OBVIOUS
    <2>1. /\ db = GenesisRows /\ view = GenesisRows /\ job = Idle
          /\ tip = Genesis /\ target = Bits[Genesis]
      BY DEF StartedInit, Init
    <2>2. RowsFair(GenesisRows, now, StartsWithin(misjudged)) BY DEF RowsFair, GenesisRows
    <2>3. job.phase # "reorg" BY <2>1, TreeAssumption, JobTypes
    <2> QED BY <2>1, <2>2, <2>3 DEF FairInv, TargetFrom
  <1>3. IInv /\ Inv /\ [StartedNext]_<<vars, misjudged>> => Inv'
    <2> SUFFICES ASSUME IInv, Inv, [StartedNext]_<<vars, misjudged>> PROVE Inv'
      OBVIOUS
    <2>1. PICK S : S = StartsWithin(misjudged') OBVIOUS
    <2>2. [Next]_vars /\ misjudged \subseteq misjudged' BY DEF StartedNext
    <2>3. StartsWithin(misjudged) \subseteq S BY <2>1, <2>2 DEF StartsWithin
    <2>4. FairInv(S) BY <2>3, FairMore
    <2>5. FairInv(S)'
      <3>1. CASE storage # "archival" BY <2>2, <3>1, StorageFixed DEF FairInv
      <3>2. CASE StartedNext /\ storage = "archival"
        <4>1. ASSUME Restart PROVE tip' \in S
          <5>1. DbTip(db) \in Blocks /\ DbTip(db) \in db.bodies
            BY TopIsDbTip DEF IInv, CallInv, ReorgInv, Top, TopHeld
          <5>2. tip' = DbTip(db) BY <4>1, <5>1 DEF Restart
          <5>3. \A x \in Blocks : Prev[x] = DbTip(db) /\ ~ FreshBits(x) => x \in misjudged'
            BY <3>2, <4>1 DEF StartedNext
          <5> QED BY <2>1, <5>1, <5>2, <5>3 DEF StartsWithin
        <4> QED BY <2>2, <2>4, <3>2, <4>1, FairStep
      <3>3. CASE UNCHANGED <<vars, misjudged>>
        <4>1. FairInv(S)' = FairInv(S) BY <3>3 DEF vars, FairInv, TargetFrom
        <4> QED BY <2>4, <4>1
      <3> QED BY <3>1, <3>2, <3>3
    <2>6. S = StartsWithin(misjudged)' BY <2>1 DEF StartsWithin
    <2> QED BY <2>5, <2>6 DEF FairInv, RowsFair, TargetFrom, Sound
  <1>4. Inv => InvalidIsEarned
    <2> SUFFICES ASSUME Inv, storage = "archival", NEW b \in Blocks, db.status[b] = "invalid",
                        LegalBranch(b)
                 PROVE  \E x \in Branch[b] \ {Genesis} : ~ RightBits(x) \/ x \in misjudged
      BY DEF InvalidIsEarned
    <2>1. PICK x \in Branch[b] : ~ Sound(x, StartsWithin(misjudged))
      BY DEF FairInv, RowsFair
    <2>2. x \in Blocks BY BranchClosed
    <2> QED BY <2>1, <2>2 DEF Sound, LegalBranch, StartsWithin
  <1> HIDE DEF Inv
  <1> QED BY Invariant, <1>1, <1>2, <1>3, <1>4, PTL DEF StartedSpec
================================================================================
