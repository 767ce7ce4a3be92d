------------------------------ MODULE ChainProps ------------------------------
(***************************************************************************)
(* What the chain state must guarantee, over every order of blocks,        *)
(* headers, reorganisations, faults and restarts.                          *)
(***************************************************************************)
EXTENDS Chain

\* The variables, the orphan pool aside, hold values of their types, and
\* outside a reorganisation the connection reads what is committed.
RowsTypeOK ==
    /\ storage \in StorageModes
    /\ db \in Database
    /\ view \in Database
    /\ tip \in Blocks \cup {NoBlock}
    /\ target \in 1 .. MaxTarget
    /\ pending \in Seq(Blocks)
    /\ job \in Jobs
    /\ now \in 0 .. MaxClock
    /\ job.phase # "reorg" => view = db

TypeOK == RowsTypeOK /\ orphans \in Seq(Blocks)

\* The utxos table is the replay of the active branch, and nothing else:
\* connecting blocks, undoing them with stored undo rows, rolling back,
\* pruning and dying in between add up to the reference ledger of the tip.
UtxoIsReplay == db.utxo = LedgerAt[DbTip(db)]

\* The same inside the transaction of a reorganisation, at every block of it.
ViewIsReplay == job.phase = "reorg" => view.utxo = LedgerAt[job.at]

\* Undo rows kept for any block, active or not, turn the ledger after the
\* block back into the ledger before it (disconnect_chain_block relies on it).
UndoInverts ==
    \A b \in db.undoFor \ {Genesis} :
        Disconnected([db EXCEPT !.utxo = LedgerAt[b]], b).utxo = LedgerAt[Prev[b]]

\* In an archival node the entries marked active are the branch of the tip:
\* no hole, no block of another branch (get_block_at_height reads by height).
ActiveIsBranch == storage = "archival" => db.active = Branch[DbTip(db)]

\* _tip and _height agree with the database whenever no call is under way.
CachedTipIsActiveTip == job.phase # "reorg" => tip = DbTip(db)

\* No more value is unspent than the code has granted the active branch in
\* subsidies, through reorganisations, failures part way and BIP30 exceptions:
\* beyond the schedule that is one block at the old subsidy per halving.
SupplyAsGranted ==
    Value(Ops(db.utxo)) <= MapThenSumSet(Granted, Branch[DbTip(db)])

\* The pool of orphan blocks respects both of its limits and holds a block
\* once (OrphanBlockPool.add).
PoolBounded == WithinBounds(orphans) /\ \A i, j \in DOMAIN orphans :
                   i # j => orphans[i] # orphans[j]

\* A committed change of tip is never to less work, and a crash, a fault or a
\* refused reorganisation never changes it: only wiping the chain goes back.
TipWorkGrows ==
    [][DbTip(db') = DbTip(db) \/ Wipe \/ ChainWork[DbTip(db')] > ChainWork[DbTip(db)]]_vars

\* Every call of add_block comes to its end: the recursion over orphans and
\* the loops of a reorganisation terminate.
CallsReturn == []<>Quiet

\* The chain state implements its promise: all that readers of the database
\* see of a step, a reorganisation included, is one change of the active
\* branch to a legal one with more work, or nothing.
Promised == INSTANCE ActiveLedger WITH best <- DbTip(db), ledger <- db.utxo
ImplementsActiveLedger == Promised!Promise

-----------------------------------------------------------------------------
(* What the documents say of the program and the program does not do       *)

\* docs/bitclone-development.md:148, "Competing branches are selected by
\* cumulative work": no legal branch whose bodies are all stored has more work
\* than the active one once no call is under way.
MostWorkIsActive ==
    Quiet => \A b \in db.bodies :
        LegalBranch(b) /\ Branch[b] \subseteq db.bodies
        => ChainWork[b] <= ChainWork[DbTip(db)]

\* The docstring of mark_block_branch_invalid, "Mark one invalid block and
\* every indexed descendant invalid", in every storage mode.
OnlyInvalidMarked ==
    \A b \in Blocks : db.status[b] = "invalid" => ~ LegalBranch(b)

\* archived_tickets.md:50, "Validate coinbase reward amount per height (halving
\* schedule)": no more value is unspent than the schedule of subsidies has created.
SupplyWithinSchedule ==
    Value(Ops(db.utxo)) <=
        MapThenSumSet(LAMBDA b : Subsidy(Height[b]), Branch[DbTip(db)])

\* archived_tickets.md:56, "Validate expected compact target bits at each
\* height": every active block carries the target its branch prescribes.
BitsFollowBranch == \A b \in db.active \ {Genesis} : RightBits(b)
=============================================================================
