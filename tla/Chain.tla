-------------------------------- MODULE Chain --------------------------------
(***************************************************************************)
(* The chain state of a node: class Blockchain over BitCloneDatabase and   *)
(* OrphanBlockPool.  One thread runs add_block to its end, recursion over  *)
(* orphan children included; the process may die between any two database  *)
(* commits and is then started again from what SQLite kept.                *)
(*                                                                         *)
(* A reorganisation is one SQLite transaction around a loop.  The loop is  *)
(* modelled step by step: view is the database as the open connection sees *)
(* it, db what a crash or a rollback leaves.  They differ only inside that *)
(* transaction.  Each single-block write is one commit and one step.       *)
(***************************************************************************)
EXTENDS BlockRules, SequencesExt

CONSTANTS
    StorageModes,    \* the values of storage_mode a run starts from
    KeepBlocks,      \* prune_keep_blocks
    MaxOrphans,      \* OrphanBlockPool.max_blocks
    MaxOrphanBytes,  \* OrphanBlockPool.max_bytes
    Size,            \* the serialised size of a block
    DbFaults,        \* whether SQLite may fail at a statement
    Announced,       \* bound: the blocks whose headers are also sent alone
    MaxClock         \* bound: the last value of the clock

ASSUME ChainAssumption ==
    /\ StorageModes \subseteq {"archival", "pruned"}
    /\ KeepBlocks \in Nat \ {0}
    /\ MaxOrphans \in Nat \ {0}
    /\ MaxOrphanBytes \in Nat \ {0}
    /\ Size \in [Blocks -> Nat]
    /\ DbFaults \in BOOLEAN
    /\ Announced \subseteq Blocks
    /\ MaxClock \in Nat

VARIABLES
    storage,   \* db.storage_mode, fixed when the node is configured
    db,        \* the committed rows
    view,      \* the rows the connection reads
    tip,       \* self._tip; _height and _block_subsidy go with it
    target,    \* self._target
    orphans,   \* the orphan pool, oldest block first
    pending,   \* orphan children popped by the calls under way, next one first
    job,       \* where the call under way stands
    now        \* the wall clock

vars == <<storage, db, view, tip, target, orphans, pending, job, now>>

-----------------------------------------------------------------------------
(* The rows *)

Statuses == {"absent", "headers-only", "candidate", "valid", "invalid"}

Database ==
    [status   : [Blocks -> Statuses],      \* block_index.status
     active   : SUBSET Blocks,             \* block_index.active
     bodies   : SUBSET Blocks,             \* rows of blocks
     undoFor  : SUBSET Blocks,             \* blocks with undo rows
     spentBy  : [Blocks -> SUBSET Coins],  \* block_undo_spent
     utxo     : SUBSET Coins]              \* utxos

Known(d) == {b \in Blocks : d.status[b] # "absent"}

\* get_active_tip: the highest active entry.
DbTip(d) == CHOOSE b \in d.active : \A a \in d.active : Height[a] <= Height[b]

\* Fault: the rows an exception to BIP30 overwrites are not captured.
CapturedInputsOnly(b, coins) == {c \in coins : c.op \in Spends[b] \ Creates[b]}

\* _build_block_undo: the rows connecting b takes out of the utxos table.
Captured(b, coins) ==
    {c \in coins :
        \/ c.op \in Spends[b] \ Creates[b]
        \/ b \in Bip30Exceptions /\ c.op \in Creates[b]}

\* Fault: the new rows are inserted before the old ones are deleted.
ConnectedInsertFirst(d, b) ==
    [d EXCEPT !.status[b]  = "valid",
              !.active     = @ \cup {b},
              !.bodies     = @ \cup {b},
              !.undoFor    = @ \cup {b},
              !.spentBy[b] = Captured(b, d.utxo),
              !.utxo       = Without(@ \cup Inserts(b), Deletes[b])]

\* connect_block and activate_chain_block: undo rows, UTXO delta, activation.
Connected(d, b) ==
    [d EXCEPT !.status[b]  = "valid",
              !.active     = @ \cup {b},
              !.bodies     = @ \cup {b},
              !.undoFor    = @ \cup {b},
              !.spentBy[b] = Captured(b, d.utxo),
              !.utxo       = Without(@, Deletes[b]) \cup Inserts(b)]

\* Fault: the spent rows are not put back.
DisconnectedSpentLost(d, b) ==
    [d EXCEPT !.status[b] = "valid",
              !.active    = @ \ {b},
              !.utxo      = Without(@, Creates[b])]

\* disconnect_chain_block: take the created rows out, put the spent ones back.
Disconnected(d, b) ==
    [d EXCEPT !.status[b] = "valid",
              !.active    = @ \ {b},
              !.utxo      = Without(@, Creates[b] \cup Ops(d.spentBy[b]))
                            \cup d.spentBy[b]]

\* Fault: the entry gets the default active=True.
SideStoredActive(d, b) ==
    [d EXCEPT !.status[b] = "candidate",
              !.active    = @ \cup {b},
              !.bodies    = @ \cup {b}]

\* add_block for a block off the tip: INSERT OR REPLACE of its index entry.
SideStored(d, b) ==
    [d EXCEPT !.status[b] = "candidate",
              !.active    = @ \ {b},
              !.bodies    = @ \cup {b}]

\* Fault: the mark starts one block too early.
BranchInvalidatedFromParent(d, b) ==
    LET doomed == {x \in Known(d) : Prev[b] \in Branch[x]}
    IN  [d EXCEPT !.status = [x \in Blocks |-> IF x \in doomed THEN "invalid" ELSE @[x]],
                  !.active = @ \ doomed]

\* mark_block_branch_invalid: the block and every indexed descendant.
BranchInvalidated(d, b) ==
    LET doomed == {x \in Known(d) : b \in Branch[x]}
    IN  [d EXCEPT !.status = [x \in Blocks |-> IF x \in doomed THEN "invalid" ELSE @[x]],
                  !.active = @ \ doomed]

\* prune_blocks: bodies and undo rows at or below the retention window go.
Pruned(d, h) ==
    LET gone == {x \in d.bodies : Height[x] <= h - KeepBlocks}
    IN  IF storage = "pruned"
        THEN [d EXCEPT !.bodies  = @ \ gone,
                       !.undoFor = @ \ gone,
                       !.spentBy = [x \in Blocks |-> IF x \in gone THEN {} ELSE @[x]]]
        ELSE d

GenesisRows ==
    [status  |-> [b \in Blocks |-> IF b = Genesis THEN "valid" ELSE "absent"],
     active  |-> {Genesis},
     bodies  |-> {Genesis},
     undoFor |-> {Genesis},
     spentBy |-> [b \in Blocks |-> {}],
     utxo    |-> Inserts(Genesis)]

-----------------------------------------------------------------------------
(* The call under way *)

Phases == {"idle", "reorg", "settle"}
Jobs == [phase : Phases,
         goal  : Blocks \cup {NoBlock},   \* the block being connected
         at    : Blocks \cup {NoBlock},   \* reorg: where the loop has got to
         from  : Blocks \cup {NoBlock}]   \* reorg: the tip it started from

Idle == [phase |-> "idle", goal |-> NoBlock, at |-> NoBlock, from |-> NoBlock]
Settling(b) == [Idle EXCEPT !.phase = "settle", !.goal = b]
Reorganizing(b, from) == [phase |-> "reorg", goal |-> b, at |-> from, from |-> from]

\* _set_cached_tip.
SetTip(b) ==
    /\ tip' = b
    /\ target' = IF b = NoBlock THEN Bits[Genesis] ELSE Bits[b]

Commit(d) == db' = d /\ view' = d

-----------------------------------------------------------------------------
(* The orphan pool *)

InPool(b) == \E i \in DOMAIN orphans : orphans[i] = b

PoolBytes(pool) == MapThenSumSet(LAMBDA i : Size[pool[i]], DOMAIN pool)
WithinBounds(pool) == Len(pool) <= MaxOrphans /\ PoolBytes(pool) <= MaxOrphanBytes

\* Fault: only the number of blocks is bounded.
PoolAddCountOnly(b) ==
    IF InPool(b) THEN orphans
    ELSE LET all == Append(orphans, b)
         IN  IF Len(all) > MaxOrphans THEN Tail(all) ELSE all

\* OrphanBlockPool.add: an oversized or known block is refused, and the oldest
\* blocks make room for the new one.
PoolAdd(b) ==
    IF Size[b] > MaxOrphanBytes \/ InPool(b) THEN orphans
    ELSE LET all == Append(orphans, b)
             cut == CHOOSE k \in 0 .. Len(orphans) :
                        /\ WithinBounds(SubSeq(all, k + 1, Len(all)))
                        /\ \A j \in 0 .. k - 1 :
                               ~ WithinBounds(SubSeq(all, j + 1, Len(all)))
         IN  SubSeq(all, cut + 1, Len(all))

\* pop_children takes the blocks of kids out.
PoolDrop(pool, kids) ==
    FoldLeft(LAMBDA kept, x : IF x \in kids THEN kept ELSE Append(kept, x), << >>, pool)

\* _process_orphan_children: pop_children returns the direct children in the
\* order of a hash set; add_block is then called on each, depth first.
PopChildren(b, rest) ==
    LET kids == {x \in Blocks : InPool(x) /\ Prev[x] = b}
    IN  /\ orphans' = PoolDrop(orphans, kids)
        /\ \E order \in SetToSeqs(kids) : pending' = order \o rest

-----------------------------------------------------------------------------
(* add_block(b); rest are the orphans its callers have still to add.       *)

\* Fault: a branch with equal work is taken.
WouldReorganizeOnTie(d, b) ==
    /\ b \in Known(d) \ d.active
    /\ d.status[b] # "invalid"
    /\ ChainWork[b] >= ChainWork[DbTip(d)]

WouldReorganize(d, b) ==
    /\ b \in Known(d) \ d.active
    /\ d.status[b] # "invalid"
    /\ ChainWork[b] > ChainWork[DbTip(d)]

\* Every body of both branches above the fork is there, and the undo rows of
\* the blocks to disconnect.
CanReorganize(d, b) ==
    LET connect    == Branch[b] \ Branch[DbTip(d)]
        disconnect == Branch[DbTip(d)] \ Branch[b]
    IN  connect \cup disconnect \subseteq d.bodies /\ disconnect \subseteq d.undoFor

Refusable(b) == view.status[b] = "invalid" \/ b \in view.bodies

Return(rest) == pending' = rest /\ UNCHANGED <<storage, now>>

IgnoreKnown(b, rest) ==
    /\ Refusable(b)
    /\ Return(rest)
    /\ UNCHANGED <<db, view, tip, target, orphans, job>>

RefuseTipBlock(b, rest) ==
    /\ ~ Refusable(b)
    /\ Prev[b] = tip
    /\ Validate(b, tip, target, view, now) # "accept"
    /\ Return(rest)
    /\ UNCHANGED <<db, view, tip, target, orphans, job>>

ConnectTip(b, rest) ==
    /\ ~ Refusable(b)
    /\ Prev[b] = tip
    /\ Validate(b, tip, target, view, now) = "accept"
    /\ Commit(Connected(view, b))
    /\ SetTip(b)
    /\ job' = Settling(b)
    /\ Return(rest)
    /\ UNCHANGED orphans

KeepOrphan(b, rest) ==
    /\ ~ Refusable(b)
    /\ Prev[b] # tip
    /\ Prev[b] \notin Known(view)
    /\ orphans' = IF OrphanOk(b) THEN PoolAdd(b) ELSE orphans
    /\ Return(rest)
    /\ UNCHANGED <<db, view, tip, target, job>>

RefuseSideBlock(b, rest) ==
    /\ ~ Refusable(b)
    /\ Prev[b] # tip
    /\ Prev[b] \in Known(view)
    /\ ~ SideBlockOk(b, now)
    /\ Return(rest)
    /\ UNCHANGED <<db, view, tip, target, orphans, job>>

\* A side block is stored, and its branch is taken when it has more work and
\* can be; a branch that should be taken and cannot be is left as it is.
StoreSideBlock(b, rest) ==
    LET stored == SideStored(view, b)
    IN  /\ ~ Refusable(b)
        /\ Prev[b] # tip
        /\ Prev[b] \in Known(view)
        /\ SideBlockOk(b, now)
        /\ Commit(stored)
        /\ \/ /\ ~ WouldReorganize(stored, b)
              /\ PopChildren(b, rest)
              /\ UNCHANGED job
           \/ /\ WouldReorganize(stored, b)
              /\ job' = IF CanReorganize(stored, b)
                        THEN Reorganizing(b, DbTip(stored)) ELSE job
              /\ pending' = rest
              /\ UNCHANGED orphans
        /\ UNCHANGED <<storage, tip, target, now>>

AddBlock(b, rest) ==
    \/ IgnoreKnown(b, rest)
    \/ RefuseTipBlock(b, rest)
    \/ ConnectTip(b, rest)
    \/ KeepOrphan(b, rest)
    \/ RefuseSideBlock(b, rest)
    \/ StoreSideBlock(b, rest)

Quiet == job = Idle /\ pending = << >>

\* A peer or the miner hands a block to the node.
Submit == Quiet /\ \E b \in Blocks : AddBlock(b, << >>)

\* Fault: the child is added without leaving the list.
AddOrphanAgain ==
    /\ job = Idle
    /\ pending # << >>
    /\ AddBlock(Head(pending), pending)

\* The recursive call on the next popped orphan.
AddOrphan ==
    /\ job = Idle
    /\ pending # << >>
    /\ AddBlock(Head(pending), Tail(pending))

-----------------------------------------------------------------------------
(* reorganize_to, one iteration of its loops at a time *)

\* The block of the candidate branch that comes after the loop's position.
NextUp == CHOOSE x \in Branch[job.goal] : Prev[x] = job.at

Disconnecting == job.phase = "reorg" /\ job.at \notin Branch[job.goal]
Connecting == job.phase = "reorg" /\ job.at \in Branch[job.goal] /\ job.at # job.goal

ValidationRaises == Connecting /\ Validate(NextUp, tip, target, view, now) = "raise"

\* The parent's body becomes the cached tip: None when it has been pruned.
ReorgDisconnect ==
    /\ Disconnecting
    /\ view' = Disconnected(view, job.at)
    /\ SetTip(IF Prev[job.at] \in view.bodies THEN Prev[job.at] ELSE NoBlock)
    /\ job' = [job EXCEPT !.at = Prev[job.at]]
    /\ UNCHANGED <<storage, db, orphans, pending, now>>

ReorgConnect ==
    /\ Connecting
    /\ Validate(NextUp, tip, target, view, now) = "accept"
    /\ view' = Connected(view, NextUp)
    /\ SetTip(NextUp)
    /\ job' = [job EXCEPT !.at = NextUp]
    /\ UNCHANGED <<storage, db, orphans, pending, now>>

ReorgCommit ==
    /\ job.phase = "reorg"
    /\ job.at = job.goal
    /\ Commit(view)
    /\ job' = Settling(job.goal)
    /\ UNCHANGED <<storage, tip, target, orphans, pending, now>>

\* A candidate that fails validation: rollback, and its branch is marked.
ReorgRefuse ==
    /\ Connecting
    /\ Validate(NextUp, tip, target, view, now) = "refuse"
    /\ Commit(BranchInvalidated(db, NextUp))
    /\ SetTip(job.from)
    /\ job' = Idle
    /\ UNCHANGED <<storage, orphans, pending, now>>

\* Fault: no rollback.
ReorgRaiseKeepsView ==
    /\ job.phase = "reorg"
    /\ DbFaults \/ ValidationRaises
    /\ SetTip(job.from)
    /\ job' = Idle
    /\ UNCHANGED <<storage, db, view, orphans, pending, now>>

\* Fault: the cached tip is not restored.
ReorgRaiseKeepsTip ==
    /\ job.phase = "reorg"
    /\ DbFaults \/ ValidationRaises
    /\ view' = db
    /\ job' = Idle
    /\ UNCHANGED <<storage, db, tip, target, orphans, pending, now>>

\* An exception - raised by the validation, or by SQLite at any statement:
\* rollback, and nothing is marked.
ReorgRaise ==
    /\ job.phase = "reorg"
    /\ DbFaults \/ ValidationRaises
    /\ view' = db
    /\ SetTip(job.from)
    /\ job' = Idle
    /\ UNCHANGED <<storage, db, orphans, pending, now>>

\* prune_blocks, then the orphans that waited for the accepted block.
Settle ==
    /\ job.phase = "settle"
    /\ Commit(Pruned(view, Height[tip]))
    /\ PopChildren(job.goal, pending)
    /\ job' = Idle
    /\ UNCHANGED <<storage, tip, target, now>>

\* prune_blocks raises, before its commit or at the files it deletes after it:
\* add_block returns False and the orphans keep waiting.
SettleFails ==
    /\ job.phase = "settle"
    /\ DbFaults /\ storage = "pruned"
    /\ \E d \in {view, Pruned(view, Height[tip])} : Commit(d)
    /\ job' = Idle
    /\ UNCHANGED <<storage, tip, target, orphans, pending, now>>

-----------------------------------------------------------------------------
(* The other entry points *)

\* add_headers persists a batch header by header, each in a commit of its own,
\* and stops at the first it refuses: a batch is a run of these steps.
AddHeader(b) ==
    /\ Quiet
    /\ view.status[b] = "absent"
    /\ Prev[b] \in Known(view)
    /\ HeaderOk(b, now)
    /\ Commit([view EXCEPT !.status[b] = "headers-only"])
    /\ UNCHANGED <<storage, tip, target, orphans, pending, job, now>>

\* wipe_chain: empty tables, genesis connected again.
Wipe ==
    /\ Quiet
    /\ Commit(GenesisRows)
    /\ SetTip(Genesis)
    /\ PopChildren(Genesis, << >>)
    /\ UNCHANGED <<storage, job, now>>

\* The process dies and __init__ runs again: the memory is lost, SQLite rolls
\* back, the tip is read from the database and _target starts from genesis.
Restart ==
    /\ view' = db
    /\ tip' = IF DbTip(db) \in db.bodies THEN DbTip(db) ELSE NoBlock
    /\ target' = Bits[Genesis]
    /\ orphans' = << >>
    /\ pending' = << >>
    /\ job' = Idle
    /\ UNCHANGED <<storage, db, now>>

Tick ==
    /\ now < MaxClock
    /\ now' = now + 1
    /\ UNCHANGED <<storage, db, view, tip, target, orphans, pending, job>>

Init ==
    /\ storage \in StorageModes
    /\ db = GenesisRows
    /\ view = GenesisRows
    /\ tip = Genesis
    /\ target = Bits[Genesis]
    /\ orphans = << >>
    /\ pending = << >>
    /\ job = Idle
    /\ now = 0

\* The steps of a call under way: the thread that runs it takes them.
Running ==
    \/ AddOrphan
    \/ ReorgDisconnect
    \/ ReorgConnect
    \/ ReorgCommit
    \/ ReorgRefuse
    \/ ReorgRaise
    \/ Settle
    \/ SettleFails

Next ==
    \/ Submit
    \/ Running
    \/ \E b \in Announced : AddHeader(b)
    \/ Wipe
    \/ Restart
    \/ Tick

Spec == Init /\ [][Next]_vars
FairSpec == Spec /\ WF_vars(Running)
=============================================================================
