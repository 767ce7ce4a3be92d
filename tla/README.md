# BitClone in TLA+

This directory specifies and verifies the core of BitClone, a Bitcoin node in
Python: the chain state with its reorganisations, the block files under it, the
mempool, the connections of the node and what it relays over them, and the path of
a message from the wire through validation and scripts. The modules are translated from the code under `src/src`;
`PROJECT.json` maps every definition to the lines it stands for.

## 1. The system and its parts

| Part | State | Operations | Talks to |
| --- | --- | --- | --- |
| Chain state (`blockchain/blockchain.py`) | cached tip, height, subsidy, target | `add_block`, `add_headers`, `reorganize_to`, `wipe_chain`, start-up | database, orphan pool |
| Database (`database/database.py`) | tables `block_index`, `blocks`, `block_undo*`, `utxos` in SQLite | connect, disconnect, store, mark invalid, prune, clear | block stores |
| Block files and stores (`database/block_files.py`, `block_store.py`) | packed or one-per-block files, a write cursor | write, roll back, delete, clear, reconcile | database rows |
| Orphan blocks (`blockchain/orphan_pool.py`) | blocks without a parent, oldest first | add, pop children | chain state |
| Mempool (`mempool/mempool.py`, `policy.py`) | entries with ancestors and descendants, spend index, rolling fee | `accept_tx`, `confirm_block`, `evict_expired`, `get_block_template` | utxos table, orphan transactions |
| Orphan transactions (`mempool/orphan_pool.py`) | transactions with unknown parents, oldest first | add, pop dependents, expire | mempool |
| Node (`node/node.py`) | peers that are ready, wiring of callbacks | `submit_block`, `submit_tx`, peer events, mining | everything |
| Network (`network/*`) | connections, in-flight requests, header requests, pings, scores and bans, addresses | claims, time-outs, back-off, handshake | node, on several threads |
| Messages (`network/messages`, `network/datatypes`) | none | encode and decode the envelope and thirty-odd payloads | transport |
| Transactions (`tx/tx.py`, `tx/validation.py`) | none | serialise, identify, validate structure, lock times, amounts, scripts | scripts, chain state, mempool |
| Scripts (`script/*`) | two stacks, a weight budget | parse, execute, verify signatures, witness programs | transactions |
| Miner, API hub, HTTP, wallet, command line | see `components` in `PROJECT.json` | | node |

What is hard in each of them, and what makes it correct:

- Chain state. A reorganisation disconnects and connects several blocks in one
  SQLite transaction while cached fields change outside it; validation of a block
  reads the state of the block before; an error, a fault or the death of the
  process may come at any step; orphan children are added recursively. Correct:
  the utxos table is the replay of the active branch, undo rows invert, the cached
  tip is the stored tip, the tip only moves to more work, illegal blocks never
  become active and legal ones are never condemned.
- Block files. The body is on disk before its row is committed; pruning commits
  before it deletes. Correct: a committed row reads back its own block, and opening
  the database leaves no bytes behind that no row accounts for.
- Mempool. Replacement, trimming, expiry and confirmation remove entries in the
  middle of a graph which each entry caches in part; orphans are retried while
  parents arrive. Correct: index and graph are exact, limits hold, replacements pay
  for all they evict, templates are in order, every call ends.
- Connections. Threads for accepting, connecting, keep-alive and peer management share
  tables by key, and an object outlives its connection. Correct: no connection is
  leaked, a registered peer is ready, the slots are not overrun, a peer without a
  connection is found out.
- Relay. Answers are late, lost, doubled or unasked; claims and the header
  synchronisation have one owner that may vanish at any moment, and a disconnection takes
  four accesses to tables, between which the peer may be back. Correct: an item is asked of
  another peer only after its request was ended, and is fetched in the end; a synchronisation
  ends.
- Messages. Each class reads a stream field by field without looking at what is left.
  Correct: a message arrives as it was sent or not at all, and never twice.
- Transactions and scripts. Every output kind has its own way through the engine, its
  own message to sign and its own place where a failure is noticed. Correct: what the
  owners signed is accepted, nothing else is, and a script means what its
  instructions mean one after another.

`PROJECT.json` lists the hazards line by line, with the properties that cover them.

## 2. Modules

| Module | Models | Built on |
| --- | --- | --- |
| `BlockTree` | blocks as constants: branches, work, the rows a block spends and creates, the reference ledger `LedgerAt` | |
| `BlockRules` | what `_validate_block`, `_validate_coinbase`, side-block and header checks decide from the state they are given, and beside it what is legal for a branch | `BlockTree` |
| `Chain` | the state machine of chain state, tables and orphan pool | `BlockRules` |
| `ActiveLedger` | the abstract promise: one active branch and its ledger, changed in one step to a legal branch with more work | `BlockRules` |
| `ChainProps` | the properties of `Chain`, the refinement of `ActiveLedger` included | `Chain`, `ActiveLedger` |
| `ChainStarts` | `Chain` with a history variable: the blocks a restart has led the program to expect another target of | `ChainProps` |
| `BlockFiles` | files, cursor and rows, with crashes between any two steps | |
| `Mempool` | mempool and orphan transactions; the chain is external | |
| `Sessions` | the table of connections, ready peers, keep-alive, peer manager, discipline | |
| `Relay` | claims, item requests, announcements, header synchronisation | |
| `Bytes` | fixed-width integers, CompactSize, digests, script numbers | |
| `Signatures` | signature messages, DER, verification | `Bytes` |
| `Script` | parser, opcodes and the rules of the script engine | `Signatures` |
| `Spend` | script kinds, taproot commitment, transaction bytes, context-free and lock-time rules | `Script` |
| `Wire` | the envelope and the layout of every message | `Spend` |
| `Intake` | a connection from frames to verdicts: receiving, validating, executing | `Wire` |
| `IntakeProps` | the properties of `Intake` | `Intake` |
| `Finite_proofs` | lemmas on finite sets, sums, orders, recursive functions and repetition | library theorems |
| `Chain_proofs`, `ChainLegal_proofs` | theorems on branches, rows, ledger and orphan pool; on legal branches, supply, marks and the refinement | `ChainStarts`, `Finite_proofs` |
| `BlockFiles_proofs`, `Mempool_proofs` | theorems | `BlockFiles`; `Mempool`; `Finite_proofs` |
| `Sessions_proofs`, `Relay_proofs` | theorems | `Sessions`; `Relay` |
| `Intake_proofs` | theorems on the reader of `Wire`, the transactions of a message, and the script engine | `IntakeProps`, `Finite_proofs` |
| `MCChain`, `MCBlockFiles`, `MCMempool`, `MCSessions`, `MCRelay`, `MCIntake` | instances for TLC | |

### Chain and the code

`db` is what SQLite has committed, `view` what the open connection reads. They differ
only inside the transaction of a reorganisation (`job.phase = "reorg"`), whose loop is
modelled one block at a time: `ReorgDisconnect`, `ReorgConnect`, then `ReorgCommit`, or
`ReorgRefuse` (a block fails validation: roll back, mark the branch invalid) or
`ReorgRaise` (an exception or a database fault: roll back). `tip` and `target` are the
cached fields; `tip` is `NoBlock` where the code holds `None`. Each other write is one
SQLite commit and one step: `ConnectTip`, `StoreSideBlock`, `AddHeader`. `Settle` and
`SettleFails` are the pruning that follows a connection and the orphan children it
releases. `pending` is the recursion of `_process_orphan_children`, flattened: the
children popped by all calls under way, the next one first. `Restart` is the death of
the process at any moment and `__init__` after it. A block is a constant with parent,
height, bits, time, transactions and a flaw: rules that depend on the block's own bytes
(merkle root, weight, witness commitment, sigops, scripts) are the attribute
`Flaw[b]`, placed where the code tests them. Rules that read state (tip, timestamp,
target, BIP30, double spends, maturity, fees, subsidy) are written out, and
`_get_tx_fee` raises where it raises in the code.

One thread calls `add_block`: neither `Blockchain` nor the database has a lock, and
SQLite refuses its connection to other threads.

### BlockFiles and the code

A file is the sequence of its bytes, byte `i` of block `b` being `<<b, i>>`. `Write` is
`write_block`, `Commit` the insertion of the row, `CommitFails` the roll-back in
`rollback_block`, `Prune` and `DeleteFile` the two halves of pruning, `Clear` and
`ClearFiles` those of a wipe, `Reopen` the reconciliation at start-up, which may follow
any step. `WriteShort` is an append that stops half way.

### Mempool and the code

A call runs to its end on one thread. `Submit` is `submit_tx` from a peer or the API;
`Extend`, `StoreSideBlock` and `SwitchBranch` are the three ways `submit_block` gets to
call `confirm_block`. `AcceptTx` is `accept_tx`: expiry first, then exactly one of `Refuse`,
`KeepOrphan`, `RefuseByPolicy`, `Admit`; `Admit` contains the whole of replacement,
insertion and trimming. The two loops are steps of their own, since each iteration is
an admission that reads the clock again: `ConfirmNext` takes the next txid of the block,
`PopDependents` the next known parent, `Retry` the next popped orphan. An expired
transaction whose expired ancestor has just taken it along makes `evict_expired` raise
`KeyError`; `ExpireAndRaise` is that outcome, which ends the call and loses the orphans
that were popped. Fees and sizes are constants of a transaction; consensus and policy
rules over its own bytes are its `Flaw`; the fee floor is a fraction instead of a float;
a tick is a half-life of the floor. The order in which unrelated entries with the same
arrival time expire is left open. Of the chain, the mempool sees which outputs are
unspent: `confirmed` is the set of transactions of the active branch, and `Consistent`
the sets a branch can hold.

### Sessions and the code

A `Peer` object is a value (key, thread that made it, number), because tables are by key
and an old object and a new one can share a key. `conns` is `Transport._conns`, `ready`
is `Node._ready_peers`, `pings` the keep-alive's states with the phase of their next
event. A step runs from one access of a shared table, lock or blocking call to the next:
`Dial`, `Opened`, `NotOpened`, `Greeted`, `GreetingFails`, `DropAttempt` and `Enrol` are
`connect_peer` in that grain, `Accept` the inbound case, `CutRegistry` (the pop from the
ready peers), `CutPings` (`keepalive.forget`) and `CutSocket` (`transport.disconnect`) the
parts of `disconnect_peer`, between which any thread may act. `BeginPass`,
`TryCandidate`, `SkipCandidate`, `EndPass` are one pass of the peer manager, `Survey` (the
ready peers are read), `Plan` (under the lock) and `Ping` one of the keep-alive, `Receive` to
`DropSession` a reader. Deadlines are actions
that end a wait. `Punish` scores a fault and disconnects the others of a host that is
then banned.

### Relay and the code

`requests` is the table of `InflightInventory` with a flag for a claim that is too old;
`sync` is the state, owner and `awaiting_headers` of `HeaderSync`. `HearInv`, `LookAt`,
`Claim`, `Ask` are `_handle_inv` between its accesses; `HearItem`, `Accepted`, `Rejected`,
`Tell`, `Told` the way of an item to the announcement of it; `StartSync`, `Begin`,
`Request`, `Await`, `HearHeaders`, `Store` the header synchronisation in the order of its
writes (the state is set before the request is sent, `awaiting_headers` after).
`Disconnect`, `ReleasePeer`, `SyncLoses` and `Close` are a disconnection: the pop from the
ready peers, the claims, the synchronisation, the connection. The thread that is in one, `gone`
says how far, may pause between any two of them, and whatever it does next it does by key: if
the peer has come back by then, to its new session. A peer comes back only once the reader of
its last session is done. A peer that is not honest may answer anything, late, never or unasked. Two
variables are a history: `freed`, the items of which a claim was ended by a time-out or by
another peer's answer (`notfound` and failed sends release a claim whoever holds it, as in the
code), and `dropped`, those of which a claim of a ready peer was ended by a disconnection that
began with an earlier session.

### Intake and the code

A scenario, the variable `scen`, gives the frames a peer sends, the outputs of the chain they
may spend and the signatures that exist. `coins` is what the next transaction may spend: the
outputs of the chain and those that the transactions before it in the block have left
(`Created`), and `seen` what they have spent. `Send` and `Close` are the remote end, with five kinds of damage; `ReceiveHeader`,
`ReceivePayload` and `ReceiveFails` are `recv_one`; `CheckTx` is `validate_loaded_tx` up to the
scripts; `StartInput` one round of `validate_tx_scripts`; `Step`, `Branch` and
`EndOfScript` one instruction of `_execute_script`, with `frames` the script and the branches
copied out of it; the `End...` actions are what each caller of `execute_script` does with the
result. Conditionals, the exceptions that end a validation (`raised`), and the places where
a failure is ignored are kept as they are.

`Wire` states each payload once as a layout that `Read` walks the way `from_payload` walks
its stream, and each `to_payload` as a writer of its own, so that a reader is compared
with its writer and not with itself. Layouts nest to a fixed depth, and the reader has
a definition for each level (`ReadPart`, `ReadList`, `ReadTx`, `ReadGroup`, `ReadBody`, `Read`)
instead of a recursive one, so that it can be proved about.

Stand-ins: a digest is a tag, the length and two sums over the bytes and their
positions; a message to sign is the record of what is hashed into it; a signature verifies
if it is listed as made by this key over this message; a point of the curve is an x of a
certain form. Numbers of the script stack are real little-endian sign-magnitude numbers.

## 3. Runs

| Run | Question | Instance |
| --- | --- | --- |
| `chain` | does everything promised of the chain state hold over every order of events? | ten blocks on four branches |
| `files` | does every committed row read back its own block? | four bodies of sizes up to the file limit |
| `mempool` | are graph, index, limits, replacement, templates and retries right, and what still holds after a fork? | six transactions, one fork |
| `sessions` | can threads that make and end connections leak, double or strand one? | two keys of one host, four threads |
| `relay` | is no item asked twice without cause, is each fetched, and does a synchronisation end? | an honest and a faulty peer, one caller |
| `intake` | do messages arrive as sent, and are exactly the authorised spends accepted? | some 1,200 scenarios |
| `chain_halving`, `chain_pruned`, `chain_mostwork`, `chain_retarget`, `files_short`, `relay_stale` | do documented promises hold? They do not, see section 6 | the same tree, files and peers |

`chain` checks: `UtxoIsReplay` and `ViewIsReplay` (the table is the reference ledger of
the tip, at every step of a reorganisation too), `UndoInverts`, `ActiveIsBranch`,
`CachedTipIsActiveTip`, `SupplyAsGranted` (no more value is unspent than the code has granted
in subsidies, which is one old subsidy more than the schedule after each halving),
`InvalidIsEarned` (a mark has a cause on its branch), `PoolBounded`, the
action property `TipWorkGrows`, the liveness property `CallsReturn`, and
`ImplementsActiveLedger`: with `best` the tip of the committed rows and `ledger` the utxos
table, every step, a crash in a reorganisation included, is one step of `ActiveLedger` or
a stutter. The instance has a halving at height 2, where every block claims the old subsidy,
and a retarget at height 3, so that the refinement is followed across both.

`files` checks `RowsReadBack`, `FilesTracked` and
`ReopenLeavesNoGarbage`.

`mempool` checks `SpendIndexExact`, `GraphExact` (against ancestors computed from the
transactions themselves), `PackagesBounded`, `SizeBounded`, `OrphansBounded`,
`TemplateInOrder`, `ReplacementPays`, `OnlyReplaceableReplaced`, `CallsReturn`.
`GraphExact`, `TemplateInOrder`, `ReplacementPays` and `OnlyReplaceableReplaced` are stated
for a pool that is `Undisturbed`, and do not hold otherwise, for two reasons. After a fork:
`confirm_block` is called for blocks that are not on the active chain (`node.py:795`), so a
parent may leave the pool unconfirmed and come back without its children listed. And after a
`confirm_block` that the `KeyError` of `evict_expired` cut short: the confirmed transactions
it did not get to stay in the pool (`LeftBehind`), and when a later block confirms a child
of one of them, the child's descendants keep an ancestor that nothing in the pool leads to. The index, the types and the
limits hold in every state.

`sessions` checks `ConnectionsHeld` (a connection without a registered peer is in some
thread's hands), `RegisteredAreReady`, `OutboundBounded`, and `StaleAreCleared`: a peer
registered over no connection does not stay so. `relay` checks `AskedOnce` (two ready peers are
asked for a missing item only if the claim of the first was `freed` or `dropped`; that the
second exception is needed is the run `relay_stale`), `Delivered` and `SyncEnds`. That a
banned host has no session is not checked, as the code tests a ban only when a session begins.

`intake` checks `DeliveredAsSent` (every reader inverts its writer, behind an envelope that
lets nothing damaged pass), `ConditionalsAgree` (copying branches out of the script agrees
with an interpreter that reads it once with a flag for each open conditional),
`SynonymsAgree` (twenty-three opcodes against their meaning in terms of others, on every
stack that is reached), `OnlyAuthorisedSpends` (an accepted transaction carries signatures
over itself of as many owners as the output asks for), `NoOutputSpentTwice` (no two inputs of
a message, within a transaction or across a block, spend the same output, and each spends one
of the chain or of an earlier transaction of the block) and `HonestSpendsAccepted` (the owners' signatures are never refused).

### Bounds, and why they are enough

- Chain tree: depth three, four branches with forks at two depths, so that a
  reorganisation disconnects one or two blocks and connects two or three, goes on top of a
  pruned fork, fails at its first or later block, and competes with an equal branch. The
  same transaction is confirmed on two branches, a coinbase is overwritten by a BIP30
  exception, one block fails only when connected and one spends what its branch lacks.
- `KeepBlocks = 2` prunes within the tree. `MaxOrphans = 2` and `MaxOrphanBytes = 3` with
  sizes 1, 2 and 4 make either limit bind first and refuse one block outright.
- `Announced` (blocks whose header also comes alone) and `MaxClock` (ticks) bound inputs
  that only repeat what one or two of them show. Every block may be sent any number of
  times.
- `RetargetInterval = 3`, `HalvingInterval = 2`, `MedianSpan` and `Maturity` are scaled to the
  tree, so that its branches cross a retarget and a halving. What a start gets wrong about the
  target shows on blocks above a retarget only, of which this tree has none: here
  `InvalidIsEarned` is checked without its exception for them (`misjudged` stays empty), and with it
  proved (`InvalidKept`).
- Files: `MaxFileSize = 3` with bodies of one to three bytes forces roll-over, and
  `MaxNumber` bounds the file numbers of a pruned store.
- Mempool: two siblings, a diamond of two parents, and a transaction that conflicts with
  two entries at once. The constants are chosen so that package limits, the size limit
  (with two evictions in one admission), the orphan limits, the fee floor and both
  outcomes of a replacement occur. `MaxClock = 1` with `MaxTime = 0` lets an entry expire before its
  descendants do. `MaxBlock`, `MaxForkBlock` and `MaxForks`
  bound how many transactions a block confirms and how often the chain forks.

- Sessions: one object for each thread and key (`MaxPeers`), so that an object of the
  caller, of the manager and the registered one compete for a key; two keys on one host, so
  that a ban of one ends the other's session; `BanThreshold = 1`, so that every scored fault
  bans, for no property depends on how long the score takes to get there.
- Relay: one item and two batches of headers; `Starts` bounds how often a faulty peer
  announces or pushes, sessions are dropped and synchronisations started, in six mixes of two
  at a time.
  Requests, answers, time-outs and reconnections are not bounded.
- Intake: every message class with counts of 0 to 3 and every conversion that is not
  the identity (mapped addresses, flat lists, gaps beyond 252, defaults of a header), each
  followed by another message; every opcode on a deep and a shallow stack; every nesting of
  conditionals of at most seven instructions under every choice of conditions; for every
  output kind every choice (and order) of a missing, right, wrong or foreign signature;
  lock times on both sides of the threshold. Scaled constants: script numbers of
  `MaxNum = 2` bytes instead of 4, `MaxStack = 9` instead of 1000, `LocktimeThreshold = 500`,
  `MaxMoney = 1000`, `MaxWeight = 1200`, two headers, inventory items and addresses in a
  message, payloads of 700 bytes. Redeem scripts have at most 75 bytes (section 6).
  `CHECK_DEADLOCK FALSE`: a connection ends.

### Fairness

Weak fairness of `Running` in `Chain` and in `Mempool`: the thread that is inside a call
takes its next step. Nothing is assumed there of peers, of the clock or of crashes. The
code justifies it: within a call there is no wait for another thread or peer.

`Sessions`: weak fairness of the keep-alive worker and of a reader that has begun (sockets
have a time-out), strong fairness of a pass that finds a key without a connection overdue
(the worker wakes at least once per interval and the clock moves). `Relay`: weak fairness of
every thread, of time-outs, and, for an honest peer, of coming back and of being given up
when silent; strong fairness of its announcements and answers, which are interrupted as
often as the session is. Nothing is assumed of the faulty peer, of callers that begin
something, or of the peer manager's success.

## 4. Proofs

What the runs show on one instance TLAPS checks for every tree of blocks, every set of
transactions, bodies, peers, threads, items and scenarios, and every value of the constants
that the named assumptions admit.

| Module | Theorems (property of a run) | Under |
| --- | --- | --- |
| `Chain_proofs` | `LedgerConnect` (the rows of a block turn the reference ledger of its parent into its own), `Invariant`, `RowsTyped`, `TypeCorrect` (`TypeOK`), `LedgerKept` (`UtxoIsReplay`), `LedgerKeptInside` (`ViewIsReplay`), `UndoSound` (`UndoInverts`), `ActiveChain` (`ActiveIsBranch`), `CachedTip` (`CachedTipIsActiveTip`), `WorkGrows` (`TipWorkGrows`), `PoolKept` (`PoolBounded`) | |
| `ChainLegal_proofs` | `Refinement` (`ImplementsActiveLedger`, archival), `SupplyKept` (`SupplyAsGranted`), `InvalidKept` (`InvalidIsEarned`) | |
| `BlockFiles_proofs` | `Invariant`, `TypeCorrect` (`TypeOK`), `RowsLeadToBlocks` (`RowsReadBack`), `FilesKept` (`FilesTracked`), `NoGarbage` (`ReopenLeavesNoGarbage`) | `WholeWrites` |
| `Mempool_proofs` | `Invariant`, `TypeCorrect` (`TypeOK`), `IndexExact` (`SpendIndexExact`), `PackagesKept` (`PackagesBounded`), `SizeKept` (`SizeBounded`), `OrphansKept` (`OrphansBounded`) | |
| | `GraphKept` (`GraphExact`), `ReplacementKept` (`ReplacementPays`), `OnlyReplaceable` (`OnlyReplaceableReplaced`), `TemplateKept` (`TemplateInOrder`) | `NoSelfRivals` |
| `Sessions_proofs` | `Invariant`, `TypeCorrect` (`TypeOK`), `NoneLeftBehind` (`ConnectionsHeld`), `RegisteredReady` (`RegisteredAreReady`), `TargetKept` (`OutboundBounded`) | |
| `Relay_proofs` | `TypesHold`, `AskingHolds`, `AskedOneAtATime` (`AskedOnce`) | |
| `Intake_proofs` | `Invariant`, `OutputsSpentOnce` (`NoOutputSpentTwice`), `ScriptInvariant`, `ConditionalsHold` (`ConditionalsAgree`) | |

Two hypotheses are not assumptions of the model but conditions of single theorems. Each
says that the constants stay clear of a defect listed in section 6, because with the
defect the property is false; the instances of the runs `files` and `mempool` satisfy them.

- `WholeWrites`: no append to a packed file stops half way (`files_short`).
- `NoSelfRivals`: no transaction spends what one of its ancestors spends. No chain can
  confirm one that does, but `_check_replacement` lets one into the pool, without the
  parent it evicts.

The theorems on the chain state need none: two defects, of halvings (`chain_halving`) and of
targets after a restart (`chain_retarget`), are part of what they state. `Granted` is
the subsidy the code bounds a coinbase with, that of the parent's height, and
`SupplyAsGranted` sums it over the active branch; `InvalidIsEarned` counts the target a restart
leads the program to expect of a block (`misjudged`) as a cause of its mark. Neither is as strong
as the documents ask: `SupplyWithinSchedule` and `OnlyInvalidMarked` are, and fail.
The rule of the target is no part of `LegalBlock`, so that `Refinement` does without.

### The inductive invariants

*Chain.* That a disconnection restores the ledger depends on undo rows written at another
time, that the loop can get back to the fork depends on which branch each position is on,
and that a pruned node still has what it needs depends on the order of pruning and
activation. `IInv` says, between calls, that the rows describe the branch of the cached tip
(`RowsAt`), that undo rows invert (`UndoKept`) and that no active entry is higher
(`TopHeld`); during a reorganisation, that the committed rows do so for the tip it started
from, that what the connection reads does so for the block the loop has reached, that the
undo rows of what is left to disconnect are there, and that the fork is still ahead
(`ReorgInv`). One lemma per operation on the rows, one per action, and `StepInv` puts them
together.

*What a chain goes through.* `Refinement` and `SupplyKept` need that every block on an
active branch, or on the one a reorganisation has reached, is in some set `G` of good
blocks: legal ones, or ones whose ledger holds no more than was granted. `BranchesStay` is
that argument once for every `G`: it is enough that a block which passes the validation on top of a branch within `G` is in `G`
(`Earns`). `AcceptIsLegal` and `AcceptIsFunded` show that, from the rows and not from the
reference ledger, since these are what the code reads. That the unspent value is
at most what was granted is a balance of inputs, outputs and fees over one block
(`BlockBalance`), with `Value` the sum the community module computes. `InvalidKept` needs
the converse, that what is refused is illegal, and for it that the window of timestamps, the
rows of every position of the loop are those of the block's own branch, and that the cached
target is that of the tip or, at a tip the program was started on and has not left since, that
of the first block (`FairInv`, `TargetFrom`).

*Block files.* A row reads back its block if its bytes lie within its file and nothing
overwrites them. `FilesInv` adds that the cursor is at the end of the last file (`Packed`), that a
pruned store has one block a file, so that deleting a file takes no other row's bytes along
(`OneAFile`), that the body not yet committed is the last thing on disk and behind every
row, so that cutting it off cuts off nothing else (`Appended`), and what the two halves of
pruning and of a wipe owe each other (`JobInv`).

*Mempool.* `IInv`: the index of spent outpoints is exact, the lists of an entry name only
entries, ancestors and descendants are each other's converse, the totals keep to the
limits, and no orphan is an entry. Removal, insertion and the whole of trimming keep it. `GInv` says that
the lists are transitive and each other's converse (`Related`), that they name only
ancestors (`Kin`), that an orphan waits for parents of its own (`OrphansTrue`), and, while
there was no fork, that the pool follows the chain (`Follows`). The last is what makes
`GraphExact` inductive. Inserting a transaction lists the ancestors its parents list, so the
lists stay complete if no entry arrives after its child; that cannot be because a child
without its parent is an orphan unless the chain holds the parent, and what the chain holds is not
submitted again. But a block becomes part of the chain before `confirm_block` has removed
its transactions one by one, each removal may be followed by retried orphans, and a
`KeyError` may end the loop. So the entries fall into those the loop still waits for
(`Waiting`), those it left behind (`Behind`), and the rest; among what descends from none left
behind (`Told`) the lists are complete, the queue is in the order of the
block (`InOrder`), so that the next one to go has no ancestors left (`NextIsFirst`), and no
orphan is retried for the sake of parents that are about to go (`Fresh`).
`ListsAreAncestors` then equates complete lists with the ancestors that
`TrueAncestors` computes round by round. With complete lists the package of an entry holds its
parents, each with fewer ancestors than the child, so that the sort puts them first
(`PackageFollows`); `TemplateContinues` carries this through the choices of
`get_block_template`.

*Sessions.* `ConnectionsHeld` alone is not kept: a thread may close the connection that
another thread has registered over. `IInv` adds which thread can be at which step (`Roles`,
`Cuts`), that the object of an attempt is referred to by nothing else (`Fresh`), that an
object being disconnected is out of the ready table (`Gone`), that a registered one is ready
or about to be disconnected (`Registered`), and that the slots the manager has left fit beside the
peers it has connected (`Slots`).

*Relay.* `AskedOnce` speaks of what was asked, but whether an item may be asked again is
decided on the table of claims, which a time-out, a `notfound`, an unasked answer or a
disconnection changes behind the back of the reader that holds the claim. `Asking` ties
the two together: what a ready peer has been asked for, or its reader is about to ask for,
is claimed for it unless the item arrived or `freed` or `dropped` records how the claim was lost
(`Claimed`); an open request is not repeated (`NotRepeated`, without which a `getdata`
that cannot be sent would release a claim an earlier one stands on); a claim that is too
old is recorded (`LateIsFreed`), so that one found free by `claim` was nobody's; and a
peer that comes back starts with nothing asked and nothing in hand (`ClosedIsEmpty`,
`TookInHand`). `InHand` makes the types inductive: which of the values a thread keeps are
there at which of its steps.

*Intake, the transactions.* `seen` and `coins` grow while the scripts of a message are run, and
both are computed from what a peer wrote. `IntakeInv` says that what waits is a rest of the
transactions of the last message, that `coins` holds the outputs of the chain and those left
by the transactions done (`Pending`), that `seen` is what these have spent, and that what was
spent is pairwise apart and each of it of the chain or of an earlier transaction (`Distinct`,
`Backed`). For that the reader has to be typed: whatever bytes arrive, a layout that is read
returns lists where the validation counts on lists (`Reading`, `Listing`), and leaves bytes of
the stream. That no transaction spends an outpoint twice by itself rests on the test of
`validate_loaded_tx` against the inputs before, that none spends what another has spent on
the test against `seen` (`Unspent`).

*Intake, the scripts.* The engine reads a conditional to its OP_ENDIF, copies the bytes of the
branches into two scripts and runs one of them with an execution of its own; the reference reads
the script once and keeps a flag for each open conditional. The proof has three parts. A list
of instructions describes a script from a position on (`Parses`), uniquely, and an instruction
copied to the end of a script is parsed there as the same one (`ParsesCopied`); with
conditionals nested inside, the two copies a block is split into are balanced scripts again
(`Shaped`). While the engine reads a block the reference walks through it with its flags
down, or up in the branch taken, and both arrive behind the OP_ENDIF with the same machine
(`BlockStepFollows`, `BranchFollows`). And in between, `ScriptInv`: what is left of the scripts
under way, the innermost first, joined to one list, brings the engine to where the whole
script comes to from its first state (`Ahead`, `Agrees`, `Target`). The invariant also has
that every script under way is made of instructions with names, because a failure disassembles
each of them on its way out and an exception there would turn the failure into another outcome.
The theorem is about scripts of named instructions with balanced conditionals (`WellFormed`);
on others there is no reading to compare with, and what the engine does then is in section 6.

### Induction

The provers cannot apply an induction theorem to a predicate. `Finite_proofs` does without
one: a set of numbers, or of finite sets, that is not empty has a least member
(`LeastNatural`, `LeastSet`), so a set of counterexamples without one is empty. From this
come the recursive functions over the subsets of a finite set (`RecursionOnSubsets`), sums
over sets and their parts, unions and images (`SumOfParts`, `SumOfUnion`, `SumOfImages`),
what folds over sequences reach (`FoldReaches`, `SiftKeeps`), powers of two, and what a
repeated step settles on (`RepeatSettles`), and the listing of a set in order (`PlacesList`); the community modules' operators
are unfolded to their definitions. That work is positive and that every block
descends from the first one are lemmas (`PositiveWork`, `Rooted`).

Assumptions on the constants: `TreeAssumption`, `WorkAssumption`, `BodyAssumption`,
`RulesAssumption`, `GenesisAssumption` (the first block creates no more than the first
subsidy), `ChainAssumption`, `FilesAssumption`, `MempoolAssumption`, `SessionsAssumption`,
`RelayAssumption`, `FramesAssumption` (what a peer writes to its socket are bytes) and
`MagicAssumption` (this network's magic is not the only one). TLC evaluates each on the run of its component.

### Only model-checked

- Liveness: `CallsReturn` of `Chain` and of `Mempool`, `StaleAreCleared`, `Delivered`,
  `SyncEnds`. Temporal proofs under fairness need `ENABLED`.
- `ImplementsActiveLedger` of a pruned node: a window of bodies makes the active entries
  part of a branch, and legality of a candidate is decided on what is left.
- `DeliveredAsSent`: a checksum of four bytes lets some damaged payload pass, so for every
  scenario it is false; that each of thirty readers inverts its writer is left to the run.
- `SynonymsAgree`: false on arbitrary stacks. MIN and its synonym by comparison and sum differ
  where a sum outgrows `MaxNum` bytes; the claim is about the stacks that scripts reach.
- `OnlyAuthorisedSpends`, `HonestSpendsAccepted`: they compare the verdict with what a scenario
  says of itself (`owners`, `needed`, `honest`), over stand-ins for digests and curve.

`TypeOK` of `Relay` is no property of its run: the theorem `TypesHold` covers it.

## 5. What is not modelled, and why

- `bitcoin-core-remote` storage: it keeps no local chain.
- Hash functions and the curve: arithmetic on 256-bit numbers. The stand-ins of section 2
  take their place; base58, bech32, key derivation and the wallet are left out with them.
- Block rules that depend on a block's own bytes are one attribute of the block in `Chain`;
  scripts are executed in `Intake` and are an attribute in `Chain` and `Mempool`.
- In `Intake`, the execution traces and what is only shown to callers.
- In `Sessions`, which socket a key has: `conns` is a set of keys. That `transport.py:73` may put
  one socket in the place of another under the same key, which nobody then closes, cannot be
  seen there (section 6); whether the key is held, and by whom, can.
- In `Sessions`, the messages of the handshake, the ranking and the file of the address
  book, and starting and stopping the workers; in `Relay`, the answers to `getdata` and
  `getheaders`, which read and change nothing.
- The composition of the node with chain, mempool and miner: each of them alone takes TLC
  minutes on the smallest instance that shows its hazards. What one part knows of
  another is stated instead (`confirmed` in `Mempool`, `have` in `Relay`).
- The miner is one loop and two flags, with the race of stopping it against the start of its
  next round listed as a hazard; the API hub is a bounded history under one lock.
- Inside `Chain`, `Wipe` is one step, although each `DROP TABLE` commits by itself.
- The mempool is lost in a restart, which is its initial state over another `confirmed`;
  there is no action for it.
- HTTP, RPC client, command line and configuration keep no state worth a model.

## 6. Where the code and its documents disagree

Each is a run that TLC ends with a counterexample; quotes are in `PROJECT.json`.

- `chain_halving`: the first block after a halving is checked with the subsidy cached for its
  parent (`blockchain.py:998`), so that a coinbase with the old subsidy is accepted and more
  value is unspent than the schedule has created.
- `chain_pruned`: a pruned node whose reorganisation goes back to a fork block without a body
  gets `None` for its cached tip, refuses the first candidate and marks a legal
  branch invalid for ever.
- `chain_mostwork`: a crash after a side block is stored and before its
  reorganisation commits leaves the heavier branch inactive, and sending the block again
  does not help because it is known.
- `chain_retarget`: after a restart the target of the tip is taken to be that of genesis.
- `files_short`: a write that stops half way leaves the tracked size behind the file.
- `relay_stale`: a disconnection pauses between the pop from the ready peers and `release_peer`
  (`node.py:439`, `441`); the peer is disconnected by its reader, comes back and is asked for an
  item; then the pause ends and the claim of the new session is dropped, and another peer is
  asked for the same item while the first request is open.

More met while modelling, without a run of their own.

Chain and mempool:

- A block in which a transaction spends an output of the same block is never accepted, as the
  fee of its spender is looked up in the utxos table alone (`blockchain.py:1239`, `FeeRaises`),
  although `archived_tickets.md:59` asks for "intra-block UTXO dependencies".
- `confirm_block` removes by txid only (`mempool.py:269`), and a rival of a confirmed
  transaction stays in the pool, its input gone, and in templates.
- The target a restart gets wrong also condemns: a reorganisation that starts at the tip
  refuses a block with the right target and marks it and its descendants invalid.
- `evict_expired` raises `KeyError` for related transactions that expire together
  (`ExpireAndRaise`). Inside `confirm_block` this leaves confirmed transactions in the pool,
  and the lists of their descendants can go wrong with the next block: `GraphExact` without
  its condition on `LeftBehind` was not inductive, and with a larger clock TLC finds an entry
  that lists an ancestor to which no transaction in the pool connects it.
- A replacement may spend an output of a transaction it evicts (`ReplacementOk` asks only
  that the outpoint was also an input of a conflict), and so enter without its input.

Scripts and transactions:

- `validate_segwit` ignores the result of a version 0 witness script
  (`script_engine.py:567`, `596`): one that fails with a single true item on the stack is
  accepted, while `validate_stack` calls a script that exits early invalid.
  `OnlyAuthorisedSpends` leaves these spends out (`forgiven`).
- A P2SH input whose redeem script is longer than 75 bytes, such as two of three keys,
  matches no class of scriptsig (`scriptsigs.py:179`), and the spend raises, although
  `docs/spend-classification.md:8` lists P2SH as supported.
- The taproot message commits to the outputs only for SIGHASH_ALL, not for the default
  type, and to the amounts and scripts of the first input only in a key path; the legacy
  and the version 0 message ignore NONE, SINGLE and ANYONECANPAY.
- A leaf's witness items are pushed with the first on top, contrary to BIP 342.
- CHECKMULTISIG in a leaf verifies ECDSA; an empty signature raises there.
- An unmatched OP_ELSE or OP_ENDIF, OP_CODESEPARATOR, OP_CHECKSEQUENCEVERIFY and the
  unused NOPs raise; PICK and ROLL take negative numbers.

Network:

- A pong that comes after its deadline was cleaned up is scored as a fault of the peer.
- `connect_peer` to a key that has a connection goes on over it, and closes it when its
  own handshake fails (`StaleAreCleared` says that the stranded peer is found out). When two
  calls find the key free, the second to connect puts its socket in the place of the first one's
  (`transport.py:73`), which stays open and is closed by nobody.
- A `notfound` from any peer, and a failed `getdata`, release another peer's claim.
- A failing relay of an `addr` ends the session it came from.
- The command of a header is not under the checksum; frames with other bytes after its
  name are refused by the padding rule alone.

## 7. Plan

Done: `BlockTree`, `BlockRules`, `Chain`, `ActiveLedger`, `BlockFiles`, `Mempool`, `Sessions`,
`Relay`, `Bytes` to `Intake`, and their proofs.

1. Proofs: the refinement of `ActiveLedger` by a pruned node whose reorganisations stay
   within its window; the header synchronisation of `Relay`.
2. A tree of `Chain` tall enough for a restart above a retarget to condemn a block, with the rest
   of the tree cut down to make room for it; `Intake` with long redeem scripts, when the code
   changes.
3. The miner's flags and the API hub's history.
