------------------------------- MODULE Mempool -------------------------------
(***************************************************************************)
(* The transactions a node has not seen confirmed: class MemPool over      *)
(* OrphanTransactionPool.  A call runs to its end on one thread; the work  *)
(* it leaves to loops (the transactions of a confirmed block, the orphans  *)
(* whose parents became known) is modelled one transaction at a time,      *)
(* because each of them is a whole admission and reads the clock again.    *)
(*                                                                         *)
(* The chain is external: node.py adds the block first and then calls      *)
(* confirm_block for every block add_block accepts, on the active chain or *)
(* off it, so that all the mempool sees of the chain is which transactions *)
(* the active branch holds.                                                *)
(***************************************************************************)
EXTENDS Integers, Sequences, FiniteSets, FiniteSetsExt, SequencesExt

CONSTANTS
    Txs,               \* every transaction that can be submitted
    Coinbase,          \* stands for the transactions that made the first coins
    Ins,               \* the outpoints a transaction spends
    Outs,              \* how many outputs it has
    Fee,               \* inputs minus outputs
    Weight,            \* tx.wu
    Signals,           \* an input has a sequence below RBF_SEQUENCE_THRESHOLD
    Flaw,              \* what is wrong with it whatever the context
    Rank,              \* the order of the txids
    MinFee,            \* MIN_FEE, per virtual byte
    MaxSize,           \* MAX_SIZE
    MaxTime,           \* MAX_TIME, in ticks of the clock
    MaxBlockWeight,    \* MAX_BLOCK_WEIGHT
    MaxAncestors,      \* MAX_ANCESTOR_COUNT
    MaxAncestorSize,   \* MAX_ANCESTOR_VBYTES
    MaxDescendants,    \* MAX_DESCENDANT_COUNT
    MaxDescendantSize, \* MAX_DESCENDANT_VBYTES
    MaxEvictions,      \* MAX_REPLACEMENT_EVICTIONS
    MaxOrphans,        \* OrphanTransactionPool.MAX_COUNT
    MaxOrphanSize,     \* OrphanTransactionPool.MAX_VBYTES
    MaxOrphanTime,     \* OrphanTransactionPool.MAX_TIME
    MaxForks,          \* bound: the number of times the active chain does not just grow
    MaxBlock,          \* bound: the number of transactions in a block
    MaxForkBlock,      \* bound: the same for a block that does not just extend
    MaxClock           \* bound: the last value of the clock

\* An outpoint; those with tx = Coinbase are unspent to begin with.
Outpoints == [tx : Txs \cup {Coinbase}, n : Nat]

ASSUME MempoolAssumption ==
    /\ IsFiniteSet(Txs)
    /\ Coinbase \notin Txs
    /\ \A t \in Txs : Ins[t] \subseteq Outpoints /\ Ins[t] # {}
    /\ Outs \in [Txs -> Nat \ {0}]
    /\ Fee \in [Txs -> Nat]
    /\ Weight \in [Txs -> Nat \ {0}]
    /\ Signals \in [Txs -> BOOLEAN]
    /\ Flaw \in [Txs -> {"none", "coinbase", "consensus", "nonstandard"}]
    /\ Rank \in [Txs -> Nat] /\ \A t, u \in Txs : Rank[t] = Rank[u] => t = u
    /\ MinFee \in Nat \ {0}
    /\ {MaxSize, MaxBlockWeight, MaxAncestorSize, MaxDescendantSize, MaxOrphanSize,
        MaxForks, MaxClock} \subseteq Nat
    /\ {MaxAncestors, MaxDescendants, MaxOrphans} \subseteq Nat \ {0}
    \* a standard transaction is at most a package
    /\ \A t \in Txs : Flaw[t] = "none" => (Weight[t] + 3) \div 4 <= MaxDescendantSize

VARIABLES
    forks,       \* history: how often the active chain did not just grow
    confirmed,   \* external: the transactions of the active branch
    pool,        \* self.mempool and self.spends
    orphans,     \* the orphan pool, oldest first
    floor,       \* self.rolling_min_fee, a fraction
    floorAt,     \* self.rolling_fee_updated_at
    confirming,  \* confirm_block: the txids still to be confirmed
    parents,     \* _reconsider_orphans: the queue of new parents
    retrying,    \* the orphans popped for the last of them
    now          \* the clock, a tick being one half-life of the rolling fee

vars == <<forks, confirmed, pool, orphans, floor, floorAt,
          confirming, parents, retrying, now>>

-----------------------------------------------------------------------------
(* Transactions *)

VBytes(t) == (Weight[t] + 3) \div 4
Parents(t) == {i.tx : i \in Ins[t]}

\* Sums and unions over sets of transactions.
Size    == [ts \in SUBSET Txs |-> MapThenSumSet(VBytes, ts)]
Fees    == [ts \in SUBSET Txs |-> MapThenSumSet(LAMBDA t : Fee[t], ts)]
Weights == [ts \in SUBSET Txs |-> MapThenSumSet(LAMBDA t : Weight[t], ts)]
Inputs  == [ts \in SUBSET Txs |-> UNION {Ins[t] : t \in ts}]

\* The unspent outputs once the transactions of ts are confirmed.
Coins == [ts \in SUBSET Txs |->
    {i \in Inputs[Txs] \ Inputs[ts] :
        i.tx = Coinbase \/ (i.tx \in ts /\ i.n < Outs[i.tx])}]

\* The sets of transactions that some chain can hold.
Consistent ==
    {ts \in SUBSET Txs : \A t \in ts :
        /\ Flaw[t] \in {"none", "nonstandard"}
        /\ \A i \in Ins[t] : i.tx = Coinbase \/ (i.tx \in ts /\ i.n < Outs[i.tx])
        /\ \A u \in ts \ {t} : Ins[t] \cap Ins[u] = {}}

-----------------------------------------------------------------------------
(* The entries.  anc and desc are MemPoolTx.ancestors and .descendants.    *)

Entries == DOMAIN pool.entries
Entry == [anc : SUBSET Txs, desc : SUBSET Txs, arrival : Nat]

\* Fault: the entry stays in the descendants of its ancestors.
RemoveEntriesHalfway(m, gone) ==
    [entries |-> [t \in DOMAIN m.entries \ gone |->
                     [m.entries[t] EXCEPT !.anc = @ \ gone]],
     spends  |-> [i \in DOMAIN m.spends \ Inputs[gone] |-> m.spends[i]]]

\* _remove_tx, for each of gone: references, spend index, entry.
RemoveEntries(m, gone) ==
    [entries |-> [t \in DOMAIN m.entries \ gone |->
                     [m.entries[t] EXCEPT !.anc = @ \ gone, !.desc = @ \ gone]],
     spends  |-> [i \in DOMAIN m.spends \ Inputs[gone] |-> m.spends[i]]]

WithDescendants(m, ts) == ts \cup UNION {m.entries[t].desc : t \in ts}

\* Fault: only one of the inputs is indexed.
InsertIndexesOneInput(m, t, anc) ==
    [entries |-> [u \in DOMAIN m.entries \cup {t} |->
                     IF u = t THEN [anc |-> anc, desc |-> {}, arrival |-> now]
                     ELSE IF u \in anc THEN [m.entries[u] EXCEPT !.desc = @ \cup {t}]
                     ELSE m.entries[u]],
     spends  |-> [i \in DOMAIN m.spends \cup {CHOOSE j \in Ins[t] : TRUE} |->
                     IF i \in Ins[t] THEN t ELSE m.spends[i]]]

\* The entry, its place among the descendants of its ancestors, the index.
Insert(m, t, anc) ==
    [entries |-> [u \in DOMAIN m.entries \cup {t} |->
                     IF u = t THEN [anc |-> anc, desc |-> {}, arrival |-> now]
                     ELSE IF u \in anc THEN [m.entries[u] EXCEPT !.desc = @ \cup {t}]
                     ELSE m.entries[u]],
     spends  |-> [i \in DOMAIN m.spends \cup Ins[t] |->
                     IF i \in Ins[t] THEN t ELSE m.spends[i]]]

\* Fault: the parents only.
AncestorsOfParents(m, t, excluded) ==
    (Parents(t) \cap DOMAIN m.entries) \ excluded

\* _get_ancestors: the parents in the pool and the ancestors they list.
Ancestors(m, t, excluded) ==
    LET ps == (Parents(t) \cap DOMAIN m.entries) \ excluded
    IN  (ps \cup UNION {m.entries[p].anc : p \in ps}) \ excluded

\* Fault: the candidate is not counted among the descendants.
WithinPackageLimitsButOne(m, t, anc, ignored) ==
    /\ Cardinality(anc) + 1 <= MaxAncestors
    /\ Size[anc] + VBytes(t) <= MaxAncestorSize
    /\ \A a \in anc :
          LET kept == m.entries[a].desc \ ignored
          IN  /\ Cardinality(kept) + 1 <= MaxDescendants
              /\ VBytes(a) + Size[kept] <= MaxDescendantSize

\* _check_package_limits, in both directions of the graph.
WithinPackageLimits(m, t, anc, ignored) ==
    /\ Cardinality(anc) + 1 <= MaxAncestors
    /\ Size[anc] + VBytes(t) <= MaxAncestorSize
    /\ \A a \in anc :
          LET kept == m.entries[a].desc \ ignored
          IN  /\ Cardinality(kept) + 2 <= MaxDescendants
              /\ VBytes(a) + Size[kept] + VBytes(t) <= MaxDescendantSize

-----------------------------------------------------------------------------
(* Replacement *)

Conflicts(m, t) == {m.spends[i] : i \in Ins[t] \cap DOMAIN m.spends}

\* An entry is replaceable when it signals or one of its listed ancestors does.
Replaceable(m, t) == \E u \in {t} \cup m.entries[t].anc : Signals[u]

\* Fault: the descendants of the conflicts go unpaid.
ReplacementOkUnpaid(m, t) ==
    LET direct  == Conflicts(m, t)
        evicted == WithDescendants(m, direct)
    IN  /\ \A c \in direct : Replaceable(m, c)
        /\ Cardinality(evicted) <= MaxEvictions
        /\ \A i \in Ins[t] : i.tx \in DOMAIN m.entries => i \in Inputs[direct]
        /\ Fee[t] >= Fees[direct] + MinFee * VBytes(t)

\* Fault: one replaceable conflict is enough.
ReplacementOkForOne(m, t) ==
    LET direct  == Conflicts(m, t)
        evicted == WithDescendants(m, direct)
    IN  /\ \E c \in direct : Replaceable(m, c)
        /\ Cardinality(evicted) <= MaxEvictions
        /\ \A i \in Ins[t] : i.tx \in DOMAIN m.entries => i \in Inputs[direct]
        /\ Fee[t] >= Fees[evicted] + MinFee * VBytes(t)

\* _check_replacement: all conflicts replaceable, not too many evictions, no
\* new unconfirmed input, and the fees of all it evicts paid with an increment.
ReplacementOk(m, t) ==
    LET direct  == Conflicts(m, t)
        evicted == WithDescendants(m, direct)
    IN  /\ \A c \in direct : Replaceable(m, c)
        /\ Cardinality(evicted) <= MaxEvictions
        /\ \A i \in Ins[t] : i.tx \in DOMAIN m.entries => i \in Inputs[direct]
        /\ Fee[t] >= Fees[evicted] + MinFee * VBytes(t)

-----------------------------------------------------------------------------
(* The rolling minimum fee and the size limit *)

NoFloor == [n |-> 0, d |-> 1]
Higher(q, r) == IF q.n * r.d > r.n * q.d THEN q ELSE r

\* get_min_relay_feerate halves the floor for every half-life since its last
\* update, and drops it below half of the minimum.
Decayed ==
    LET r == [n |-> floor.n, d |-> floor.d * 2 ^ (now - floorAt)]
    IN  IF 2 * r.n < MinFee * r.d THEN NoFloor ELSE r

PaysFloor(t) ==
    /\ Fee[t] >= MinFee * VBytes(t)
    /\ Fee[t] * Decayed.d >= Decayed.n * VBytes(t)

\* Whether the packages of t and its descendants pay less than that of u; the
\* smaller txid decides between equals.
Cheaper(ts, t, us, u) ==
    \/ Fees[ts] * Size[us] < Fees[us] * Size[ts]
    \/ Fees[ts] * Size[us] = Fees[us] * Size[ts] /\ Rank[t] <= Rank[u]

\* Fault: one package is evicted, large enough or not.
TrimmedOnce(m) ==
    LET all     == DOMAIN m.entries
        pack(t) == {t} \cup m.entries[t].desc
        worst   == CHOOSE t \in all : \A u \in all : Cheaper(pack(t), t, pack(u), u)
    IN  IF Size[all] <= MaxSize THEN << >> ELSE <<pack(worst)>>

\* _trim_to_size: the packages evicted, one after the other.
Trimmed(m) ==
    LET evict[left \in SUBSET DOMAIN m.entries] ==
            LET pack(t) == {t} \cup (m.entries[t].desc \cap left)
                worst   == CHOOSE t \in left :
                               \A u \in left : Cheaper(pack(t), t, pack(u), u)
            IN  IF Size[left] <= MaxSize THEN << >>
                ELSE <<pack(worst)>> \o evict[left \ pack(worst)]
    IN  evict[DOMAIN m.entries]

FloorAfter(packs, old) ==
    FoldLeft(LAMBDA r, p : Higher([n |-> Fees[p] + MinFee * Size[p], d |-> Size[p]], r),
             old, packs)

-----------------------------------------------------------------------------
(* The orphan pool *)

OrphanSize(os) == MapThenSumSet(LAMBDA k : VBytes(os[k].tx), DOMAIN os)
Held(os) == {os[k].tx : k \in DOMAIN os}
Bounded(os) == Len(os) <= MaxOrphans /\ OrphanSize(os) <= MaxOrphanSize

\* Fault: room is made before the new entry is counted.
OrphanAddLate(os, t, missing) ==
    IF t \in Held(os) \/ VBytes(t) > MaxOrphanSize THEN os
    ELSE LET kept == IF Len(os) > MaxOrphans THEN Tail(os) ELSE os
         IN  Append(kept, [tx |-> t, missing |-> missing, arrival |-> now])

\* OrphanTransactionPool.add: a known or oversized orphan is refused, and the
\* oldest entries make room.
OrphanAdd(os, t, missing) ==
    IF t \in Held(os) \/ VBytes(t) > MaxOrphanSize THEN os
    ELSE LET all == Append(os, [tx |-> t, missing |-> missing, arrival |-> now])
             cut == CHOOSE k \in 0 .. Len(os) :
                        /\ Bounded(SubSeq(all, k + 1, Len(all)))
                        /\ \A j \in 0 .. k - 1 : ~ Bounded(SubSeq(all, j + 1, Len(all)))
         IN  SubSeq(all, cut + 1, Len(all))

\* remove, for each of ts.
OrphanDrop(os, ts) ==
    FoldLeft(LAMBDA kept, o : IF o.tx \in ts THEN kept ELSE Append(kept, o), << >>, os)

\* evict_expired: what stays.
OrphansDue == OrphanDrop(orphans,
    {o.tx : o \in {x \in ToSet(orphans) : x.arrival < now - MaxOrphanTime}})

-----------------------------------------------------------------------------
(* evict_expired *)

Expired == {t \in Entries : now - pool.entries[t].arrival > MaxTime}

Older(t, u) == pool.entries[t].arrival < pool.entries[u].arrival
               \/ t \in pool.entries[u].anc

\* The ids are listed first and each is removed with its descendants; one that
\* a former removal took along raises KeyError.
ExpiryRaises == \E t, u \in Expired : u \in pool.entries[t].desc

Unexpired == RemoveEntries(pool, WithDescendants(pool, Expired))

\* What the exception leaves: the entries before the one that raises are gone.
\* The list is in the order of insertion, which arrival times and ancestry fix
\* up to the order of unrelated entries.
ExpireAndRaise ==
    /\ ExpiryRaises
    /\ \E done \in SUBSET Expired : \E u \in Expired :
        /\ u \in WithDescendants(pool, done) \ done
        /\ \A t, v \in done : v \notin pool.entries[t].desc
        /\ \A t \in done : ~ Older(u, t)
        /\ \A v \in Expired \ (done \cup {u}) :
              \A t \in done \cup {u} : ~ Older(v, t)
        /\ pool' = RemoveEntries(pool, WithDescendants(pool, done))
    /\ confirming' = << >> /\ parents' = << >> /\ retrying' = << >>
    /\ UNCHANGED <<forks, confirmed, orphans, floor, floorAt, now>>

-----------------------------------------------------------------------------
(* accept_tx(t); left are the popped orphans still to be retried.  p is the *)
(* pool after the expired entries are gone.                                 *)

BadOutput(p, t) ==
    \E i \in Ins[t] : i.tx \in DOMAIN p.entries /\ i.n >= Outs[i.tx]

Missing(p, t) ==
    {i \in Ins[t] : i.tx \notin DOMAIN p.entries /\ i \notin Coins[confirmed]}

\* Known or malformed, or an output its parent does not have.
Refusable(p, t) ==
    \/ t \in DOMAIN p.entries
    \/ Flaw[t] = "coinbase"
    \/ BadOutput(p, t)
    \/ Missing(p, t) = {} /\ Flaw[t] # "none"

Evicted(p, t) == WithDescendants(p, Conflicts(p, t))

Admissible(p, t) ==
    /\ PaysFloor(t)
    /\ Conflicts(p, t) # {} => ReplacementOk(p, t)
    /\ LET gone == IF Conflicts(p, t) = {} THEN {} ELSE Evicted(p, t)
       IN  WithinPackageLimits(p, t, Ancestors(p, t, gone), gone)

\* Reading the rolling fee writes its decayed value back.
ReadFloor ==
    /\ floor' = Decayed
    /\ floorAt' = IF floor = NoFloor THEN floorAt ELSE now

Return(left) == retrying' = left /\ UNCHANGED <<forks, confirmed, confirming, now>>

Refuse(p, t, left) ==
    /\ Refusable(p, t)
    /\ pool' = p
    /\ orphans' = OrphansDue
    /\ Return(left)
    /\ UNCHANGED <<floor, floorAt, parents>>

KeepOrphan(p, t, left) ==
    /\ ~ Refusable(p, t)
    /\ Missing(p, t) # {}
    /\ pool' = p
    /\ orphans' = OrphanAdd(OrphansDue, t, {i.tx : i \in Missing(p, t)})
    /\ Return(left)
    /\ UNCHANGED <<floor, floorAt, parents>>

RefuseByPolicy(p, t, left) ==
    /\ ~ Refusable(p, t)
    /\ Missing(p, t) = {}
    /\ ~ Admissible(p, t)
    /\ pool' = p
    /\ orphans' = OrphansDue
    /\ ReadFloor
    /\ Return(left)
    /\ UNCHANGED parents

\* Conflicts go, the transaction comes, the pool is trimmed - which may take
\* the transaction out again, and then no orphan is looked at.
Admit(p, t, left) ==
    /\ ~ Refusable(p, t)
    /\ Missing(p, t) = {}
    /\ Admissible(p, t)
    /\ \E added \in {Insert(RemoveEntries(p, Evicted(p, t)), t,
                           Ancestors(p, t, Evicted(p, t)))} :
       \E packs \in {Trimmed(added)} :
          /\ pool' = RemoveEntries(added, UNION ToSet(packs))
          /\ floor' = FloorAfter(packs, Decayed)
          /\ floorAt' = IF packs = << >> /\ floor = NoFloor THEN floorAt ELSE now
    /\ IF t \in Entries'
       THEN /\ orphans' = OrphanDrop(OrphansDue, {t})
            /\ parents' = Append(parents, t)
       ELSE orphans' = OrphansDue /\ UNCHANGED parents
    /\ Return(left)

AcceptTx(t, left) ==
    \/ ExpireAndRaise
    \/ /\ ~ ExpiryRaises
       /\ \E p \in {Unexpired} :
            \/ Refuse(p, t, left)
            \/ KeepOrphan(p, t, left)
            \/ RefuseByPolicy(p, t, left)
            \/ Admit(p, t, left)

Quiet == confirming = << >> /\ parents = << >> /\ retrying = << >>

\* submit_tx: from a peer or from the API.
Submit == Quiet /\ \E t \in Txs : AcceptTx(t, << >>)

-----------------------------------------------------------------------------
(* _reconsider_orphans *)

\* Fault: the orphan stays at the head of those to be retried.
RetryAgain == retrying # << >> /\ AcceptTx(Head(retrying), retrying)

Retry == retrying # << >> /\ AcceptTx(Head(retrying), Tail(retrying))

\* pop_dependents: the orphans waiting for the next new parent, in the order of
\* a hash set.
PopDependents ==
    /\ retrying = << >>
    /\ parents # << >>
    /\ LET waiting == {o.tx : o \in {x \in ToSet(orphans) : Head(parents) \in x.missing}}
       IN  /\ \E order \in SetToSeqs(waiting) : retrying' = order
           /\ orphans' = OrphanDrop(orphans, waiting)
    /\ parents' = Tail(parents)
    /\ UNCHANGED <<forks, confirmed, pool, floor, floorAt, confirming, now>>

-----------------------------------------------------------------------------
(* confirm_block, after the chain has taken the block *)

\* A transaction of the block leaves the pool, its descendants stay.
ConfirmNext ==
    /\ retrying = << >> /\ parents = << >>
    /\ confirming # << >>
    /\ LET t == Head(confirming)
       IN  /\ pool' = RemoveEntries(pool, {t} \cap Entries)
           /\ parents' = <<t>>
    /\ confirming' = Tail(confirming)
    /\ UNCHANGED <<forks, confirmed, orphans, floor, floorAt, retrying, now>>

\* The orders in which a valid block can hold ts: parents first.
BlockOrders(ts) ==
    {o \in SetToSeqs(ts) :
        \A i, j \in DOMAIN o : o[i] \in Parents(o[j]) => i < j}

Confirm(orders) ==
    /\ confirming' \in orders
    /\ UNCHANGED <<pool, orphans, floor, floorAt, parents, retrying, now>>

BlockSets(max) == {ts \in SUBSET Txs : ts # {} /\ Cardinality(ts) <= max}

\* A block on top of the active chain.
Extend ==
    /\ Quiet
    /\ \E ts \in BlockSets(MaxBlock) :
        /\ ts \cap confirmed = {} /\ confirmed \cup ts \in Consistent
        /\ confirmed' = confirmed \cup ts
        /\ Confirm(BlockOrders(ts))
    /\ UNCHANGED forks

Fork == forks < MaxForks /\ forks' = forks + 1

\* A block off the active branch: stored without a look at its inputs.
StoreSideBlock ==
    /\ Quiet
    /\ Fork
    /\ \E ts \in BlockSets(MaxForkBlock) : Confirm(SetToSeqs(ts))
    /\ UNCHANGED confirmed

\* The branches a call that changes several blocks can lead to, when told is
\* what the block it returns for confirms: a common part stays, a block the
\* mempool is not told of is added.
Branches(told) ==
    {branch \in Consistent : \E common \in SUBSET (confirmed \cap branch) \cap Consistent :
        /\ told \subseteq branch \ common
        /\ branch \ (common \cup told) \in BlockSets(MaxForkBlock)}

\* One call changes several blocks of the active branch - a reorganisation, or
\* orphan blocks that follow the one submitted: the mempool is told of one, and
\* what only the old branch held is no longer confirmed.
SwitchBranch ==
    /\ Quiet
    /\ Fork
    /\ \E told \in BlockSets(MaxForkBlock) :
        /\ confirmed' \in Branches(told)
        /\ Confirm(BlockOrders(told))

Tick ==
    /\ now < MaxClock
    /\ now' = now + 1
    /\ UNCHANGED <<forks, confirmed, pool, orphans, floor, floorAt,
                   confirming, parents, retrying>>

Init ==
    /\ forks = 0
    /\ confirmed = {}
    /\ pool = [entries |-> << >>, spends |-> << >>]
    /\ orphans = << >>
    /\ floor = NoFloor
    /\ floorAt = 0
    /\ confirming = << >>
    /\ parents = << >>
    /\ retrying = << >>
    /\ now = 0

\* The steps of a call under way.
Running == Retry \/ PopDependents \/ ConfirmNext

Next ==
    \/ Submit
    \/ Running
    \/ Extend
    \/ StoreSideBlock
    \/ SwitchBranch
    \/ Tick

Spec == Init /\ [][Next]_vars
FairSpec == Spec /\ WF_vars(Running)

-----------------------------------------------------------------------------
(* What the pool must guarantee.  Each property is stated for the transactions *)
(* themselves, without the lists and the index the code keeps.                 *)

\* The variables hold values of their types, and no entry lists a transaction
\* that is not in the pool.
TypeOK ==
    /\ forks \in 0 .. MaxForks
    /\ confirmed \subseteq Txs
    /\ Entries \subseteq Txs
    /\ \A t \in Entries :
          /\ pool.entries[t] \in Entry
          /\ pool.entries[t].anc \cup pool.entries[t].desc \subseteq Entries \ {t}
    /\ \A k \in DOMAIN orphans :
          orphans[k].tx \in Txs /\ orphans[k].missing # {} /\ orphans[k].arrival <= now
    /\ floor.n \in Nat /\ floor.d \in Nat \ {0} /\ floorAt <= now
    /\ ToSet(confirming) \cup ToSet(parents) \cup ToSet(retrying) \subseteq Txs
    /\ now \in 0 .. MaxClock

\* The index of spent outpoints is exact, so that no two transactions of the
\* pool spend the same outpoint (_get_direct_conflicts relies on it, through
\* replacements, evictions, expiry and confirmations in any order).
SpendIndexExact ==
    /\ DOMAIN pool.spends = Inputs[Entries]
    /\ \A t \in Entries : \A i \in Ins[t] : pool.spends[i] = t

\* The ancestors of t among ts: its parents, theirs, and so on.
TrueAncestors(ts, t) ==
    LET within[k \in 1 .. Cardinality(ts) + 1] ==
            LET below == IF k = 1 THEN {t} ELSE within[k - 1]
            IN  below \cup UNION {Parents(u) \cap ts : u \in below}
    IN  within[Cardinality(ts) + 1] \ {t}

\* The transactions that the chain holds and a confirm_block which KeyError cut
\* short has left in the pool.
LeftBehind == (Entries \cap confirmed) \ ToSet(confirming)

\* The active chain has only grown, and the pool was told all of it.
Undisturbed == forks = 0 /\ LeftBehind = {}

\* While the active chain only grows and the pool follows it, every entry lists
\* exactly its transitive ancestors and descendants in the pool: what the limits,
\* the replacement rules, trimming and block templates read is the graph of the
\* transactions.
GraphExact ==
    Undisturbed => \A t \in Entries :
        /\ pool.entries[t].anc = TrueAncestors(Entries, t)
        /\ pool.entries[t].desc = {u \in Entries : t \in pool.entries[u].anc}

\* No package in the pool outgrows the limits of count and size, in either
\* direction, whatever was replaced, confirmed or evicted since.
PackagesBounded ==
    \A t \in Entries :
        LET entry == pool.entries[t]
        IN  /\ Cardinality(entry.anc) + 1 <= MaxAncestors
            /\ Size[entry.anc] + VBytes(t) <= MaxAncestorSize
            /\ Cardinality(entry.desc) + 1 <= MaxDescendants
            /\ Size[entry.desc] + VBytes(t) <= MaxDescendantSize

\* After every admission the pool is within its size.
SizeBounded == Size[Entries] <= MaxSize

\* The orphan pool respects both limits and never holds what the pool holds.
OrphansBounded ==
    /\ Bounded(orphans)
    /\ Held(orphans) \cap Entries = {}
    /\ \A i, j \in DOMAIN orphans : i # j => orphans[i].tx # orphans[j].tx

-----------------------------------------------------------------------------
(* Block templates *)

\* _topological_order.
Before(t, u) ==
    LET entry == pool.entries[t]
        other == pool.entries[u]
    IN  \/ Cardinality(entry.anc) < Cardinality(other.anc)
        \/ /\ Cardinality(entry.anc) = Cardinality(other.anc)
           /\ \/ entry.arrival < other.arrival
              \/ entry.arrival = other.arrival /\ Rank[t] < Rank[u]

\* ts in that order: at place k the one that k - 1 others come before.
Ordered(ts) ==
    [k \in 1 .. Cardinality(ts) |->
        CHOOSE t \in ts : Cardinality({u \in ts : Before(u, t)}) = k - 1]

\* Fault: an entry is taken without the ancestors that are still missing.
PackageAlone(t, taken) == {t}

\* What has to be taken with t.
Package(t, taken) == {t} \cup (pool.entries[t].anc \ taken)

\* get_block_template: the package with the best rate that still fits, again
\* and again.
Template ==
    LET rest[taken \in SUBSET Entries] ==
            LET fits == {t \in Entries \ taken :
                           Weights[taken \cup Package(t, taken)] <= MaxBlockWeight}
                best == CHOOSE t \in fits : \A u \in fits :
                           Cheaper(Package(u, taken), u, Package(t, taken), t)
            IN  IF fits = {} THEN << >>
                ELSE Ordered(Package(best, taken)) \o rest[taken \cup Package(best, taken)]
    IN  rest[{}]

\* While the active chain only grows and the pool follows it, a template holds a
\* transaction only after those of its parents that are in the pool, spends
\* nothing twice, holds nothing twice and fits a block
\* (docs/bitclone-development.md:142).
TemplateInOrder ==
    Undisturbed =>
        LET txs == Template
        IN  /\ FoldLeft(LAMBDA w, t : w + Weight[t], 0, txs) <= MaxBlockWeight
            /\ \A i \in DOMAIN txs :
                /\ \A p \in Parents(txs[i]) \cap Entries :
                      \E j \in 1 .. i - 1 : txs[j] = p
                /\ \A j \in 1 .. i - 1 : Ins[txs[i]] \cap Ins[txs[j]] = {}

-----------------------------------------------------------------------------
(* Replacement *)

\* The transactions that stay when the expired ones are gone.
Standing ==
    {t \in Entries : ({t} \cup TrueAncestors(Entries, t)) \cap Expired = {}}

\* Those of them that spend what t spends, and all that descend from these.
Rivals(t) == {u \in Standing : Ins[u] \cap Ins[t] # {}}
Replaced(t) == {u \in Standing : ({u} \cup TrueAncestors(Entries, u)) \cap Rivals(t) # {}}

\* While the active chain only grows and the pool follows it, a transaction that
\* takes the place of others pays at least the fees of all that leave the pool for
\* it, and for its own relay (the complete conflict set of docs/bitclone-development.md:143).
ReplacementPays ==
    [][\A t \in Entries' \ Entries :
          Undisturbed /\ Replaced(t) # {} => Fee[t] >= Fees[Replaced(t)] + MinFee * VBytes(t)]_vars

\* No transaction gives way to a rival unless it signals that it can be
\* replaced, or one of its ancestors in the pool does.
OnlyReplaceableReplaced ==
    [][\A t \in Entries' \ Entries : \A u \in Rivals(t) :
          Undisturbed => \E a \in {u} \cup TrueAncestors(Entries, u) : Signals[a]]_vars

\* Every call comes to its end, the loop over orphans included.
CallsReturn == []<>Quiet

=============================================================================
