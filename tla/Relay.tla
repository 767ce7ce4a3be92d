-------------------------------- MODULE Relay --------------------------------
(***************************************************************************)
(* What a node does with the messages of its ready peers: transactions and *)
(* blocks are claimed for one peer, asked for, submitted and announced to  *)
(* the others, and block headers are synchronised from one peer.  A reader *)
(* handles the messages of each peer, while callers submit items, start a  *)
(* header synchronisation and disconnect peers; the tables of              *)
(* InflightInventory and HeaderSync are shared by all of them.             *)
(*                                                                         *)
(* A step runs from one access of a shared table or one send to the next;  *)
(* accepting an item and releasing its claim are one step.  How sessions   *)
(* begin is the subject of Sessions: here a peer is simply ready again,    *)
(* once the reader of its last session has done with the message it took.  *)
(***************************************************************************)
EXTENDS Integers, FiniteSets

CONSTANTS
    Peers,          \* the keys of the peers; each has a reader
    Honest,         \* those that answer what they are asked, and correctly
    Callers,        \* the other threads: RPC, the keepalive's, the manager's
    Items,          \* transactions and blocks, by inventory_key
    Top,            \* the headers an honest peer has, in full batches
    Starts,         \* bound: the items had at first, and how often what happens
                    \* unasked may happen from there
    None

Threads == Peers \cup Callers

ASSUME RelayAssumption ==
    /\ Honest \subseteq Peers
    /\ None \notin Threads \cup Items \cup [peer : Peers, late : BOOLEAN]
                   \cup [peer : Peers, next : {"claims", "sync", "close"}]
    /\ Top \in Nat
    /\ Starts \subseteq [have : SUBSET Items,
                         budget : [{"inv", "push", "drop", "start"} -> Nat]]

VARIABLES
    ready,     \* the keys in Node._ready_peers
    open,      \* the keys with a connection that works
    requests,  \* InflightInventory._requests: the owner, and whether it is too old
    freed,     \* history: the items a claim of which was given up as too old, or
               \* ended by an answer that was not its owner's
    dropped,   \* history: the items a claim of which ended with an earlier session
               \* of its owner, who was ready again
    have,      \* the items the mempool and the block chain have
    asked,     \* the items a peer was sent a getdata for and has not answered
    sync,      \* HeaderSync: state, peer_key, awaiting_headers
    best,      \* the height of the best header, in batches
    locators,  \* the getheaders a peer was sent and has not answered
    pc,        \* where a thread is
    left,      \* the items of an inv it has left, or the peers to announce to
    took,      \* the items it has claimed for the peer of that inv
    item,      \* the item it is about
    batch,     \* the headers it is about
    with,      \* the peer it synchronises with
    gone,      \* the peer it is disconnecting, and what it does next about that
    budget

tables == <<ready, open, requests, freed, dropped, have, asked>>
headers == <<sync, best, locators>>
locals == <<left, took, item, batch, with>>
vars   == <<tables, headers, pc, locals, gone, budget>>

States  == {"idle", "syncing", "complete", "failed"}
Batches == [valid : BOOLEAN, full : BOOLEAN, upto : 0..Top]
NoBatch == [valid |-> TRUE, full |-> FALSE, upto |-> 0]
Endings == [peer : Peers, next : {"claims", "sync", "close"}]

TypeOK ==
    /\ ready \subseteq Peers /\ open \subseteq Peers
    /\ requests \in [Items -> [peer : Peers, late : BOOLEAN] \cup {None}]
    /\ have \subseteq Items /\ freed \subseteq Items /\ dropped \subseteq Items
    /\ asked \in [Peers -> SUBSET Items]
    /\ sync \in [state : States, owner : Peers \cup {None}, awaiting : BOOLEAN]
    /\ best \in 0..Top
    /\ locators \in [Peers -> SUBSET (0..Top)]
    /\ pc \in [Threads -> {"idle", "inv", "claim", "submit", "tell", "start",
                           "begun", "next", "await", "headers", "fail"}]
    /\ left \in [Threads -> SUBSET (Items \cup Peers)]
    /\ took \in [Threads -> SUBSET Items]
    /\ item \in [Threads -> Items \cup {None}]
    /\ batch \in [Threads -> Batches]
    /\ with \in [Threads -> Peers \cup {None}]
    /\ gone \in [Threads -> Endings \cup {None}]

Init ==
    /\ ready = Peers /\ open = Peers
    /\ requests = [i \in Items |-> None]
    /\ \E s \in Starts : have = s.have /\ budget = s.budget
    /\ freed = {} /\ dropped = {}
    /\ asked = [p \in Peers |-> {}]
    /\ sync = [state |-> "idle", owner |-> None, awaiting |-> FALSE]
    /\ best = 0
    /\ locators = [p \in Peers |-> {}]
    /\ pc = [t \in Threads |-> "idle"]
    /\ left = [t \in Threads |-> {}] /\ took = [t \in Threads |-> {}]
    /\ item = [t \in Threads |-> None]
    /\ batch = [t \in Threads |-> NoBatch]
    /\ with = [t \in Threads |-> None]
    /\ gone = [t \in Threads |-> None]

At(t, l) == pc[t] = l /\ gone[t] = None
Goto(t, l) == pc' = [pc EXCEPT ![t] = l]

\* What happens unasked happens at most so often.
Spend(what) ==
    /\ budget[what] > 0
    /\ budget' = [budget EXCEPT ![what] = @ - 1]

\* The reader of a peer takes a message: receive_peer_message and
\* handle_peer_message refuse a peer that is not ready.
Hears(p) == At(p, "idle") /\ p \in ready /\ p \in open

-----------------------------------------------------------------------------
(* Disconnecting: Node.disconnect_peer *)

InFlight(i) == requests[i] # None

\* InflightInventory.release_key; that of a claim another thread holds is noted.
Release(these, by) ==
    /\ requests' = [i \in Items |-> IF i \in these THEN None ELSE requests[i]]
    /\ freed' = freed \cup {i \in these : InFlight(i) /\ requests[i].peer # by}
    /\ UNCHANGED dropped

\* The peer leaves the registry, whichever of its sessions is there ...
Disconnect(t, p) ==
    /\ ready' = ready \ {p}
    /\ gone' = [gone EXCEPT ![t] = [peer |-> p, next |-> "claims"]]
    /\ UNCHANGED <<open, requests, freed, dropped, have, asked, headers>>

\* The thread goes on with the disconnection of a peer.
Ends(t, p, step) == gone[t] = [peer |-> p, next |-> step]
Then(t, p, step) == gone' = [gone EXCEPT ![t] = [peer |-> p, next |-> step]]

\* ... then its claims go: release_peer, whichever of its sessions made them ...
ReleasePeer(t, p) ==
    LET owned == {i \in Items : InFlight(i) /\ requests[i].peer = p} IN
    /\ Ends(t, p, "claims")
    /\ requests' = [i \in Items |-> IF i \in owned THEN None ELSE requests[i]]
    /\ dropped' = IF p \in ready THEN dropped \cup owned ELSE dropped
    /\ Then(t, p, "sync")
    /\ UNCHANGED <<ready, open, freed, have, asked, headers, pc, locals, budget>>

\* Fault: the synchronisation stays with the peer that is gone.
SyncKeeps(t, p) ==
    /\ Ends(t, p, "sync")
    /\ Then(t, p, "close")
    /\ UNCHANGED <<tables, headers, pc, locals, budget>>

\* ... then its synchronisation: HeaderSync.peer_disconnected ...
SyncLoses(t, p) ==
    /\ Ends(t, p, "sync")
    /\ sync' = IF sync.owner = p /\ sync.state = "syncing"
               THEN [state |-> "idle", owner |-> None, awaiting |-> FALSE]
               ELSE sync
    /\ Then(t, p, "close")
    /\ UNCHANGED <<tables, best, locators, pc, locals, budget>>

\* ... and last its connection is closed, with all that is on its way.
Close(t, p) ==
    /\ Ends(t, p, "close")
    /\ open' = open \ {p}
    /\ asked' = [asked EXCEPT ![p] = {}]
    /\ locators' = [locators EXCEPT ![p] = {}]
    /\ gone' = [gone EXCEPT ![t] = None]
    /\ UNCHANGED <<ready, requests, freed, dropped, have, sync, best, pc, locals, budget>>

\* A reader ends the session that failed.
Fail(p) ==
    /\ At(p, "fail")
    /\ Disconnect(p, p)
    /\ Goto(p, "idle")
    /\ UNCHANGED <<locals, budget>>

\* A caller, the keepalive or a ban ends one.
Drop(c, p) ==
    /\ At(c, "idle") /\ p \in ready
    /\ Spend("drop")
    /\ Disconnect(c, p)
    /\ UNCHANGED <<pc, locals>>

\* The connection is gone, or nothing comes before the time-out of the socket:
\* from a peer that owes nothing, or from one that does not answer.  Of a peer that
\* is not ready any more a message will do.
Silent(p) ==
    /\ At(p, "idle") /\ p \in ready \cup open
    /\ p \in ready \cap open \cap Honest => asked[p] = {} /\ locators[p] = {}
    /\ Goto(p, "fail")
    /\ UNCHANGED <<tables, headers, locals, gone, budget>>

\* handle_peer_message, addr: it is passed on to other peers, and when that fails
\* the session it came from is the one that ends.
HearAddr(p) ==
    /\ Hears(p)
    /\ \E q \in ready \ {p} : q \notin open
    /\ Goto(p, "fail")
    /\ UNCHANGED <<tables, headers, locals, gone, budget>>

\* Sessions: the peer is connected again.
Reconnect(p) ==
    /\ p \notin ready \cup open
    /\ At(p, "idle")
    /\ ready' = ready \cup {p} /\ open' = open \cup {p}
    /\ UNCHANGED <<requests, freed, dropped, have, asked, headers, pc, locals, gone, budget>>

-----------------------------------------------------------------------------
(* Asking for items: Node._handle_inv and InflightInventory *)

HearInv(p, these) ==
    /\ Hears(p)
    /\ IF p \in Honest THEN UNCHANGED budget ELSE Spend("inv")
    /\ left' = [left EXCEPT ![p] = these]
    /\ took' = [took EXCEPT ![p] = {}]
    /\ Goto(p, "inv")
    /\ UNCHANGED <<tables, headers, item, batch, with, gone>>

\* An item the node has is passed over; of another the claim comes next.
LookAt(p) ==
    /\ At(p, "inv")
    /\ \E i \in left[p] :
        /\ left' = [left EXCEPT ![p] = @ \ {i}]
        /\ IF i \in have
           THEN UNCHANGED <<pc, item>>
           ELSE Goto(p, "claim") /\ item' = [item EXCEPT ![p] = i]
    /\ UNCHANGED <<tables, headers, took, batch, with, gone, budget>>

\* InflightInventory._expire_locked.
Unexpired(i) == IF InFlight(i) /\ requests[i].late THEN None ELSE requests[i]

\* Fault: a request that is too old still stands in the way.
ClaimForever(p) ==
    /\ At(p, "claim")
    /\ LET i == item[p] IN
        IF requests[i] = None
        THEN /\ requests' = [requests EXCEPT ![i] = [peer |-> p, late |-> FALSE]]
             /\ took' = [took EXCEPT ![p] = @ \cup {i}]
        ELSE UNCHANGED <<requests, took>>
    /\ item' = [item EXCEPT ![p] = None]
    /\ Goto(p, "inv")
    /\ UNCHANGED <<ready, open, freed, dropped, have, asked, headers, left, batch,
                   with, gone, budget>>

\* Fault: an item in flight is claimed again.
ClaimAnyway(p) ==
    /\ At(p, "claim")
    /\ requests' = [requests EXCEPT ![item[p]] = [peer |-> p, late |-> FALSE]]
    /\ took' = [took EXCEPT ![p] = @ \cup {item[p]}]
    /\ item' = [item EXCEPT ![p] = None]
    /\ Goto(p, "inv")
    /\ UNCHANGED <<ready, open, freed, dropped, have, asked, headers, left, batch,
                   with, gone, budget>>

\* claim: requests that are too old go first, whoever's they are.
Claim(p) ==
    /\ At(p, "claim")
    /\ LET i == item[p]
           now == [j \in Items |-> Unexpired(j)]
       IN IF now[i] = None
          THEN /\ requests' = [now EXCEPT ![i] = [peer |-> p, late |-> FALSE]]
               /\ took' = [took EXCEPT ![p] = @ \cup {i}]
          ELSE requests' = now /\ UNCHANGED took
    /\ item' = [item EXCEPT ![p] = None]
    /\ Goto(p, "inv")
    /\ UNCHANGED <<ready, open, freed, dropped, have, asked, headers, left, batch,
                   with, gone, budget>>

\* One getdata asks for everything claimed; when it cannot be sent the claims of
\* these items are released, whoever holds them by now, and the session fails.
Ask(p) ==
    /\ At(p, "inv") /\ left[p] = {}
    /\ \/ /\ took[p] = {} \/ p \in open
          /\ asked' = [asked EXCEPT ![p] = @ \cup took[p]]
          /\ Goto(p, "idle")
          /\ UNCHANGED <<requests, freed, dropped>>
       \/ /\ took[p] # {} /\ (p \in open => p \notin Honest)
          /\ Release(took[p], p)
          /\ Goto(p, "fail")
          /\ UNCHANGED asked
    /\ took' = [took EXCEPT ![p] = {}]
    /\ UNCHANGED <<ready, open, have, headers, left, item, batch, with, gone, budget>>

\* requested_at lies the time-out back.
TooOld(i) ==
    /\ InFlight(i)
    /\ requests' = [requests EXCEPT ![i].late = TRUE]
    /\ freed' = freed \cup {i}
    /\ UNCHANGED <<ready, open, dropped, have, asked, headers, pc, locals, gone, budget>>

\* A notfound releases the claim of an item, whoever holds it.
HearNotFound(p, i) ==
    /\ Hears(p) /\ p \notin Honest
    /\ i \in asked[p] \/ InFlight(i)
    /\ Release({i}, IF i \in asked[p] THEN p ELSE None)
    /\ asked' = [asked EXCEPT ![p] = @ \ {i}]
    /\ UNCHANGED <<ready, open, have, headers, pc, locals, gone, budget>>

-----------------------------------------------------------------------------
(* Taking items: the rest of handle_peer_message, submit_tx and submit_block *)

\* A transaction or a block arrives; only an honest peer waits to be asked.
HearItem(p, i) ==
    /\ Hears(p)
    /\ IF i \in asked[p] THEN UNCHANGED budget ELSE p \notin Honest /\ Spend("push")
    /\ Release({i}, IF i \in asked[p] THEN p ELSE None)
    /\ asked' = [asked EXCEPT ![p] = @ \ {i}]
    /\ item' = [item EXCEPT ![p] = i]
    /\ Goto(p, "submit")
    /\ UNCHANGED <<ready, open, have, headers, left, took, batch, with, gone>>

\* A caller submits one of its own.
HandIn(c, i) ==
    /\ At(c, "idle")
    /\ Spend("push")
    /\ item' = [item EXCEPT ![c] = i]
    /\ Goto(c, "submit")
    /\ UNCHANGED <<tables, headers, left, took, batch, with, gone>>

\* It is accepted: released, and to be announced to the peers ready now except
\* the one it came from.
Accepted(t) ==
    LET i == item[t] IN
    /\ At(t, "submit") /\ i \notin have
    /\ have' = have \cup {i}
    /\ Release({i}, t)
    /\ left' = [left EXCEPT ![t] = ready \ {t}]
    /\ Goto(t, "tell")
    /\ UNCHANGED <<ready, open, asked, headers, took, item, batch, with, gone, budget>>

\* The node has it, or its body is not valid, which no honest peer's is.
Rejected(t) ==
    /\ At(t, "submit")
    /\ t \in Honest => item[t] \in have
    /\ item' = [item EXCEPT ![t] = None]
    /\ Goto(t, "idle")
    /\ UNCHANGED <<tables, headers, left, took, batch, with, gone, budget>>

\* _announce_inventory: a peer it cannot be sent to is disconnected, and the
\* others are still told.
Tell(t) ==
    /\ At(t, "tell")
    /\ \E q \in left[t] :
        /\ left' = [left EXCEPT ![t] = @ \ {q}]
        /\ \/ /\ q \in open
              /\ UNCHANGED <<tables, headers, gone>>
           \/ /\ q \in open => q \notin Honest
              /\ Disconnect(t, q)
    /\ UNCHANGED <<pc, took, item, batch, with, budget>>

Told(t) ==
    /\ At(t, "tell") /\ left[t] = {}
    /\ item' = [item EXCEPT ![t] = None]
    /\ Goto(t, "idle")
    /\ UNCHANGED <<tables, headers, left, took, batch, with, gone, budget>>

-----------------------------------------------------------------------------
(* Synchronising headers: Node.start_header_sync and HeaderSync *)

\* The peer is ready when it is looked up ...
StartSync(c, p) ==
    /\ At(c, "idle") /\ p \in ready
    /\ Spend("start")
    /\ with' = [with EXCEPT ![c] = p]
    /\ Goto(c, "start")
    /\ UNCHANGED <<tables, headers, left, took, item, batch, gone>>

\* ... and the owner when the synchronisation starts.
Begin(c) ==
    /\ At(c, "start")
    /\ sync' = [sync EXCEPT !.state = "syncing", !.owner = with[c]]
    /\ Goto(c, "next")
    /\ UNCHANGED <<tables, best, locators, locals, gone, budget>>

\* _request_next: the locator is sent, and then the answer is awaited.
Request(t) ==
    LET p == with[t] IN
    /\ At(t, "next")
    /\ \/ /\ p \in open
          /\ locators' = [locators EXCEPT ![p] = @ \cup {best}]
          /\ Goto(t, "await")
          /\ UNCHANGED with
       \/ /\ p \in open => p \notin Honest
          /\ Goto(t, IF t \in Peers THEN "fail" ELSE "idle")
          /\ with' = [with EXCEPT ![t] = None]
          /\ UNCHANGED locators
    /\ UNCHANGED <<tables, sync, best, left, took, item, batch, gone, budget>>

Await(t) ==
    /\ At(t, "await")
    /\ sync' = [sync EXCEPT !.awaiting = TRUE]
    /\ with' = [with EXCEPT ![t] = None]
    /\ Goto(t, "idle")
    /\ UNCHANGED <<tables, best, locators, left, took, item, batch, gone, budget>>

\* What an honest peer answers to a locator.
Answer(from) == [valid |-> TRUE, full |-> from + 1 < Top, upto |-> IF from < Top THEN from + 1 ELSE Top]

\* handle_headers: headers that nobody waits for are a fault of the peer.
HearHeaders(p, from, b) ==
    /\ Hears(p) /\ from \in locators[p]
    /\ p \in Honest => b = Answer(from)
    /\ locators' = [locators EXCEPT ![p] = @ \ {from}]
    /\ IF sync.state = "syncing" /\ sync.owner = p /\ sync.awaiting
       THEN /\ sync' = [sync EXCEPT !.awaiting = FALSE]
            /\ batch' = [batch EXCEPT ![p] = b]
            /\ Goto(p, "headers")
       ELSE Goto(p, "fail") /\ UNCHANGED <<sync, batch>>
    /\ UNCHANGED <<tables, best, left, took, item, with, gone, budget>>

\* Fault: every batch is taken for new headers.
StoreAgain(p) ==
    LET b == batch[p] IN
    /\ At(p, "headers")
    /\ batch' = [batch EXCEPT ![p] = NoBatch]
    /\ best' = IF b.valid /\ b.upto > 0 THEN best + 1 ELSE best
    /\ IF b.valid /\ b.full
       THEN Goto(p, "next") /\ with' = [with EXCEPT ![p] = p] /\ UNCHANGED sync
       ELSE sync' = [sync EXCEPT !.state = "complete"] /\ Goto(p, "idle") /\ UNCHANGED with
    /\ UNCHANGED <<tables, locators, left, took, item, gone, budget>>

\* The batch is stored; a full one asks for the next, any other ends it.
Store(p) ==
    LET b == batch[p] IN
    /\ At(p, "headers")
    /\ batch' = [batch EXCEPT ![p] = NoBatch]
    /\ best' = IF b.valid /\ b.upto > best THEN b.upto ELSE best
    /\ \/ /\ ~b.valid
          /\ sync' = [sync EXCEPT !.state = "failed"] /\ Goto(p, "fail") /\ UNCHANGED with
       \/ /\ b.valid /\ b.full
          /\ Goto(p, "next") /\ with' = [with EXCEPT ![p] = p] /\ UNCHANGED sync
       \/ /\ b.valid /\ ~b.full
          /\ sync' = [sync EXCEPT !.state = "complete"] /\ Goto(p, "idle") /\ UNCHANGED with
    /\ UNCHANGED <<tables, locators, left, took, item, gone, budget>>

-----------------------------------------------------------------------------
\* What a thread goes on with.
Work(t) ==
    \/ \E p \in Peers : ReleasePeer(t, p) \/ SyncLoses(t, p) \/ Close(t, p)
    \/ Accepted(t) \/ Rejected(t) \/ Tell(t) \/ Told(t)
    \/ Request(t) \/ Await(t)
    \/ t \in Callers /\ Begin(t)
    \/ t \in Peers /\ (Fail(t) \/ LookAt(t) \/ Claim(t) \/ Ask(t) \/ Store(t))

Next ==
    \/ \E t \in Threads : Work(t)
    \/ \E p \in Peers : Silent(p) \/ HearAddr(p) \/ Reconnect(p)
    \/ \E p \in Peers : \E these \in SUBSET Items \ {{}} : HearInv(p, these)
    \/ \E p \in Peers, i \in Items : HearItem(p, i) \/ HearNotFound(p, i)
    \/ \E p \in Peers, from \in 0..Top, b \in Batches : HearHeaders(p, from, b)
    \/ \E i \in Items : TooOld(i)
    \/ \E c \in Callers : \/ \E i \in Items : HandIn(c, i)
                          \/ \E p \in Peers : Drop(c, p) \/ StartSync(c, p)

Spec == Init /\ [][Next]_vars

\* Threads go on, the clock goes on, and an honest peer comes back, announces
\* what it has, and answers; its reader reads on, and gives up when nothing comes.
Fairness ==
    /\ \A t \in Threads : WF_vars(Work(t))
    /\ \A i \in Items : WF_vars(TooOld(i))
    /\ \A p \in Honest :
        /\ WF_vars(Reconnect(p))
        /\ WF_vars(Silent(p))
        /\ \A i \in Items : SF_vars(HearInv(p, {i})) /\ SF_vars(HearItem(p, i))
        /\ \A from \in 0..Top : SF_vars(HearHeaders(p, from, Answer(from)))

FairSpec == Spec /\ Fairness

-----------------------------------------------------------------------------
(* Properties *)

\* No two ready peers are asked for an item at once.
Alone(i) == \A p, q \in ready : i \in asked[p] \cap asked[q] => p = q

\* InflightInventory: an item the node lacks is asked of two ready peers at once
\* only after a request for it was given up as too old, was ended by an answer of
\* another peer, or was dropped with a session of its owner that was over.
AskedOnce == \A i \in Items \ (have \cup freed \cup dropped) : Alone(i)

\* InflightInventory says that requests are deduplicated until delivery or time-out,
\* and release_peer that it releases those of a disconnected peer: an item the node
\* lacks would be asked of two ready peers only after one of the first two.
AskedUntilAnswered == \A i \in Items \ (have \cup freed) : Alone(i)

\* An item an honest peer keeps announcing is fetched, whatever another peer has
\* claimed and never sent.
Delivered == \A i \in Items : Honest # {} => <>(i \in have)

\* A synchronisation of which a getheaders is with an honest, ready peer ends:
\* by its last answer, or because the peer is disconnected or replaced.
SyncEnds ==
    \A p \in Honest :
        LET OwnedBy == sync.state = "syncing" /\ sync.owner = p
        IN  (OwnedBy /\ p \in ready /\ locators[p] # {}) ~> ~OwnedBy
==============================================================================
