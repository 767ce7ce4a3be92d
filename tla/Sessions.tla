------------------------------ MODULE Sessions -------------------------------
(***************************************************************************)
(* The connections of a node and the threads that make and end them: the   *)
(* peer manager's worker and the callers of connect_peer and accept_peer   *)
(* dial, the keepalive worker pings, readers receive, and each of them may *)
(* end a connection.  Transport._conns and Node._ready_peers are tables by *)
(* key, while every attempt makes a Peer object of its own, so an object   *)
(* can outlive the connection that was opened for it.                      *)
(*                                                                         *)
(* A step runs from one access of a shared table, one blocking socket call *)
(* or one lock to the next.  What the other end sends is any message.      *)
(* Clocks are replaced by the moment a deadline passes: a wait is a phase  *)
(* that an action of its own ends.                                         *)
(***************************************************************************)
EXTENDS Integers, FiniteSets

CONSTANTS
    Keys,           \* (host, port) of the peers
    Host,           \* the host of a key
    OutKeys,        \* the keys callers connect to
    InKeys,         \* the keys an inbound socket can come from
    Manager,        \* the worker of the peer manager
    Callers,        \* the threads that connect, accept and disconnect
    Keepalive,      \* the worker of the keepalive
    Readers,        \* the threads in receive_peer_message
    Known,          \* the keys in the address book after start
    Target,         \* target_outbound
    Weights,        \* the score of a violation: PeerMisbehaviour
    MaxPeers,       \* bound: the Peer objects a thread has in use for a key
    BanThreshold,   \* ban_threshold
    None

Dialers == {Manager} \cup Callers
\* A Peer object: its key, the thread that made it, and which of its objects it is.
Objs == [key : Keys, by : Dialers, n : 1..MaxPeers]

Threads == Dialers \cup {Keepalive} \cup Readers
Hosts   == {Host[k] : k \in Keys}

\* _classify_peer_error: what a failed exchange is taken for; "io" is not scored.
Faults == {"protocol", "malformed", "invalid", "io"}

ASSUME SessionsAssumption ==
    /\ None \notin Keys \cup Objs /\ IsFiniteSet(Keys)
    /\ Manager \notin Callers /\ Keepalive \notin Dialers
    /\ Readers \cap (Dialers \cup {Keepalive}) = {}
    /\ MaxPeers \in Nat \ {0}
    /\ InKeys \cup OutKeys \subseteq Keys /\ Known \subseteq Keys
    /\ Target \in Nat /\ BanThreshold \in Nat \ {0}
    /\ Weights \in [Faults \ {"io"} -> Nat \ {0}]

VARIABLES
    book,      \* the keys in the address book
    conns,     \* the keys in Transport._conns, whichever socket each has
    ready,     \* Node._ready_peers
    usable,    \* the objects in PeerState.READY; the other states go with pc
    pings,     \* PeerKeepalive._states: the object and the phase of its next event
    score,     \* PeerDiscipline._scores, at most BanThreshold
    banned,    \* PeerDiscipline._bans
    deferred,  \* the keys whose PeerManager._retry_at is in the future
    slots,     \* maintain of the peer manager: the slots it has left to fill
    todo,      \* and the candidates it has left
    due,       \* maintain of the keepalive: the peers it has read, then has left to ping
    pc,        \* where each thread is
    obj,       \* the Peer object it works on
    cut,       \* the objects it has left to take out of the registries
    mid        \* the one it is disconnecting

tables == <<book, conns, ready, usable, pings>>
policy == <<score, banned, deferred>>
work   == <<slots, todo, due>>
at     == <<pc, obj, cut, mid>>
vars   == <<tables, policy, work, at>>

TypeOK ==
    /\ book \in SUBSET Keys /\ conns \in SUBSET Keys
    /\ ready \in [Keys -> Objs \cup {None}]
    /\ usable \in SUBSET Objs
    /\ pings \in [Keys -> [peer : Objs, phase : {"waiting", "sent"}] \cup {None}]
    /\ score \in [Hosts -> 0..BanThreshold] /\ banned \in SUBSET Hosts
    /\ deferred \in SUBSET Keys
    /\ slots \in 0..Target /\ todo \in SUBSET Keys /\ due \in SUBSET Objs
    /\ pc \in [Threads -> {"idle", "scan", "open", "shake", "enrol",
                           "plan", "recv", "fail"}]
    /\ obj \in [Threads -> Objs \cup {None}]
    /\ cut \in [Threads -> SUBSET Objs]
    /\ mid \in [Threads -> Objs \cup {None}]

Init ==
    /\ book = Known /\ conns = {}
    /\ ready = [k \in Keys |-> None]
    /\ usable = {}
    /\ pings = [k \in Keys |-> None]
    /\ score = [h \in Hosts |-> 0] /\ banned = {} /\ deferred = {}
    /\ slots = 0 /\ todo = {} /\ due = {}
    /\ pc = [t \in Threads |-> "idle"]
    /\ obj = [t \in Threads |-> None]
    /\ cut = [t \in Threads |-> {}]
    /\ mid = [t \in Threads |-> None]

-----------------------------------------------------------------------------
(* What the operations read *)

\* Node.ready_peers, and those of them a worker takes into account.
ReadyPeers == {ready[k] : k \in Keys} \ {None}
Usable     == ReadyPeers \cap usable

\* A ping of the key is unanswered.
Outstanding(k) == pings[k] # None /\ pings[k].phase = "sent"

\* Node._is_ready_peer.
IsReady(o) == ready[o.key] = o /\ o \in usable

\* The objects something still refers to; a new one is the first that is not.
InUse(o) ==
    \/ o \in ReadyPeers \cup due
    \/ \E k \in Keys : pings[k] # None /\ pings[k].peer = o
    \/ \E t \in Threads : obj[t] = o \/ o \in cut[t] \/ mid[t] = o
NewPeer(d, k, o) ==
    /\ o.key = k /\ o.by = d
    /\ ~InUse(o) /\ \A n \in 1..(o.n - 1) : InUse([o EXCEPT !.n = n])

\* PeerAddressBook.add: every record of an address adds it first.
Book(k) == book' = book \cup {k}

\* PeerAddressBook.candidates, in any order: how they are ranked is left out.
Candidates == book \ {o.key : o \in Usable}

Goto(t, l)   == pc' = [pc EXCEPT ![t] = l]
At(t, l)     == pc[t] = l
Resume(t)    == IF t = Manager THEN "scan" ELSE "idle"

-----------------------------------------------------------------------------
(* Ending a connection: Node.disconnect_peer *)

\* It takes whatever is registered under the peer's key out of the ready
\* table, ...
CutRegistry(t) ==
    \E o \in cut[t] :
        /\ mid[t] = None
        /\ mid' = [mid EXCEPT ![t] = o]
        /\ ready' = [ready EXCEPT ![o.key] = None]
        /\ UNCHANGED <<book, conns, usable, pings, policy, work, pc, obj, cut>>

\* ... forgets the keepalive state of the key ...
CutPings(t) ==
    /\ mid[t] \in cut[t]
    /\ cut' = [cut EXCEPT ![t] = @ \ {mid[t]}]
    /\ pings' = [pings EXCEPT ![mid[t].key] = None]
    /\ UNCHANGED <<book, conns, ready, usable, policy, work, pc, obj, mid>>

\* ... and then closes whatever connection the key has.
CutSocket(t) ==
    /\ mid[t] # None /\ mid[t] \notin cut[t]
    /\ conns' = conns \ {mid[t].key}
    /\ Book(mid[t].key)
    /\ usable' = usable \ {mid[t]}
    /\ mid' = [mid EXCEPT ![t] = None]
    /\ UNCHANGED <<ready, pings, policy, work, pc, obj, cut>>

Cut(t) == CutRegistry(t) \/ CutPings(t) \/ CutSocket(t)
Cutting(t) == cut[t] # {} \/ mid[t] # None

\* PeerDiscipline.record: the score of the host, and the ban that may follow.
Record(h, fault) ==
    LET total == score[h] + Weights[fault]
    IN  /\ score' = [score EXCEPT ![h] = IF total > BanThreshold THEN BanThreshold ELSE total]
        /\ banned' = IF total >= BanThreshold THEN banned \cup {h} ELSE banned

\* Node._record_peer_misbehaviour: the violation is scored; when the host is
\* then banned, its other ready peers are disconnected first.
Punish(t, o, fault) ==
    /\ Goto(t, "fail")
    /\ IF fault = "io"
       THEN UNCHANGED <<score, banned>> /\ UNCHANGED cut
       ELSE /\ Record(Host[o.key], fault)
            /\ cut' = [cut EXCEPT ![t] =
                        {p \in ReadyPeers \ {o} : Host[p.key] \in banned'}]

-----------------------------------------------------------------------------
(* Dialling: Node.connect_peer and Transport.connect *)

\* The ban is checked, the address is booked, and a socket is opened only when
\* the key has no connection yet; otherwise the attempt goes on over that one.
Dial(d, k) ==
    \E o \in Objs :
        /\ NewPeer(d, k, o)
        /\ Host[k] \notin banned
        /\ obj' = [obj EXCEPT ![d] = o]
        /\ Book(k)
        /\ IF k \in conns
           THEN Goto(d, "shake")
           ELSE Goto(d, "open")
        /\ usable' = usable \ {o}
        /\ UNCHANGED <<conns, ready, pings, policy, due, cut, mid>>

\* PeerManager._schedule_retry.
Defer(k) == deferred' = deferred \cup {k}

\* connect_peer and the manager's handling of an attempt that raised.
Raised(d) ==
    /\ Goto(d, Resume(d))
    /\ obj' = [obj EXCEPT ![d] = None]
    /\ IF d = Manager THEN Defer(obj[d].key) ELSE UNCHANGED deferred

\* The blocking connect ends.  It is a failure only while the key has no
\* connection: one that another thread registered meanwhile is taken over, by a
\* socket in its place when the connect succeeded.
Opened(d) ==
    LET o == obj[d] IN
    /\ At(d, "open")
    /\ conns' = conns \cup {o.key}
    /\ Goto(d, "shake")
    /\ UNCHANGED <<book, ready, usable, pings, policy, work, obj, cut, mid>>

NotOpened(d) ==
    LET o == obj[d] IN
    /\ At(d, "open")
    /\ o.key \notin conns
    /\ Raised(d)
    /\ UNCHANGED <<book, conns, ready, usable, pings, score, banned, work, cut, mid>>

\* Our version is sent and the peer's is received, then the veracks.
Greeted(d) ==
    /\ At(d, "shake") /\ Goto(d, "enrol")
    /\ usable' = usable \cup {obj[d]}
    /\ obj[d].key \in conns
    /\ UNCHANGED <<book, conns, ready, pings, policy, work, obj, cut, mid>>

\* Any step of the handshake can fail, whoever's answer it was.
GreetingFails(d) ==
    /\ At(d, "shake")
    /\ \E fault \in Faults :
        /\ obj[d].key \notin conns => fault = "io"
        /\ Punish(d, obj[d], fault)
    /\ UNCHANGED <<tables, deferred, work, obj, mid>>

\* Fault: the connection is not closed.
DropAttemptOnly(d) ==
    /\ At(d, "fail") /\ ~Cutting(d)
    /\ usable' = usable \ {obj[d]}
    /\ Raised(d)
    /\ UNCHANGED <<book, conns, ready, pings, score, banned, work, cut, mid>>

\* record_failure and Transport.disconnect end the attempt.
DropAttempt(d) ==
    LET o == obj[d] IN
    /\ At(d, "fail") /\ ~Cutting(d)
    /\ conns' = conns \ {o.key}
    /\ usable' = usable \ {o}
    /\ Raised(d)
    /\ UNCHANGED <<book, ready, pings, score, banned, work, cut, mid>>

\* Fault: every new peer is counted as the manager's.
EnrolCountsAll(d) ==
    LET o == obj[d] IN
    /\ At(d, "enrol")
    /\ ready' = [ready EXCEPT ![o.key] = o]
    /\ obj' = [obj EXCEPT ![d] = None]
    /\ Goto(d, Resume(d))
    /\ deferred' = deferred \ {o.key} /\ slots' = slots - 1
    /\ UNCHANGED <<book, conns, usable, pings, score, banned, todo, due, cut, mid>>

\* Fault: the slot it fills is not counted.
EnrolUncounted(d) ==
    LET o == obj[d] IN
    /\ At(d, "enrol")
    /\ ready' = [ready EXCEPT ![o.key] = o]
    /\ obj' = [obj EXCEPT ![d] = None]
    /\ Goto(d, Resume(d))
    /\ UNCHANGED <<book, conns, usable, pings, policy, work, cut, mid>>

\* record_success, and the peer is registered.
Enrol(d) ==
    LET o == obj[d] IN
    /\ At(d, "enrol")
    /\ ready' = [ready EXCEPT ![o.key] = o]
    /\ obj' = [obj EXCEPT ![d] = None]
    /\ Goto(d, Resume(d))
    /\ IF d = Manager
       THEN deferred' = deferred \ {o.key} /\ slots' = slots - 1
       ELSE UNCHANGED <<deferred, slots>>
    /\ UNCHANGED <<book, conns, usable, pings, score, banned, todo, due, cut, mid>>

Connect(c, k) == At(c, "idle") /\ ~Cutting(c) /\ Dial(c, k) /\ UNCHANGED <<slots, todo>>

\* Node.accept_peer: the socket is there, and is refused when the key has one.
Accept(c, k) ==
    /\ At(c, "idle") /\ ~Cutting(c)
    /\ Host[k] \notin banned
    /\ k \notin conns
    /\ \E o \in Objs :
        /\ NewPeer(c, k, o)
        /\ obj' = [obj EXCEPT ![c] = o]
        /\ usable' = usable \ {o}
    /\ Book(k)
    /\ conns' = conns \cup {k}
    /\ Goto(c, "shake")
    /\ UNCHANGED <<ready, pings, policy, work, cut, mid>>

Greet(d) == Opened(d) \/ NotOpened(d) \/ Greeted(d) \/ GreetingFails(d) \/ DropAttempt(d) \/ Enrol(d)

-----------------------------------------------------------------------------
(* Filling the slots: PeerManager.maintain *)

OpenSlots == LET n == Cardinality(Usable) IN IF n < Target THEN Target - n ELSE 0

BeginPass ==
    /\ At(Manager, "idle")
    /\ OpenSlots > 0
    /\ slots' = OpenSlots
    /\ todo' = Candidates
    /\ Goto(Manager, "scan")
    /\ UNCHANGED <<tables, policy, due, obj, cut, mid>>

TryCandidate ==
    /\ At(Manager, "scan") /\ slots > 0
    /\ \E k \in todo \ deferred : todo' = todo \ {k} /\ Dial(Manager, k)
    /\ UNCHANGED slots

SkipCandidate ==
    /\ At(Manager, "scan") /\ slots > 0
    /\ \E k \in todo : (k \in deferred \/ Host[k] \in banned) /\ todo' = todo \ {k}
    /\ UNCHANGED <<tables, policy, slots, due, at>>

EndPass ==
    /\ At(Manager, "scan")
    /\ slots = 0 \/ todo = {}
    /\ slots' = 0 /\ todo' = {}
    /\ Goto(Manager, "idle")
    /\ UNCHANGED <<tables, policy, due, obj, cut, mid>>

Maintain == BeginPass \/ TryCandidate \/ SkipCandidate \/ EndPass

-----------------------------------------------------------------------------
(* Pinging: PeerKeepalive.maintain *)

\* When the last pass has nothing left to do, the ready peers are read ...
Survey ==
    /\ At(Keepalive, "idle") /\ due = {} /\ ~Cutting(Keepalive)
    /\ Usable # {} \/ \E k \in Keys : pings[k] # None
    /\ due' = Usable
    /\ Goto(Keepalive, "plan")
    /\ UNCHANGED <<tables, policy, slots, todo, obj, cut, mid>>

\* ... and then the lock is taken: states of keys that were not ready go, new
\* ones are made, those whose pong is late go and their peers are to be
\* disconnected, those whose interval is over are to be pinged.
PlanWith(toPing, late) ==
    LET seen == {o.key : o \in due}
        kept == [k \in Keys |->
                    IF k \notin seen THEN None
                    ELSE IF pings[k] # None THEN pings[k]
                    ELSE [peer |-> CHOOSE o \in due : o.key = k, phase |-> "waiting"]]
        Having(phase) == {k \in seen : kept[k].phase = phase}
    IN
    /\ Goto(Keepalive, "idle")
    /\ UNCHANGED <<book, conns, ready, usable, policy, slots, todo, obj, mid>>
    /\ toPing \subseteq Having("waiting") /\ late \subseteq Having("sent")
    /\ pings' = [k \in Keys |-> IF k \in late THEN None ELSE kept[k]]
    /\ cut' = [cut EXCEPT ![Keepalive] = {kept[k].peer : k \in late}]
    /\ due' = {kept[k].peer : k \in toPing}

Plan ==
    /\ At(Keepalive, "plan")
    /\ \E toPing, late \in SUBSET Keys : PlanWith(toPing, late)

\* The pass finds a deadline of a key without a connection gone by.
PlanStale(k) ==
    /\ At(Keepalive, "plan")
    /\ k \notin conns
    /\ \E toPing, late \in SUBSET Keys :
            k \in toPing \cup late /\ PlanWith(toPing, late)

\* Fault: the peer a ping fails on is left in the ready table.
PingForgets ==
    /\ At(Keepalive, "idle") /\ ~Cutting(Keepalive)
    /\ \E o \in due :
        /\ due' = due \ {o}
        /\ \/ /\ o.key \in conns
              /\ pings' = [pings EXCEPT ![o.key] =
                            [peer |-> IF @ = None THEN o ELSE @.peer, phase |-> "sent"]]
           \/ /\ pings' = [pings EXCEPT ![o.key] = None]
    /\ UNCHANGED <<book, conns, ready, usable, policy, slots, todo, at>>

\* ping: no nonce is outstanding, for nobody else sends pings.  A send that
\* fails takes the state away and the peer is disconnected.
Ping ==
    /\ At(Keepalive, "idle") /\ ~Cutting(Keepalive)
    /\ \E o \in due :
        /\ due' = due \ {o}
        /\ \/ /\ o.key \in conns
              /\ pings' = [pings EXCEPT ![o.key] =
                            [peer |-> IF @ = None THEN o ELSE @.peer, phase |-> "sent"]]
              /\ UNCHANGED cut
           \/ /\ pings' = [pings EXCEPT ![o.key] = None]
              /\ cut' = [cut EXCEPT ![Keepalive] = {o}]
    /\ UNCHANGED <<book, conns, ready, usable, policy, slots, todo, pc, obj, mid>>

Supervise == Survey \/ Plan \/ Ping

-----------------------------------------------------------------------------
(* Receiving: Node.receive_peer_message and handle_peer_message *)

Receive(r) ==
    /\ At(r, "idle") /\ ~Cutting(r)
    /\ \E o \in Usable : obj' = [obj EXCEPT ![r] = o]
    /\ Goto(r, "recv")
    /\ UNCHANGED <<tables, policy, work, cut, mid>>

\* A message that changes nothing here is handled, or a ping is answered.
Handled(r) ==
    /\ At(r, "recv")
    /\ IsReady(obj[r])
    /\ Goto(r, "idle") /\ obj' = [obj EXCEPT ![r] = None]
    /\ UNCHANGED <<tables, policy, work, cut, mid>>

\* handle_pong: the pong matches the outstanding nonce.
Ponged(r) ==
    LET k == obj[r].key IN
    /\ At(r, "recv")
    /\ IsReady(obj[r])
    /\ Outstanding(k)
    /\ pings' = [pings EXCEPT ![k].phase = "waiting"]
    /\ Goto(r, "idle") /\ obj' = [obj EXCEPT ![r] = None]
    /\ UNCHANGED <<book, conns, ready, usable, policy, work, cut, mid>>

\* Nothing comes, the peer is gone, or what came is refused.
ReceiveFails(r) ==
    /\ At(r, "recv")
    /\ \E fault \in Faults : Punish(r, obj[r], fault)
    /\ UNCHANGED <<tables, deferred, work, obj, mid>>

\* Fault: the reader leaves it to the keepalive to disconnect the peer.
DropSessionLater(r) ==
    /\ At(r, "fail") /\ ~Cutting(r)
    /\ usable' = usable \ {obj[r]}
    /\ obj' = [obj EXCEPT ![r] = None]
    /\ Goto(r, "idle")
    /\ UNCHANGED <<book, conns, ready, pings, policy, work, cut, mid>>

\* record_failure, then the reader disconnects its own object.
DropSession(r) ==
    LET o == obj[r] IN
    /\ At(r, "fail") /\ ~Cutting(r)
    /\ usable' = usable \ {o}
    /\ Book(o.key)
    /\ cut' = [cut EXCEPT ![r] = {o}]
    /\ obj' = [obj EXCEPT ![r] = None]
    /\ Goto(r, "idle")
    /\ UNCHANGED <<conns, ready, pings, policy, work, mid>>

Read(r) == Handled(r) \/ Ponged(r) \/ ReceiveFails(r) \/ DropSession(r)

-----------------------------------------------------------------------------
(* Deadlines *)

RetryDue(k) ==
    /\ k \in deferred
    /\ deferred' = deferred \ {k}
    /\ UNCHANGED <<tables, score, banned, work, at>>

\* PeerDiscipline._expire: the score goes with the ban.
BanLapses(h) ==
    /\ h \in banned
    /\ banned' = banned \ {h}
    /\ score' = [score EXCEPT ![h] = 0]
    /\ UNCHANGED <<tables, deferred, work, at>>

-----------------------------------------------------------------------------
\* What a thread does next once it has begun; the workers begin by themselves.
Step(t) ==
    \/ t \in Dialers /\ Greet(t)
    \/ t = Manager /\ Maintain
    \/ t = Keepalive /\ Supervise
    \/ t \in Readers /\ Read(t)
    \/ Cut(t)

Next ==
    \/ \E c \in Callers : \E k \in OutKeys : Connect(c, k)
    \/ \E c \in Callers : \E k \in InKeys : Accept(c, k)
    \/ \E r \in Readers : Receive(r)
    \/ \E t \in Threads : Step(t)
    \/ \E k \in Keys : RetryDue(k)
    \/ \E h \in Hosts : BanLapses(h)

Spec == Init /\ [][Next]_vars

\* The keepalive worker and a reader run on: blocking receives end (sockets have
\* a time-out), and the clock moves, so that a pass finds a deadline of a key
\* without a connection gone by.  Nothing makes a reader or a caller begin.
Fairness ==
    /\ WF_vars(Supervise \/ Cut(Keepalive))
    /\ \A r \in Readers : WF_vars(Read(r) \/ Cut(r))
    /\ \A k \in Keys : SF_vars(PlanStale(k))

FairSpec == Spec /\ Fairness

-----------------------------------------------------------------------------
(* Properties *)

\* A thread that will still close the connection of k, or register a peer for it.
WorksOn(t, k) ==
    \/ obj[t] # None /\ obj[t].key = k /\ pc[t] # "open"
    \/ mid[t] # None /\ mid[t].key = k
    \/ \E o \in cut[t] : o.key = k

\* A connection is never left behind: when it belongs to no registered peer,
\* some attempt is still using it or some thread is about to close it.
ConnectionsHeld ==
    \A k \in conns : ready[k] # None \/ \E t \in Threads : WorksOn(t, k)

\* A registered peer is ready, or the thread that failed on it is ending it.
RegisteredAreReady ==
    \A k \in Keys : ready[k] # None =>
        \/ ready[k] \in usable /\ ready[k].key = k
        \/ \E t \in Threads : WorksOn(t, k)

\* The manager never has more peers connected than it is to keep.
OutboundBounded ==
    Cardinality({o \in Usable : o.by = Manager}) <= Target

\* A peer that is registered over no connection does not stay so: the next ping
\* fails on it.
StaleAreCleared ==
    \A k \in Keys : (ready[k] # None /\ k \notin conns) ~> (ready[k] = None \/ k \in conns)
=============================================================================
