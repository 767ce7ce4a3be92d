---------------------------- MODULE Sessions_proofs ----------------------------
(***************************************************************************)
(* No connection is left behind, a registered peer is ready or about to be *)
(* disconnected, and the manager keeps to its target: for any set of peers, *)
(* callers and readers, in any order of their steps.                       *)
(***************************************************************************)
EXTENDS Sessions, FiniteSetTheorems, TLAPS

Attempting == {"open", "shake", "enrol", "fail"}

\* Which thread can be where, and that it has an object while it needs one.
Roles ==
    /\ \A d \in Dialers : pc[d] \in {"idle", "scan"} \cup Attempting
    /\ \A r \in Readers : pc[r] \in {"idle", "recv", "fail"}
    /\ pc[Keepalive] \in {"idle", "plan"}
    /\ \A t \in Threads : obj[t] # None <=> pc[t] \in Attempting \cup {"recv"}

\* A thread has objects left to disconnect only where it sees to them before it
\* gets others.
Cuts ==
    \A t \in Threads : Cutting(t) =>
        \/ pc[t] = "fail"
        \/ t \in Readers \cup {Keepalive} /\ pc[t] = "idle"

Pinged(o) == \E k \in Keys : pings[k] # None /\ pings[k].peer = o

\* Something other than an attempt refers to the object.
Held(o) ==
    \/ o \in ReadyPeers \cup due \/ Pinged(o)
    \/ \E t \in Threads : o \in cut[t] \/ mid[t] = o
    \/ \E r \in Readers : obj[r] = o

\* The object of an attempt is its own thread's, and nothing else refers to it.
Fresh == \A d \in Dialers : obj[d] # None => obj[d].by = d /\ ~Held(obj[d])

\* An object that is being disconnected is out of the ready table.
Gone == \A t \in Threads : mid[t] # None => mid[t] \notin ReadyPeers

\* A registered peer is under its own key, and ready or about to be disconnected;
\* one that is about to be registered is ready.
Registered ==
    /\ \A k \in Keys : ready[k] # None =>
        /\ ready[k].key = k
        /\ ready[k] \in usable \/ \E t \in Threads : ready[k] \in cut[t]
    /\ \A d \in Dialers : pc[d] = "enrol" => obj[d] \in usable

\* The slots the manager has left fit beside the peers it has connected.
OfManager == {o \in Usable : o.by = Manager}
Slots ==
    /\ pc[Manager] \in Attempting => slots > 0
    /\ Cardinality(OfManager) + slots <= Target

IInv ==
    /\ TypeOK /\ Roles /\ Cuts /\ Fresh /\ Gone /\ Registered /\ Slots
    /\ ConnectionsHeld

-----------------------------------------------------------------------------
(* Types *)

\* The roles of the threads are apart.
LEMMA ThreadFacts ==
  /\ Manager \in Dialers /\ Manager \in Threads /\ Keepalive \in Threads
  /\ Callers \subseteq Dialers /\ Dialers \subseteq Threads /\ Readers \subseteq Threads
  /\ Manager \notin Callers /\ Keepalive \notin Dialers /\ Keepalive \notin Readers
  /\ \A r \in Readers : r \notin Dialers /\ r # Keepalive
  BY SessionsAssumption DEF Dialers, Threads

\* An object has a key with a host, and the thread that made it.
LEMMA ObjFacts ==
  /\ None \notin Objs
  /\ \A o \in Objs : o.key \in Keys /\ o.by \in Dialers /\ Host[o.key] \in Hosts
  BY SessionsAssumption DEF Objs, Hosts

\* Scores stay within the threshold.
LEMMA RecordType ==
  ASSUME TypeOK, NEW h \in Hosts, NEW fault \in Faults, fault # "io", Record(h, fault)
  PROVE  score' \in [Hosts -> 0..BanThreshold] /\ banned' \in SUBSET Hosts
  <1>1. score[h] \in 0..BanThreshold /\ Weights[fault] \in Nat /\ BanThreshold \in Nat
    BY SessionsAssumption DEF TypeOK
  <1>2. PICK total : total = score[h] + Weights[fault] OBVIOUS
  <1>3. total \in Nat BY <1>1, <1>2
  <1>4. (IF total > BanThreshold THEN BanThreshold ELSE total) \in 0..BanThreshold
    BY <1>1, <1>3
  <1>5. score' = [score EXCEPT ![h] = IF total > BanThreshold THEN BanThreshold ELSE total]
    BY <1>2 DEF Record
  <1>6. banned' \in SUBSET Hosts BY DEF Record, TypeOK
  <1> QED BY <1>4, <1>5, <1>6 DEF TypeOK

\* A failed exchange adds registered peers, and only those, to what its thread has to
\* disconnect.
LEMMA PunishType ==
  ASSUME TypeOK, NEW t \in Threads, NEW o \in Objs, NEW fault \in Faults, Punish(t, o, fault)
  PROVE  /\ score' \in [Hosts -> 0..BanThreshold] /\ banned' \in SUBSET Hosts
         /\ cut' \in [Threads -> SUBSET Objs]
         /\ pc' = [pc EXCEPT ![t] = "fail"]
         /\ \A u \in Threads \ {t} : cut'[u] = cut[u]
         /\ cut'[t] \subseteq cut[t] \cup (ReadyPeers \ {o})
  <1>1. pc' = [pc EXCEPT ![t] = "fail"] BY DEF Punish, Goto
  <1>2. Host[o.key] \in Hosts BY ObjFacts
  <1>3. ReadyPeers \subseteq Objs BY DEF ReadyPeers, TypeOK
  <1>4. CASE fault = "io" BY <1>1, <1>4 DEF Punish, TypeOK
  <1>5. CASE fault # "io"
    <2>1. Record(Host[o.key], fault)
      BY <1>5 DEF Punish
    <2>2. cut' = [cut EXCEPT ![t] = {p \in ReadyPeers \ {o} : Host[p.key] \in banned'}]
      BY <1>5 DEF Punish
    <2>3. {p \in ReadyPeers \ {o} : Host[p.key] \in banned'} \in SUBSET Objs BY <1>3
    <2>4. cut' \in [Threads -> SUBSET Objs] BY <2>2, <2>3 DEF TypeOK
    <2>5. cut'[t] = {p \in ReadyPeers \ {o} : Host[p.key] \in banned'} BY <2>2 DEF TypeOK
    <2>6. \A u \in Threads \ {t} : cut'[u] = cut[u] BY <2>2 DEF TypeOK
    <2> QED BY <1>1, <1>2, <2>1, <2>4, <2>5, <2>6, <1>5, RecordType
  <1> QED BY <1>4, <1>5

\* What a pass of the keepalive plans with is the peers it has just read.
LEMMA PlanFacts ==
  ASSUME TypeOK, NEW toPing \in SUBSET Keys, NEW late \in SUBSET Keys, PlanWith(toPing, late)
  PROVE  /\ pings' \in [Keys -> [peer : Objs, phase : {"waiting", "sent"}] \cup {None}]
         /\ \A k \in Keys : pings'[k] # None =>
               pings'[k].peer \in due \/ Pinged(pings'[k].peer)
         /\ \A o \in due' : o \in due \/ Pinged(o)
         /\ \E gone : /\ cut' = [cut EXCEPT ![Keepalive] = gone]
                      /\ gone \in SUBSET Objs
                      /\ \A o \in gone : o \in due \/ Pinged(o)
         /\ due' \in SUBSET Objs
         /\ pc' = [pc EXCEPT ![Keepalive] = "idle"]
         /\ UNCHANGED <<book, conns, ready, usable, policy, slots, todo, obj, mid>>
  <1> DEFINE State == [peer : Objs, phase : {"waiting", "sent"}]
             seen == {o.key : o \in due}
             fresh(k) == [peer |-> CHOOSE o \in due : o.key = k, phase |-> "waiting"]
             kept == [k \in Keys |->
                    IF k \notin seen THEN None
                    ELSE IF pings[k] # None THEN pings[k]
                    ELSE [peer |-> CHOOSE o \in due : o.key = k, phase |-> "waiting"]]
  <1>1. due \subseteq Objs BY DEF TypeOK
  <1>2. \A k \in seen : k \in Keys /\ (CHOOSE o \in due : o.key = k) \in due
    BY <1>1, ObjFacts
  <1>3. ASSUME NEW k \in seen
        PROVE  /\ kept[k] \in State
               /\ kept[k].peer \in due \/ Pinged(kept[k].peer)
    <2>1. k \in Keys /\ (CHOOSE o \in due : o.key = k) \in due BY <1>2
    <2>2. CASE pings[k] # None
      <3>1. kept[k] = pings[k] BY <2>1, <2>2
      <3>2. pings[k] \in State BY <2>1, <2>2 DEF TypeOK
      <3> QED BY <2>1, <2>2, <3>1, <3>2 DEF Pinged
    <2>3. CASE pings[k] = None
      <3>1. PICK o : o = CHOOSE p \in due : p.key = k OBVIOUS
      <3>2. kept[k] = [peer |-> o, phase |-> "waiting"] BY <2>1, <2>3, <3>1
      <3>3. o \in due BY <2>1, <3>1
      <3> QED BY <1>1, <3>2, <3>3
    <2> QED BY <2>2, <2>3
  <1>4. \A k \in Keys : k \notin seen => kept[k] = None OBVIOUS
  <1>5. /\ toPing \subseteq seen /\ late \subseteq seen
        /\ pings' = [k \in Keys |-> IF k \in late THEN None ELSE kept[k]]
        /\ cut' = [cut EXCEPT ![Keepalive] = {kept[k].peer : k \in late}]
        /\ due' = {kept[k].peer : k \in toPing}
        /\ pc' = [pc EXCEPT ![Keepalive] = "idle"]
        /\ UNCHANGED <<book, conns, ready, usable, policy, slots, todo, obj, mid>>
    BY DEF PlanWith, Goto
  <1> HIDE DEF kept, seen
  <1>6. \A k \in seen : kept[k].peer \in Objs BY <1>3
  <1>7. pings' \in [Keys -> State \cup {None}]
    <2>1. \A k \in Keys : kept[k] \in State \cup {None} BY <1>3, <1>4
    <2> QED BY <1>5, <2>1
  <1>8. \A k \in Keys : pings'[k] # None => k \in seen /\ pings'[k] = kept[k] BY <1>4, <1>5
  <1>9. \A o \in due' : o \in Objs /\ (o \in due \/ Pinged(o)) BY <1>3, <1>5, <1>6
  <1>10. PICK gone : gone = {kept[k].peer : k \in late} OBVIOUS
  <1>11. gone \in SUBSET Objs /\ \A o \in gone : o \in due \/ Pinged(o)
    BY <1>3, <1>5, <1>6, <1>10
  <1>12. \A k \in Keys : pings'[k] # None =>
               pings'[k].peer \in due \/ Pinged(pings'[k].peer) BY <1>3, <1>8
  <1> QED BY <1>5, <1>7, <1>9, <1>10, <1>11, <1>12

-----------------------------------------------------------------------------
(* Every action keeps the types *)

\* The object of an attempt and of a reader, and the slot a manager's attempt has.
LEMMA HeldFacts ==
  ASSUME IInv, NEW t \in Threads, pc[t] \in Attempting \cup {"recv"}
  PROVE  /\ obj[t] \in Objs /\ obj[t] # None /\ obj[t].key \in Keys
         /\ t = Manager => slots \in 1..Target /\ slots - 1 \in 0..Target
  <1>1. obj[t] \in Objs /\ obj[t] # None BY DEF IInv, TypeOK, Roles
  <1>2. ASSUME t = Manager PROVE slots \in 1..Target /\ slots - 1 \in 0..Target
    <2>1. t # Keepalive /\ t \notin Readers /\ t \in Dialers BY <1>2, ThreadFacts
    <2>2. pc[t] # "recv" BY <2>1 DEF IInv, Roles, Attempting
    <2>3. slots > 0 /\ slots \in 0..Target BY <1>2, <2>2 DEF IInv, TypeOK, Slots
    <2> QED BY <2>3, SessionsAssumption
  <1> QED BY <1>1, <1>2, ObjFacts

\* A manager counts finitely many peers, and fills no more slots than it has.
LEMMA UsableFacts ==
  ASSUME TypeOK
  PROVE  /\ IsFiniteSet(Usable) /\ Cardinality(Usable) \in Nat /\ Usable \subseteq Objs
         /\ IsFiniteSet(OfManager) /\ Cardinality(OfManager) \in Nat
         /\ Cardinality(OfManager) <= Cardinality(Usable)
         /\ OpenSlots \in 0..Target
         /\ OpenSlots > 0 => OpenSlots + Cardinality(OfManager) <= Target
  <1>1. IsFiniteSet({ready[k] : k \in Keys})
    <2>1. ready \in Surjection(Keys, {ready[k] : k \in Keys}) BY DEF Surjection, TypeOK
    <2> QED BY <2>1, SessionsAssumption, FS_Surjection
  <1>2. Usable \subseteq {ready[k] : k \in Keys} BY DEF Usable, ReadyPeers
  <1>3. IsFiniteSet(Usable) BY <1>1, <1>2, FS_Subset
  <1>4. OfManager \subseteq Usable BY DEF OfManager
  <1>5. IsFiniteSet(OfManager) /\ Cardinality(OfManager) <= Cardinality(Usable)
    BY <1>3, <1>4, FS_Subset
  <1>6. Cardinality(Usable) \in Nat /\ Cardinality(OfManager) \in Nat
    BY <1>3, <1>5, FS_CardinalityType
  <1>7. Usable \subseteq Objs BY DEF Usable, ReadyPeers, TypeOK
  <1>8. OpenSlots = IF Cardinality(Usable) < Target THEN Target - Cardinality(Usable) ELSE 0
    BY DEF OpenSlots
  <1>9. Target \in Nat BY SessionsAssumption
  <1> QED BY <1>3, <1>5, <1>6, <1>7, <1>8, <1>9

\* Ending a connection keeps the types.
LEMMA CutType ==
  ASSUME IInv, NEW t \in Threads, Cut(t)
  PROVE  TypeOK'
  <1>1. CASE CutRegistry(t)
    <2>1. PICK o \in cut[t] :
              /\ mid' = [mid EXCEPT ![t] = o]
              /\ ready' = [ready EXCEPT ![o.key] = None]
      BY <1>1 DEF CutRegistry
    <2>2. o \in Objs BY DEF IInv, TypeOK
    <2>3. UNCHANGED <<book, conns, usable, pings, policy, work, pc, obj, cut>>
      BY <1>1 DEF CutRegistry
    <2>4. mid' \in [Threads -> Objs \cup {None}] BY <2>1, <2>2 DEF IInv, TypeOK
    <2>5. ready' \in [Keys -> Objs \cup {None}] BY <2>1, <2>2 DEF IInv, TypeOK
    <2> QED BY <2>3, <2>4, <2>5 DEF IInv, TypeOK, policy, work
  <1>2. CASE CutPings(t)
    <2>1. /\ cut' = [cut EXCEPT ![t] = @ \ {mid[t]}]
          /\ pings' = [pings EXCEPT ![mid[t].key] = None]
          /\ UNCHANGED <<book, conns, ready, usable, policy, work, pc, obj, mid>>
      BY <1>2 DEF CutPings
    <2>2. cut' \in [Threads -> SUBSET Objs] BY <2>1 DEF IInv, TypeOK
    <2>3. pings' \in [Keys -> [peer : Objs, phase : {"waiting", "sent"}] \cup {None}]
      BY <2>1 DEF IInv, TypeOK
    <2> QED BY <2>1, <2>2, <2>3 DEF IInv, TypeOK, policy, work
  <1>3. CASE CutSocket(t)
    <2>1. mid[t] \in Objs /\ mid[t].key \in Keys BY <1>3, ObjFacts DEF CutSocket, IInv, TypeOK
    <2> QED BY <1>3, <2>1 DEF CutSocket, Book, IInv, TypeOK, policy, work
  <1> QED BY <1>1, <1>2, <1>3 DEF Cut

\* Beginning an attempt keeps the types.
LEMMA DialType ==
  ASSUME IInv, NEW d \in Dialers, NEW k \in Keys, Dial(d, k),
         slots' \in 0..Target, todo' \in SUBSET Keys
  PROVE  TypeOK'
  <1>1. PICK o \in Objs : obj' = [obj EXCEPT ![d] = o] /\ usable' = usable \ {o}
    BY DEF Dial
  <1>2. pc' = [pc EXCEPT ![d] = "shake"] \/ pc' = [pc EXCEPT ![d] = "open"]
    BY DEF Dial, Goto
  <1>3. book' = book \cup {k} /\ UNCHANGED <<conns, ready, pings, policy, due, cut, mid>>
    BY DEF Dial, Book
  <1>4. d \in Threads BY ThreadFacts
  <1>5. pc' \in [Threads -> {"idle", "scan", "open", "shake", "enrol",
                             "plan", "recv", "fail"}]
    BY <1>2, <1>4 DEF IInv, TypeOK
  <1>6. obj' \in [Threads -> Objs \cup {None}] BY <1>1, <1>4 DEF IInv, TypeOK
  <1> QED BY <1>1, <1>3, <1>5, <1>6 DEF IInv, TypeOK, policy

\* Accepting keeps the types.
LEMMA AcceptType ==
  ASSUME IInv, NEW c \in Callers, NEW k \in Keys, Accept(c, k)
  PROVE  TypeOK'
  <1>1. PICK o \in Objs : obj' = [obj EXCEPT ![c] = o] /\ usable' = usable \ {o}
    BY DEF Accept
  <1>2. /\ pc' = [pc EXCEPT ![c] = "shake"] /\ book' = book \cup {k} /\ conns' = conns \cup {k}
        /\ UNCHANGED <<ready, pings, policy, work, cut, mid>>
    BY DEF Accept, Goto, Book
  <1>3. c \in Threads BY ThreadFacts
  <1>4. pc' \in [Threads -> {"idle", "scan", "open", "shake", "enrol",
                             "plan", "recv", "fail"}]
    BY <1>2, <1>3 DEF IInv, TypeOK
  <1>5. obj' \in [Threads -> Objs \cup {None}] BY <1>1, <1>3 DEF IInv, TypeOK
  <1> QED BY <1>1, <1>2, <1>4, <1>5 DEF IInv, TypeOK, policy, work

\* An attempt that raised leaves its thread without an object.
LEMMA RaisedType ==
  ASSUME IInv, NEW d \in Dialers, pc[d] \in Attempting, Raised(d)
  PROVE  /\ pc' \in [Threads -> {"idle", "scan", "open", "shake", "enrol",
                                 "plan", "recv", "fail"}]
         /\ obj' \in [Threads -> Objs \cup {None}] /\ deferred' \in SUBSET Keys
         /\ pc' = [pc EXCEPT ![d] = Resume(d)] /\ obj' = [obj EXCEPT ![d] = None]
  <1>1. /\ pc' = [pc EXCEPT ![d] = Resume(d)] /\ obj' = [obj EXCEPT ![d] = None]
        /\ deferred' = deferred \/ deferred' = deferred \cup {obj[d].key}
    BY DEF Raised, Goto, Defer
  <1>2. d \in Threads BY ThreadFacts
  <1>3. obj[d].key \in Keys BY <1>2, HeldFacts
  <1>4. Resume(d) \in {"idle", "scan"} BY DEF Resume
  <1> QED BY <1>1, <1>2, <1>3, <1>4 DEF IInv, TypeOK

\* The steps of an attempt keep the types.
LEMMA GreetType ==
  ASSUME IInv, NEW d \in Dialers, Greet(d)
  PROVE  TypeOK'
  <1> USE DEF At
  <1>0. d \in Threads BY ThreadFacts
  <1>1. CASE Opened(d)
    <2>1. pc[d] \in Attempting BY <1>1 DEF Opened, Attempting
    <2>2. obj[d].key \in Keys BY <1>0, <2>1, HeldFacts
    <2>3. pc' = [pc EXCEPT ![d] = "shake"] /\ conns' = conns \cup {obj[d].key}
      BY <1>1 DEF Opened, Goto
    <2> QED BY <1>0, <1>1, <2>2, <2>3 DEF Opened, IInv, TypeOK, policy, work
  <1>2. CASE NotOpened(d)
    <2>1. pc[d] \in Attempting BY <1>2 DEF NotOpened, Attempting
    <2>2. /\ Raised(d)
          /\ UNCHANGED <<book, conns, ready, usable, pings, score, banned, work, cut, mid>>
      BY <1>2 DEF NotOpened
    <2> QED BY <2>1, <2>2, RaisedType DEF IInv, TypeOK, work
  <1>3. CASE Greeted(d)
    <2>1. pc[d] \in Attempting BY <1>3 DEF Greeted, Attempting
    <2>2. obj[d] \in Objs BY <1>0, <2>1, HeldFacts
    <2>3. pc' = [pc EXCEPT ![d] = "enrol"] /\ usable' = usable \cup {obj[d]}
      BY <1>3 DEF Greeted, Goto
    <2> QED BY <1>0, <1>3, <2>2, <2>3 DEF Greeted, IInv, TypeOK, policy, work
  <1>4. CASE GreetingFails(d)
    <2>1. pc[d] \in Attempting BY <1>4 DEF GreetingFails, Attempting
    <2>2. obj[d] \in Objs BY <1>0, <2>1, HeldFacts
    <2>3. PICK fault \in Faults : Punish(d, obj[d], fault) BY <1>4 DEF GreetingFails
    <2>4. UNCHANGED <<tables, deferred, work, obj, mid>> BY <1>4 DEF GreetingFails
    <2>5. TypeOK BY DEF IInv
    <2>6. /\ score' \in [Hosts -> 0..BanThreshold] /\ banned' \in SUBSET Hosts
          /\ cut' \in [Threads -> SUBSET Objs] /\ pc' = [pc EXCEPT ![d] = "fail"]
      BY <1>0, <2>2, <2>3, <2>5, PunishType
    <2> QED BY <1>0, <2>4, <2>5, <2>6 DEF TypeOK, tables, work
  <1>5. CASE DropAttempt(d)
    <2>1. pc[d] \in Attempting BY <1>5 DEF DropAttempt, Attempting
    <2>2. /\ Raised(d) /\ conns' = conns \ {obj[d].key} /\ usable' = usable \ {obj[d]}
          /\ UNCHANGED <<book, ready, pings, score, banned, work, cut, mid>>
      BY <1>5 DEF DropAttempt
    <2> QED BY <2>1, <2>2, RaisedType DEF IInv, TypeOK, work
  <1>6. CASE Enrol(d)
    <2>1. pc[d] \in Attempting BY <1>6 DEF Enrol, Attempting
    <2>2. obj[d] \in Objs /\ obj[d].key \in Keys /\ (d = Manager => slots - 1 \in 0..Target)
      BY <1>0, <2>1, HeldFacts
    <2>3. /\ ready' = [ready EXCEPT ![obj[d].key] = obj[d]]
          /\ obj' = [obj EXCEPT ![d] = None] /\ pc' = [pc EXCEPT ![d] = Resume(d)]
          /\ \/ d = Manager /\ slots' = slots - 1 /\ deferred' = deferred \ {obj[d].key}
             \/ slots' = slots /\ deferred' = deferred
          /\ UNCHANGED <<book, conns, usable, pings, score, banned, todo, due, cut, mid>>
      BY <1>6 DEF Enrol, Goto
    <2>4. ready' \in [Keys -> Objs \cup {None}] BY <2>2, <2>3 DEF IInv, TypeOK
    <2>5. slots' \in 0..Target /\ deferred' \in SUBSET Keys BY <2>2, <2>3 DEF IInv, TypeOK
    <2>6. Resume(d) \in {"idle", "scan"} BY DEF Resume
    <2>7. pc' \in [Threads -> {"idle", "scan", "open", "shake", "enrol",
                               "plan", "recv", "fail"}]
      BY <1>0, <2>3, <2>6 DEF IInv, TypeOK
    <2>8. obj' \in [Threads -> Objs \cup {None}] BY <1>0, <2>3 DEF IInv, TypeOK
    <2> QED BY <2>3, <2>4, <2>5, <2>7, <2>8 DEF IInv, TypeOK
  <1> QED BY <1>1, <1>2, <1>3, <1>4, <1>5, <1>6 DEF Greet

\* The manager's pass keeps the types.
LEMMA MaintainType ==
  ASSUME IInv, Maintain
  PROVE  TypeOK'
  <1> USE DEF At, Goto
  <1>0. Manager \in Threads /\ Manager \in Dialers /\ Target \in Nat
    BY ThreadFacts, SessionsAssumption
  <1>1. CASE BeginPass
    <2>1. slots' \in 0..Target BY <1>1, UsableFacts DEF BeginPass, IInv
    <2>2. todo' \in SUBSET Keys BY <1>1 DEF BeginPass, Candidates, IInv, TypeOK
    <2> QED BY <1>0, <1>1, <2>1, <2>2 DEF BeginPass, IInv, TypeOK, tables, policy
  <1>2. CASE TryCandidate
    <2>1. PICK k \in todo : todo' = todo \ {k} /\ Dial(Manager, k) /\ slots' = slots
      BY <1>2 DEF TryCandidate
    <2>2. k \in Keys /\ todo' \in SUBSET Keys /\ slots' \in 0..Target
      BY <2>1 DEF IInv, TypeOK
    <2> QED BY <1>0, <2>1, <2>2, DialType
  <1>3. CASE SkipCandidate
    BY <1>3 DEF SkipCandidate, IInv, TypeOK, tables, policy, at
  <1>4. CASE EndPass
    BY <1>0, <1>4 DEF EndPass, IInv, TypeOK, tables, policy
  <1> QED BY <1>1, <1>2, <1>3, <1>4 DEF Maintain

\* The keepalive's pass keeps the types.
LEMMA SuperviseType ==
  ASSUME IInv, Supervise
  PROVE  TypeOK'
  <1> USE DEF At, Goto
  <1>0. Keepalive \in Threads BY ThreadFacts
  <1>1. CASE Plan
    <2>1. PICK toPing \in SUBSET Keys, late \in SUBSET Keys : PlanWith(toPing, late)
      BY <1>1 DEF Plan
    <2>2. TypeOK BY DEF IInv
    <2>3. PICK gone : cut' = [cut EXCEPT ![Keepalive] = gone] /\ gone \in SUBSET Objs
      BY <2>1, <2>2, PlanFacts
    <2>4. /\ pings' \in [Keys -> [peer : Objs, phase : {"waiting", "sent"}] \cup {None}]
          /\ due' \in SUBSET Objs /\ pc' = [pc EXCEPT ![Keepalive] = "idle"]
          /\ UNCHANGED <<book, conns, ready, usable, policy, slots, todo, obj, mid>>
      BY <2>1, <2>2, PlanFacts
    <2> QED BY <1>0, <2>2, <2>3, <2>4 DEF TypeOK, policy
  <1>2. CASE Ping
    <2>1. PICK o \in due :
            /\ due' = due \ {o}
            /\ \/ /\ pings' = [pings EXCEPT ![o.key] =
                            [peer |-> IF @ = None THEN o ELSE @.peer, phase |-> "sent"]]
                  /\ UNCHANGED cut
               \/ /\ pings' = [pings EXCEPT ![o.key] = None]
                  /\ cut' = [cut EXCEPT ![Keepalive] = {o}]
      BY <1>2 DEF Ping
    <2>2. UNCHANGED <<book, conns, ready, usable, policy, slots, todo, pc, obj, mid>>
      BY <1>2 DEF Ping
    <2>3. o \in Objs /\ o.key \in Keys BY ObjFacts DEF IInv, TypeOK
    <2>4. PICK p : p = IF pings[o.key] = None THEN o ELSE pings[o.key].peer OBVIOUS
    <2>5. p \in Objs BY <2>3, <2>4 DEF IInv, TypeOK
    <2>6. \/ pings' = [pings EXCEPT ![o.key] = [peer |-> p, phase |-> "sent"]]
          \/ pings' = [pings EXCEPT ![o.key] = None]
      BY <2>1, <2>3, <2>4 DEF IInv, TypeOK
    <2>7. pings' \in [Keys -> [peer : Objs, phase : {"waiting", "sent"}] \cup {None}]
      BY <2>3, <2>5, <2>6 DEF IInv, TypeOK
    <2>8. cut' \in [Threads -> SUBSET Objs] BY <1>0, <2>1, <2>3 DEF IInv, TypeOK
    <2> QED BY <2>1, <2>2, <2>7, <2>8 DEF IInv, TypeOK, policy
  <1>3. CASE Survey
    <2>1. TypeOK BY DEF IInv
    <2>2. due' \in SUBSET Objs BY <1>3, <2>1, UsableFacts DEF Survey
    <2> QED BY <1>0, <1>3, <2>1, <2>2 DEF Survey, TypeOK, tables, policy
  <1> QED BY <1>1, <1>2, <1>3 DEF Supervise

\* Receiving keeps the types.
LEMMA ReadType ==
  ASSUME IInv, NEW r \in Readers, Read(r)
  PROVE  TypeOK'
  <1> USE DEF At, Goto
  <1>0. r \in Threads BY ThreadFacts
  <1>1. CASE Handled(r)
    BY <1>0, <1>1 DEF Handled, IInv, TypeOK, tables, policy, work
  <1>2. CASE Ponged(r)
    <2>1. pc[r] = "recv" BY <1>2 DEF Ponged
    <2>2. obj[r].key \in Keys BY <1>0, <2>1, HeldFacts
    <2>3. PICK k \in Keys : k = obj[r].key BY <2>2
    <2>4. pings[k] # None /\ pings' = [pings EXCEPT ![k].phase = "waiting"]
      BY <1>2, <2>3 DEF Ponged, Outstanding
    <2>5. pings' \in [Keys -> [peer : Objs, phase : {"waiting", "sent"}] \cup {None}]
      BY <2>4 DEF IInv, TypeOK
    <2> QED BY <1>0, <1>2, <2>5 DEF Ponged, IInv, TypeOK, policy, work
  <1>3. CASE ReceiveFails(r)
    <2>1. pc[r] = "recv" BY <1>3 DEF ReceiveFails
    <2>2. obj[r] \in Objs BY <1>0, <2>1, HeldFacts
    <2>3. PICK fault \in Faults : Punish(r, obj[r], fault) BY <1>3 DEF ReceiveFails
    <2>4. UNCHANGED <<tables, deferred, work, obj, mid>> BY <1>3 DEF ReceiveFails
    <2>5. TypeOK BY DEF IInv
    <2>6. /\ score' \in [Hosts -> 0..BanThreshold] /\ banned' \in SUBSET Hosts
          /\ cut' \in [Threads -> SUBSET Objs] /\ pc' = [pc EXCEPT ![r] = "fail"]
      BY <1>0, <2>2, <2>3, <2>5, PunishType
    <2> QED BY <1>0, <2>4, <2>5, <2>6 DEF TypeOK, tables, work
  <1>4. CASE DropSession(r)
    <2>1. pc[r] \in Attempting BY <1>4 DEF DropSession, Attempting
    <2>2. obj[r] \in Objs /\ obj[r].key \in Keys BY <1>0, <2>1, HeldFacts
    <2> QED BY <1>0, <1>4, <2>2 DEF DropSession, Book, IInv, TypeOK, policy, work
  <1> QED BY <1>1, <1>2, <1>3, <1>4 DEF Read

\* Every step keeps the types.
LEMMA TypeStep ==
  ASSUME IInv, Next
  PROVE  TypeOK'
  <1>1. ASSUME NEW c \in Callers, NEW k \in OutKeys, Connect(c, k) PROVE TypeOK'
    <2>1. Dial(c, k) /\ slots' = slots /\ todo' = todo BY <1>1 DEF Connect
    <2>2. c \in Dialers /\ k \in Keys BY ThreadFacts, SessionsAssumption
    <2>3. slots' \in 0..Target /\ todo' \in SUBSET Keys BY <2>1 DEF IInv, TypeOK
    <2> QED BY <2>1, <2>2, <2>3, DialType
  <1>2. ASSUME NEW c \in Callers, NEW k \in InKeys, Accept(c, k) PROVE TypeOK'
    BY <1>2, AcceptType, SessionsAssumption
  <1>3. ASSUME NEW r \in Readers, Receive(r) PROVE TypeOK'
    <2>1. PICK o \in Usable : obj' = [obj EXCEPT ![r] = o] BY <1>3 DEF Receive
    <2>2. o \in Objs BY UsableFacts DEF IInv
    <2>3. r \in Threads BY ThreadFacts
    <2> QED BY <1>3, <2>1, <2>2, <2>3 DEF Receive, Goto, IInv, TypeOK, tables, policy, work
  <1>4. ASSUME NEW k \in Keys, RetryDue(k) PROVE TypeOK'
    BY <1>4 DEF RetryDue, IInv, TypeOK, tables, work, at
  <1>5. ASSUME NEW h \in Hosts, BanLapses(h) PROVE TypeOK'
    <2>1. 0 \in 0..BanThreshold BY SessionsAssumption
    <2>2. score' \in [Hosts -> 0..BanThreshold] /\ banned' \in SUBSET Hosts
      BY <1>5, <2>1 DEF BanLapses, IInv, TypeOK
    <2> QED BY <1>5, <2>2 DEF BanLapses, IInv, TypeOK, tables, work, at
  <1>6. ASSUME NEW t \in Threads, Step(t) PROVE TypeOK'
    BY <1>6, GreetType, MaintainType, SuperviseType, ReadType, CutType DEF Step
  <1> QED BY <1>1, <1>2, <1>3, <1>4, <1>5, <1>6 DEF Next

-----------------------------------------------------------------------------
(* Where the threads are, and what they have left to disconnect *)

\* A step is one of these actions.
LEMMA StepCases ==
  ASSUME Next
  PROVE  \/ \E c \in Callers : \E k \in OutKeys : Connect(c, k)
         \/ \E c \in Callers : \E k \in InKeys : Accept(c, k)
         \/ \E d \in Dialers : \/ Opened(d) \/ NotOpened(d) \/ Greeted(d)
                               \/ GreetingFails(d) \/ DropAttempt(d) \/ Enrol(d)
         \/ BeginPass \/ TryCandidate \/ SkipCandidate \/ EndPass
         \/ Survey \/ Plan \/ Ping
         \/ \E r \in Readers : \/ Receive(r) \/ Handled(r) \/ Ponged(r)
                               \/ ReceiveFails(r) \/ DropSession(r)
         \/ \E t \in Threads : CutRegistry(t) \/ CutPings(t) \/ CutSocket(t)
         \/ \E k \in Keys : RetryDue(k)
         \/ \E h \in Hosts : BanLapses(h)
  BY DEF Next, Step, Greet, Maintain, Supervise, Read, Cut

\* What an attempt begins with.
LEMMA DialFacts ==
  ASSUME IInv, NEW d \in Dialers, NEW k \in Keys, Dial(d, k)
  PROVE  \E o \in Objs :
            /\ o.key = k /\ o.by = d /\ o # None /\ ~InUse(o)
            /\ obj' = [obj EXCEPT ![d] = o]
            /\ \/ k \notin conns /\ pc' = [pc EXCEPT ![d] = "open"]
               \/ k \in conns /\ pc' = [pc EXCEPT ![d] = "shake"]
            /\ usable' = usable \ {o}
            /\ conns' = conns /\ ready' = ready /\ pings' = pings /\ due' = due
            /\ cut' = cut /\ mid' = mid
  <1>1. PICK o \in Objs :
            /\ NewPeer(d, k, o)
            /\ obj' = [obj EXCEPT ![d] = o]
            /\ IF k \in conns THEN Goto(d, "shake") ELSE Goto(d, "open")
            /\ usable' = usable \ {o}
            /\ UNCHANGED <<conns, ready, pings, policy, due, cut, mid>>
    BY DEF Dial
  <1>2. o.key = k /\ o.by = d /\ o # None /\ ~InUse(o) BY <1>1, ObjFacts DEF NewPeer
  <1>3. \/ k \notin conns /\ pc' = [pc EXCEPT ![d] = "open"]
        \/ k \in conns /\ pc' = [pc EXCEPT ![d] = "shake"]
    BY <1>1 DEF Goto
  <1> QED BY <1>1, <1>2, <1>3

\* The manager dials a candidate with a slot left.
LEMMA TryFacts ==
  ASSUME IInv, TryCandidate
  PROVE  /\ pc[Manager] = "scan" /\ slots > 0 /\ slots' = slots
         /\ \E k \in Keys : Dial(Manager, k)
  BY DEF TryCandidate, At, IInv, TypeOK

\* A thread stays at the steps of its role, and has an object where it needs one.
LEMMA RolesStep ==
  ASSUME IInv, Next
  PROVE  Roles'
  <1> USE ThreadFacts DEF At, Goto
  <1>0. /\ Roles /\ None \notin Objs
        /\ pc \in [Threads -> {"idle", "scan", "open", "shake", "enrol",
                               "plan", "recv", "fail"}]
        /\ obj \in [Threads -> Objs \cup {None}] /\ TypeOK
    BY ObjFacts DEF IInv, TypeOK
  <1>1. ASSUME NEW d \in Dialers, NEW k \in Keys, Dial(d, k), pc[d] \in {"idle", "scan"}
        PROVE  Roles'
    <2>1. PICK o \in Objs : o # None /\ obj' = [obj EXCEPT ![d] = o] BY <1>1, DialFacts
    <2>2. pc' = [pc EXCEPT ![d] = "shake"] \/ pc' = [pc EXCEPT ![d] = "open"]
      BY <1>1, DialFacts
    <2> QED BY <1>0, <1>1, <2>1, <2>2 DEF Roles, Attempting
  <1>2. ASSUME NEW c \in Callers, NEW k \in OutKeys, Connect(c, k) PROVE Roles'
    BY <1>1, <1>2, SessionsAssumption DEF Connect
  <1>3. CASE TryCandidate BY <1>1, <1>3, TryFacts
  <1>4. ASSUME NEW c \in Callers, NEW k \in InKeys, Accept(c, k) PROVE Roles'
    <2>1. PICK o \in Objs : obj' = [obj EXCEPT ![c] = o] BY <1>4 DEF Accept
    <2>2. pc' = [pc EXCEPT ![c] = "shake"] BY <1>4 DEF Accept
    <2> QED BY <1>0, <2>1, <2>2 DEF Roles, Attempting
  <1>5. ASSUME NEW d \in Dialers, Opened(d) \/ Greeted(d) PROVE Roles'
    <2>1. /\ pc[d] \in Attempting /\ obj' = obj
          /\ pc' = [pc EXCEPT ![d] = "shake"] \/ pc' = [pc EXCEPT ![d] = "enrol"]
      BY <1>5 DEF Opened, Greeted, Attempting
    <2> QED BY <1>0, <2>1 DEF Roles, Attempting
  <1>6. ASSUME NEW d \in Dialers, NotOpened(d) \/ DropAttempt(d) \/ Enrol(d) PROVE Roles'
    <2>1. /\ pc' = [pc EXCEPT ![d] = Resume(d)] /\ obj' = [obj EXCEPT ![d] = None]
      BY <1>6 DEF NotOpened, DropAttempt, Enrol, Raised
    <2>2. Resume(d) \in {"idle", "scan"} BY DEF Resume
    <2> QED BY <1>0, <2>1, <2>2 DEF Roles, Attempting
  <1>7. ASSUME NEW t \in Dialers \cup Readers, NEW fault \in Faults, Punish(t, obj[t], fault),
               obj' = obj, pc[t] \in Attempting \cup {"recv"}
        PROVE  Roles'
    <2>1. pc' = [pc EXCEPT ![t] = "fail"] BY <1>7 DEF Punish
    <2> QED BY <1>0, <1>7, <2>1 DEF Roles, Attempting
  <1>8. ASSUME NEW d \in Dialers, GreetingFails(d) PROVE Roles'
    BY <1>7, <1>8 DEF GreetingFails, Attempting
  <1>9. ASSUME NEW r \in Readers, ReceiveFails(r) PROVE Roles'
    BY <1>7, <1>9 DEF ReceiveFails
  <1>10. CASE BeginPass \/ EndPass
    <2>1. /\ pc[Manager] \in {"idle", "scan"} /\ obj' = obj
          /\ pc' = [pc EXCEPT ![Manager] = "scan"] \/ pc' = [pc EXCEPT ![Manager] = "idle"]
      BY <1>10 DEF BeginPass, EndPass
    <2> QED BY <1>0, <2>1 DEF Roles, Attempting
  <1>11. CASE Survey \/ Plan
    <2>1. /\ obj' = obj
          /\ \E l \in {"plan", "idle"} : pc' = [pc EXCEPT ![Keepalive] = l]
      BY <1>11 DEF Survey, Plan, PlanWith
    <2> QED BY <1>0, <2>1 DEF Roles, Attempting
  <1>12. ASSUME NEW r \in Readers, Receive(r) PROVE Roles'
    <2>1. PICK o \in Usable : obj' = [obj EXCEPT ![r] = o] BY <1>12 DEF Receive
    <2>2. o \in Objs BY <1>0, UsableFacts
    <2>3. pc' = [pc EXCEPT ![r] = "recv"] BY <1>12 DEF Receive
    <2> QED BY <1>0, <2>1, <2>2, <2>3 DEF Roles, Attempting
  <1>13. ASSUME NEW r \in Readers, Handled(r) \/ Ponged(r) \/ DropSession(r) PROVE Roles'
    <2>1. pc' = [pc EXCEPT ![r] = "idle"] /\ obj' = [obj EXCEPT ![r] = None]
      BY <1>13 DEF Handled, Ponged, DropSession
    <2> QED BY <1>0, <2>1 DEF Roles, Attempting
  <1>14. ASSUME pc' = pc, obj' = obj PROVE Roles' BY <1>0, <1>14 DEF Roles
  <1>15. CASE SkipCandidate BY <1>14, <1>15 DEF SkipCandidate, at
  <1>16. CASE Ping BY <1>14, <1>16 DEF Ping
  <1>17. ASSUME NEW t \in Threads, CutRegistry(t) \/ CutPings(t) \/ CutSocket(t) PROVE Roles'
    BY <1>14, <1>17 DEF CutRegistry, CutPings, CutSocket
  <1>18. ASSUME NEW k, RetryDue(k) PROVE Roles' BY <1>14, <1>18 DEF RetryDue, at
  <1>19. ASSUME NEW h, BanLapses(h) PROVE Roles' BY <1>14, <1>19 DEF BanLapses, at
  <1> QED
    BY StepCases, <1>2, <1>3, <1>4, <1>5, <1>6, <1>8, <1>9, <1>10, <1>11, <1>12, <1>13,
       <1>15, <1>16, <1>17, <1>18, <1>19

\* The threads that get objects to disconnect have none left.
LEMMA CalmFacts ==
  ASSUME IInv, NEW t \in Threads,
         \/ pc[t] \in {"scan", "open", "shake", "enrol", "plan", "recv"}
         \/ t \in Dialers /\ pc[t] = "idle"
  PROVE  cut[t] = {} /\ mid[t] = None
  <1>1. ~Cutting(t) BY ThreadFacts DEF IInv, Cuts
  <1> QED BY <1>1 DEF Cutting

\* Nothing is left to disconnect where a thread gets more.
LEMMA CutsStep ==
  ASSUME IInv, Next
  PROVE  Cuts'
  <1> USE ThreadFacts DEF At, Goto
  <1>0. /\ Cuts
        /\ pc \in [Threads -> {"idle", "scan", "open", "shake", "enrol",
                               "plan", "recv", "fail"}]
        /\ cut \in [Threads -> SUBSET Objs] /\ mid \in [Threads -> Objs \cup {None}]
    BY DEF IInv, TypeOK
  <1>1. ASSUME NEW t \in Threads, NEW l, pc' = [pc EXCEPT ![t] = l], cut' = cut, mid' = mid,
               cut[t] = {} /\ mid[t] = None
        PROVE  Cuts'
    BY <1>0, <1>1 DEF Cuts, Cutting
  <1>2. ASSUME NEW d \in Dialers, NEW k \in Keys, Dial(d, k), pc[d] \in {"idle", "scan"}
        PROVE  Cuts'
    <2>1. /\ pc' = [pc EXCEPT ![d] = "shake"] \/ pc' = [pc EXCEPT ![d] = "open"]
          /\ cut' = cut /\ mid' = mid
      BY <1>2, DialFacts
    <2>2. cut[d] = {} /\ mid[d] = None BY <1>2, CalmFacts
    <2> QED BY <1>1, <2>1, <2>2
  <1>3. ASSUME NEW c \in Callers, NEW k \in OutKeys, Connect(c, k) PROVE Cuts'
    BY <1>2, <1>3, SessionsAssumption DEF Connect
  <1>4. CASE TryCandidate BY <1>2, <1>4, TryFacts
  <1>5. ASSUME NEW c \in Callers, NEW k \in InKeys, Accept(c, k) PROVE Cuts'
    <2>1. /\ pc' = [pc EXCEPT ![c] = "shake"] /\ cut' = cut /\ mid' = mid
          /\ cut[c] = {} /\ mid[c] = None
      BY <1>5 DEF Accept, Cutting
    <2> QED BY <1>1, <2>1
  <1>6. ASSUME NEW d \in Dialers, Opened(d) \/ NotOpened(d) \/ Greeted(d) \/ DropAttempt(d)
                                  \/ Enrol(d)
        PROVE  Cuts'
    <2>1. \E l : pc' = [pc EXCEPT ![d] = l]
      BY <1>6 DEF Opened, NotOpened, Greeted, DropAttempt, Enrol, Raised
    <2>2. cut' = cut /\ mid' = mid
      BY <1>6 DEF Opened, NotOpened, Greeted, DropAttempt, Enrol
    <2>3. pc[d] \in {"open", "shake", "enrol"} \/ ~Cutting(d)
      BY <1>6 DEF Opened, NotOpened, Greeted, DropAttempt, Enrol
    <2>4. cut[d] = {} /\ mid[d] = None BY <2>3, CalmFacts DEF Cutting
    <2> QED BY <1>1, <2>1, <2>2, <2>4
  <1>7. ASSUME NEW t \in Threads, NEW o \in Objs, NEW fault \in Faults, Punish(t, o, fault),
               mid' = mid
        PROVE  Cuts'
    <2>1. TypeOK BY DEF IInv
    <2>2. pc' = [pc EXCEPT ![t] = "fail"] /\ \A u \in Threads \ {t} : cut'[u] = cut[u]
      BY <1>7, <2>1, PunishType
    <2> QED BY <1>0, <1>7, <2>2 DEF Cuts, Cutting
  <1>8. ASSUME NEW d \in Dialers, GreetingFails(d) PROVE Cuts'
    <2>1. pc[d] \in Attempting BY <1>8 DEF GreetingFails, Attempting
    <2> QED BY <1>7, <1>8, <2>1, HeldFacts DEF GreetingFails
  <1>9. ASSUME NEW r \in Readers, ReceiveFails(r) PROVE Cuts'
    BY <1>7, <1>9, HeldFacts DEF ReceiveFails
  <1>10. CASE BeginPass \/ EndPass
    <2>1. /\ pc[Manager] \in {"idle", "scan"} /\ cut' = cut /\ mid' = mid
          /\ \E l : pc' = [pc EXCEPT ![Manager] = l]
      BY <1>10 DEF BeginPass, EndPass
    <2>2. cut[Manager] = {} /\ mid[Manager] = None BY <2>1, CalmFacts
    <2> QED BY <1>1, <2>1, <2>2
  <1>11. CASE Plan
    <2>1. PICK toPing \in SUBSET Keys, late \in SUBSET Keys : PlanWith(toPing, late)
      BY <1>11 DEF Plan
    <2>2. PICK gone : cut' = [cut EXCEPT ![Keepalive] = gone]
      BY <2>1 DEF PlanWith
    <2>3. mid' = mid /\ pc' = [pc EXCEPT ![Keepalive] = "idle"] BY <2>1 DEF PlanWith
    <2> QED BY <1>0, <2>2, <2>3 DEF Cuts, Cutting
  <1>12. CASE Ping
    <2>1. /\ pc[Keepalive] = "idle" /\ pc' = pc /\ mid' = mid
          /\ cut' = cut \/ \E o : cut' = [cut EXCEPT ![Keepalive] = {o}]
      BY <1>12 DEF Ping
    <2> QED BY <1>0, <2>1 DEF Cuts, Cutting
  <1>13. CASE Survey
    <2>1. /\ cut[Keepalive] = {} /\ mid[Keepalive] = None
          /\ cut' = cut /\ mid' = mid /\ \E l : pc' = [pc EXCEPT ![Keepalive] = l]
      BY <1>13 DEF Survey, Cutting
    <2> QED BY <1>1, <2>1
  <1>14. ASSUME NEW r \in Readers, Receive(r) \/ Handled(r) \/ Ponged(r) PROVE Cuts'
    <2>1. \E l : pc' = [pc EXCEPT ![r] = l]
      BY <1>14 DEF Receive, Handled, Ponged
    <2>2. cut' = cut /\ mid' = mid
      BY <1>14 DEF Receive, Handled, Ponged
    <2>3. pc[r] = "recv" \/ ~Cutting(r)
      BY <1>14 DEF Receive, Handled, Ponged
    <2>4. cut[r] = {} /\ mid[r] = None BY <2>3, CalmFacts DEF Cutting
    <2> QED BY <1>1, <2>1, <2>2, <2>4
  <1>15. ASSUME NEW r \in Readers, DropSession(r) PROVE Cuts'
    <2>1. /\ pc' = [pc EXCEPT ![r] = "idle"] /\ cut' = [cut EXCEPT ![r] = {obj[r]}] /\ mid' = mid
      BY <1>15 DEF DropSession
    <2> QED BY <1>0, <2>1 DEF Cuts, Cutting
  <1>16. ASSUME NEW t \in Threads, CutRegistry(t) \/ CutPings(t) \/ CutSocket(t) PROVE Cuts'
    <2>1. /\ pc' = pc /\ Cutting(t)
          /\ \A u \in Threads \ {t} : cut'[u] = cut[u] /\ mid'[u] = mid[u]
      BY <1>0, <1>16 DEF CutRegistry, CutPings, CutSocket, Cutting
    <2> QED BY <1>0, <2>1 DEF Cuts, Cutting
  <1>17. ASSUME pc' = pc, cut' = cut, mid' = mid PROVE Cuts' BY <1>0, <1>17 DEF Cuts, Cutting
  <1>18. CASE SkipCandidate BY <1>17, <1>18 DEF SkipCandidate, at
  <1>19. ASSUME NEW k, RetryDue(k) PROVE Cuts' BY <1>17, <1>19 DEF RetryDue, at
  <1>20. ASSUME NEW h, BanLapses(h) PROVE Cuts' BY <1>17, <1>20 DEF BanLapses, at
  <1> QED
    BY StepCases, <1>3, <1>4, <1>5, <1>6, <1>8, <1>9, <1>10, <1>11, <1>12, <1>13, <1>14,
       <1>15, <1>16, <1>18, <1>19, <1>20

-----------------------------------------------------------------------------
(* What refers to the objects *)

\* A step adds no reference to an object that nothing referred to, except that
\* an attempt registers its own.
LEMMA HeldStep ==
  ASSUME IInv, Next, NEW o \in Objs, Held(o)'
  PROVE  Held(o) \/ \E d \in Dialers : Enrol(d) /\ o = obj[d]
  <1> USE ThreadFacts, ObjFacts DEF At
  <1>0. /\ pings \in [Keys -> [peer : Objs, phase : {"waiting", "sent"}] \cup {None}]
        /\ obj \in [Threads -> Objs \cup {None}] /\ ready \in [Keys -> Objs \cup {None}]
        /\ cut \in [Threads -> SUBSET Objs] /\ mid \in [Threads -> Objs \cup {None}] /\ TypeOK
    BY DEF IInv, TypeOK
  <1>1. ASSUME ready' = ready, due' = due, pings' = pings, cut' = cut, mid' = mid,
               \A r \in Readers : obj'[r] \in {obj[r], None}
        PROVE  Held(o)
    BY <1>1 DEF Held, ReadyPeers, Pinged
  <1>2. ASSUME NEW d \in Dialers, NEW k \in Keys, Dial(d, k) PROVE Held(o)
    <2>1. /\ ready' = ready /\ due' = due /\ pings' = pings /\ cut' = cut /\ mid' = mid
          /\ \E p : obj' = [obj EXCEPT ![d] = p]
      BY <1>2, DialFacts
    <2> QED BY <1>0, <1>1, <2>1
  <1>3. ASSUME NEW c \in Callers, NEW k \in OutKeys, Connect(c, k) PROVE Held(o)
    BY <1>2, <1>3, SessionsAssumption DEF Connect
  <1>4. CASE TryCandidate BY <1>2, <1>4, TryFacts
  <1>5. ASSUME NEW c \in Callers, NEW k \in InKeys, Accept(c, k) PROVE Held(o)
    <2>1. PICK p : obj' = [obj EXCEPT ![c] = p] BY <1>5 DEF Accept
    <2>2. ready' = ready /\ due' = due /\ pings' = pings /\ cut' = cut /\ mid' = mid
      BY <1>5 DEF Accept, work
    <2> QED BY <1>0, <1>1, <2>1, <2>2
  <1>6. ASSUME NEW d \in Dialers, Opened(d) \/ NotOpened(d) \/ Greeted(d) \/ DropAttempt(d)
        PROVE  Held(o)
    <2>1. ready' = ready /\ due' = due /\ pings' = pings /\ cut' = cut /\ mid' = mid
      BY <1>6 DEF Opened, NotOpened, Greeted, DropAttempt, work
    <2>2. obj' = obj \/ obj' = [obj EXCEPT ![d] = None]
      BY <1>6 DEF Opened, NotOpened, Greeted, DropAttempt, Raised
    <2> QED BY <1>0, <1>1, <2>1, <2>2
  <1>7. ASSUME NEW d \in Dialers, Enrol(d) PROVE Held(o) \/ o = obj[d]
    <2>1. /\ due' = due /\ pings' = pings /\ cut' = cut /\ mid' = mid
          /\ ready' = [ready EXCEPT ![obj[d].key] = obj[d]] /\ obj' = [obj EXCEPT ![d] = None]
      BY <1>7 DEF Enrol
    <2>2. \A k \in Keys : ready'[k] \in {ready[k], obj[d]} BY <1>0, <2>1
    <2>3. \A r \in Readers : obj'[r] = obj[r] BY <1>0, <2>1
    <2> QED BY <2>1, <2>2, <2>3 DEF Held, ReadyPeers, Pinged
  <1>8. ASSUME NEW t \in Threads, NEW p \in Objs, NEW fault \in Faults, Punish(t, p, fault),
               ready' = ready, due' = due, pings' = pings, mid' = mid, obj' = obj
        PROVE  Held(o)
    <2>1. /\ \A u \in Threads \ {t} : cut'[u] = cut[u]
          /\ cut'[t] \subseteq cut[t] \cup (ReadyPeers \ {p})
      BY <1>0, <1>8, PunishType
    <2>2. \A u \in Threads : o \in cut'[u] => o \in cut[u] \/ o \in ReadyPeers BY <2>1
    <2>3. ReadyPeers' = ReadyPeers /\ Pinged(o)' = Pinged(o) BY <1>8 DEF ReadyPeers, Pinged
    <2> QED BY <1>8, <2>2, <2>3 DEF Held
  <1>9. ASSUME NEW d \in Dialers, GreetingFails(d) PROVE Held(o)
    <2>1. pc[d] \in Attempting BY <1>9 DEF GreetingFails, Attempting
    <2>2. ready' = ready /\ due' = due /\ pings' = pings /\ mid' = mid /\ obj' = obj
      BY <1>9 DEF GreetingFails, tables, work
    <2> QED BY <1>8, <1>9, <2>1, <2>2, HeldFacts DEF GreetingFails
  <1>10. ASSUME NEW r \in Readers, ReceiveFails(r) PROVE Held(o)
    <2>1. ready' = ready /\ due' = due /\ pings' = pings /\ mid' = mid /\ obj' = obj
      BY <1>10 DEF ReceiveFails, tables, work
    <2> QED BY <1>8, <1>10, <2>1, HeldFacts DEF ReceiveFails
  <1>11. CASE BeginPass \/ EndPass \/ SkipCandidate
    <2>1. /\ ready' = ready /\ due' = due /\ pings' = pings /\ cut' = cut /\ mid' = mid
          /\ obj' = obj
      BY <1>11 DEF BeginPass, EndPass, SkipCandidate, tables, work, at
    <2> QED BY <1>1, <2>1
  <1>12. CASE Plan
    <2>1. PICK toPing \in SUBSET Keys, late \in SUBSET Keys : PlanWith(toPing, late)
      BY <1>12 DEF Plan
    <2>2. PICK gone : /\ cut' = [cut EXCEPT ![Keepalive] = gone]
                      /\ \A p \in gone : p \in due \/ Pinged(p)
      BY <1>0, <2>1, PlanFacts
    <2>3. /\ \A k \in Keys : pings'[k] # None =>
                pings'[k].peer \in due \/ Pinged(pings'[k].peer)
          /\ \A p \in due' : p \in due \/ Pinged(p)
          /\ UNCHANGED <<ready, obj, mid>>
      BY <1>0, <2>1, PlanFacts
    <2>4. \A t \in Threads : o \in cut'[t] => o \in cut[t] \/ o \in due \/ Pinged(o)
      BY <1>0, <2>2
    <2>5. Pinged(o)' => o \in due \/ Pinged(o) BY <2>3 DEF Pinged
    <2>6. ReadyPeers' = ReadyPeers BY <2>3 DEF ReadyPeers
    <2> QED BY <2>3, <2>4, <2>5, <2>6 DEF Held
  <1>13. CASE Ping
    <2>1. PICK p \in due :
            /\ due' = due \ {p}
            /\ \/ /\ pings' = [pings EXCEPT ![p.key] =
                            [peer |-> IF @ = None THEN p ELSE @.peer, phase |-> "sent"]]
                  /\ UNCHANGED cut
               \/ /\ pings' = [pings EXCEPT ![p.key] = None]
                  /\ cut' = [cut EXCEPT ![Keepalive] = {p}]
      BY <1>13 DEF Ping
    <2>2. UNCHANGED <<ready, obj, mid>> BY <1>13 DEF Ping
    <2>3. p \in Objs /\ p.key \in Keys BY <1>0 DEF TypeOK
    <2>4. PICK q : q = IF pings[p.key] = None THEN p ELSE pings[p.key].peer OBVIOUS
    <2>5. \/ pings' = [pings EXCEPT ![p.key] = [peer |-> q, phase |-> "sent"]]
          \/ pings' = [pings EXCEPT ![p.key] = None]
      BY <1>0, <2>1, <2>3, <2>4
    <2>6. q = p \/ Pinged(q) BY <2>3, <2>4 DEF Pinged
    <2>7. Pinged(o)' => Pinged(o) \/ o = p
      <3>1. \A k \in Keys : pings'[k] # None => pings'[k].peer = q \/ pings'[k] = pings[k]
        BY <1>0, <2>3, <2>5
      <3> QED BY <2>6, <3>1 DEF Pinged
    <2>8. \A t \in Threads : o \in cut'[t] => o \in cut[t] \/ o = p BY <1>0, <2>1
    <2>9. ReadyPeers' = ReadyPeers BY <2>2 DEF ReadyPeers
    <2> QED BY <2>1, <2>2, <2>7, <2>8, <2>9 DEF Held
  <1>14. ASSUME NEW r \in Readers, Receive(r) PROVE Held(o)
    <2>1. PICK p \in Usable : obj' = [obj EXCEPT ![r] = p] BY <1>14 DEF Receive
    <2>2. UNCHANGED <<ready, due, pings, cut, mid>> BY <1>14 DEF Receive, tables, work
    <2>3. p \in ReadyPeers /\ ReadyPeers' = ReadyPeers /\ Pinged(o)' = Pinged(o)
      BY <2>2 DEF Usable, ReadyPeers, Pinged
    <2>4. \A u \in Readers : obj'[u] = obj[u] \/ obj'[u] = p BY <1>0, <2>1
    <2> QED BY <2>2, <2>3, <2>4 DEF Held
  <1>15. ASSUME NEW r \in Readers, Handled(r) PROVE Held(o)
    <2>1. /\ UNCHANGED <<ready, due, pings, cut, mid>> /\ obj' = [obj EXCEPT ![r] = None]
      BY <1>15 DEF Handled, tables, work
    <2> QED BY <1>0, <1>1, <2>1
  <1>16. ASSUME NEW r \in Readers, Ponged(r) PROVE Held(o)
    <2>1. pc[r] = "recv" BY <1>16 DEF Ponged
    <2>2. PICK k \in Keys : k = obj[r].key BY <2>1, HeldFacts
    <2>3. /\ pings[k] # None /\ pings' = [pings EXCEPT ![k].phase = "waiting"]
          /\ UNCHANGED <<ready, due, cut, mid>> /\ obj' = [obj EXCEPT ![r] = None]
      BY <1>16, <2>2 DEF Ponged, Outstanding, work
    <2>4. Pinged(o)' => Pinged(o)
      <3>1. \A l \in Keys : pings'[l] # None =>
                pings[l] # None /\ pings'[l].peer = pings[l].peer
        BY <1>0, <2>2, <2>3
      <3> QED BY <3>1 DEF Pinged
    <2>5. ReadyPeers' = ReadyPeers BY <2>3 DEF ReadyPeers
    <2>6. \A u \in Readers : obj'[u] \in {obj[u], None} BY <1>0, <2>3
    <2> QED BY <2>3, <2>4, <2>5, <2>6 DEF Held
  <1>17. ASSUME NEW r \in Readers, DropSession(r) PROVE Held(o)
    <2>1. /\ UNCHANGED <<ready, due, pings, mid>> /\ obj' = [obj EXCEPT ![r] = None]
          /\ cut' = [cut EXCEPT ![r] = {obj[r]}]
      BY <1>17 DEF DropSession, work
    <2>2. ReadyPeers' = ReadyPeers /\ Pinged(o)' = Pinged(o) BY <2>1 DEF ReadyPeers, Pinged
    <2>3. \A t \in Threads : o \in cut'[t] => o \in cut[t] \/ o = obj[r] BY <1>0, <2>1
    <2>4. \A u \in Readers : obj'[u] \in {obj[u], None} BY <1>0, <2>1
    <2> QED BY <2>1, <2>2, <2>3, <2>4 DEF Held
  <1>18. ASSUME NEW t \in Threads, CutRegistry(t) PROVE Held(o)
    <2>1. PICK p \in cut[t] :
              /\ mid' = [mid EXCEPT ![t] = p]
              /\ ready' = [ready EXCEPT ![p.key] = None]
      BY <1>18 DEF CutRegistry
    <2>2. UNCHANGED <<due, obj, pings, cut>> BY <1>18 DEF CutRegistry, work
    <2>3. \A k \in Keys : ready'[k] \in {ready[k], None} BY <1>0, <2>1
    <2>4. o \in ReadyPeers' => o \in ReadyPeers BY <2>3 DEF ReadyPeers
    <2>5. Pinged(o)' = Pinged(o) BY <2>2 DEF Pinged
    <2>6. \A u \in Threads : o = mid'[u] => o = mid[u] \/ o = p BY <1>0, <2>1
    <2> QED BY <2>1, <2>2, <2>4, <2>5, <2>6 DEF Held
  <1>19. ASSUME NEW t \in Threads, CutSocket(t) PROVE Held(o)
    <2>1. UNCHANGED <<ready, due, pings, cut, obj>> /\ mid' = [mid EXCEPT ![t] = None]
      BY <1>19 DEF CutSocket, work
    <2>2. \A u \in Threads : o = mid'[u] => o = mid[u] BY <1>0, <2>1
    <2>3. ReadyPeers' = ReadyPeers /\ Pinged(o)' = Pinged(o) BY <2>1 DEF ReadyPeers, Pinged
    <2> QED BY <2>1, <2>2, <2>3 DEF Held
  <1>20. ASSUME NEW k, RetryDue(k) PROVE Held(o)
    BY <1>1, <1>20 DEF RetryDue, tables, work, at
  <1>21. ASSUME NEW h, BanLapses(h) PROVE Held(o)
    BY <1>1, <1>21 DEF BanLapses, tables, work, at
  <1>22. ASSUME NEW t \in Threads, CutPings(t) PROVE Held(o)
    <2>1. /\ cut' = [cut EXCEPT ![t] = @ \ {mid[t]}]
          /\ pings' = [pings EXCEPT ![mid[t].key] = None]
          /\ UNCHANGED <<due, obj, ready, mid>>
      BY <1>22 DEF CutPings, work
    <2>2. \A k \in Keys : pings'[k] \in {pings[k], None} BY <1>0, <2>1
    <2>3. Pinged(o)' => Pinged(o) BY <2>2 DEF Pinged
    <2>4. \A u \in Threads : o \in cut'[u] => o \in cut[u] BY <1>0, <2>1
    <2>5. ReadyPeers' = ReadyPeers BY <2>1 DEF ReadyPeers
    <2> QED BY <2>1, <2>3, <2>4, <2>5 DEF Held
  <1>23. CASE Survey
    <2>1. due' = Usable /\ UNCHANGED <<ready, pings, cut, mid, obj>>
      BY <1>23 DEF Survey, tables
    <2>2. ReadyPeers' = ReadyPeers /\ Pinged(o)' = Pinged(o) /\ Usable \subseteq ReadyPeers
      BY <2>1 DEF ReadyPeers, Pinged, Usable
    <2> QED BY <2>1, <2>2 DEF Held
  <1> QED
    BY StepCases, <1>3, <1>4, <1>5, <1>6, <1>7, <1>9, <1>10, <1>11, <1>12, <1>13, <1>14,
       <1>15, <1>16, <1>17, <1>18, <1>19, <1>20, <1>21, <1>22, <1>23

-----------------------------------------------------------------------------
(* Who changes the tables *)

\* Only a registration and a disconnection change the ready table.
LEMMA ReadyStep ==
  ASSUME IInv, Next, NEW k \in Keys, ready'[k] # ready[k]
  PROVE  \/ \E d \in Dialers : Enrol(d) /\ ready'[k] = obj[d] /\ k = obj[d].key
         \/ \E t \in Threads, o \in Objs :
                CutRegistry(t) /\ mid'[t] = o /\ k = o.key /\ ready'[k] = None
  <1>0. /\ ready \in [Keys -> Objs \cup {None}] /\ mid \in [Threads -> Objs \cup {None}]
        /\ cut \in [Threads -> SUBSET Objs]
    BY DEF IInv, TypeOK
  <1>1. ASSUME NEW d \in Dialers, Enrol(d)
        PROVE  Enrol(d) /\ ready'[k] = obj[d] /\ k = obj[d].key
    <2>1. ready' = [ready EXCEPT ![obj[d].key] = obj[d]] BY <1>1 DEF Enrol
    <2> QED BY <1>0, <1>1, <2>1
  <1>2. ASSUME NEW t \in Threads, CutRegistry(t)
        PROVE  \E o \in Objs : CutRegistry(t) /\ mid'[t] = o /\ k = o.key /\ ready'[k] = None
    <2>1. PICK o \in cut[t] : /\ ready' = [ready EXCEPT ![o.key] = None]
                              /\ mid' = [mid EXCEPT ![t] = o]
      BY <1>2 DEF CutRegistry
    <2> QED BY <1>0, <1>2, <2>1
  <1>3. ASSUME NEW c \in Callers, NEW l \in OutKeys, Connect(c, l) PROVE FALSE
    BY <1>3 DEF Connect, Dial
  <1>4. ASSUME NEW c \in Callers, NEW l \in InKeys, Accept(c, l) PROVE FALSE
    BY <1>4 DEF Accept
  <1>5. ASSUME NEW d \in Dialers, Opened(d) \/ NotOpened(d) \/ Greeted(d) \/ GreetingFails(d)
                                  \/ DropAttempt(d)
        PROVE  FALSE
    BY <1>5 DEF Opened, NotOpened, Greeted, GreetingFails, DropAttempt, tables
  <1>6. ASSUME \/ BeginPass \/ TryCandidate \/ SkipCandidate \/ EndPass
               \/ Survey \/ Plan \/ Ping
        PROVE  FALSE
    BY <1>6 DEF BeginPass, TryCandidate, Dial, SkipCandidate, EndPass, Survey, Plan, PlanWith, Ping,
                tables
  <1>7. ASSUME NEW r \in Readers, Receive(r) \/ Handled(r) \/ Ponged(r) \/ ReceiveFails(r)
                                  \/ DropSession(r)
        PROVE  FALSE
    BY <1>7 DEF Receive, Handled, Ponged, ReceiveFails, DropSession, tables
  <1>8. ASSUME NEW t \in Threads, CutPings(t) \/ CutSocket(t) PROVE FALSE
    BY <1>8 DEF CutPings, CutSocket
  <1>9. ASSUME NEW l, RetryDue(l) \/ BanLapses(l) PROVE FALSE
    BY <1>9 DEF RetryDue, BanLapses, tables
  <1> QED BY StepCases, <1>1, <1>2, <1>3, <1>4, <1>5, <1>6, <1>7, <1>8, <1>9

\* An object stops being ready with its attempt, its session or its connection.
LEMMA UsableStep ==
  ASSUME IInv, Next, NEW o \in Objs, (o \in usable') # (o \in usable)
  PROVE  \/ o \notin usable' /\ ~InUse(o)
         \/ o \in usable' /\ \E d \in Dialers : Greeted(d) /\ o = obj[d]
         \/ o \notin usable' /\ \E d \in Dialers : DropAttempt(d) /\ o = obj[d]
         \/ o \notin usable' /\ \E r \in Readers : DropSession(r) /\ o = obj[r]
         \/ o \notin usable' /\ \E t \in Threads : CutSocket(t) /\ o = mid[t]
  <1>1. ASSUME NEW d \in Dialers, NEW l \in Keys, Dial(d, l) PROVE o \notin usable' /\ ~InUse(o)
    BY <1>1, DialFacts
  <1>2. ASSUME NEW c \in Callers, NEW l \in InKeys, Accept(c, l)
        PROVE  o \notin usable' /\ ~InUse(o)
    BY <1>2 DEF Accept, NewPeer
  <1>3. ASSUME NEW c \in Callers, NEW l \in OutKeys, Connect(c, l)
        PROVE  o \notin usable' /\ ~InUse(o)
    BY <1>1, <1>3, ThreadFacts, SessionsAssumption DEF Connect
  <1>4. CASE TryCandidate BY <1>1, <1>4, TryFacts, ThreadFacts
  <1>5. ASSUME NEW d \in Dialers, Greeted(d) PROVE o \in usable' /\ Greeted(d) /\ o = obj[d]
    BY <1>5 DEF Greeted
  <1>6. ASSUME NEW d \in Dialers, DropAttempt(d)
        PROVE  o \notin usable' /\ DropAttempt(d) /\ o = obj[d]
    BY <1>6 DEF DropAttempt
  <1>7. ASSUME NEW r \in Readers, DropSession(r)
        PROVE  o \notin usable' /\ DropSession(r) /\ o = obj[r]
    BY <1>7 DEF DropSession
  <1>8. ASSUME NEW t \in Threads, CutSocket(t)
        PROVE  o \notin usable' /\ CutSocket(t) /\ o = mid[t]
    BY <1>8 DEF CutSocket
  <1>9. ASSUME NEW d \in Dialers, Opened(d) \/ NotOpened(d) \/ GreetingFails(d) \/ Enrol(d)
        PROVE  FALSE
    BY <1>9 DEF Opened, NotOpened, GreetingFails, Enrol, tables
  <1>10. ASSUME BeginPass \/ SkipCandidate \/ EndPass \/ Survey \/ Plan \/ Ping
         PROVE  FALSE
    BY <1>10 DEF BeginPass, SkipCandidate, EndPass, Survey, Plan, PlanWith, Ping, tables
  <1>11. ASSUME NEW r \in Readers, Receive(r) \/ Handled(r) \/ Ponged(r) \/ ReceiveFails(r)
         PROVE  FALSE
    BY <1>11 DEF Receive, Handled, Ponged, ReceiveFails, tables
  <1>12. ASSUME NEW t \in Threads, CutRegistry(t) \/ CutPings(t) PROVE FALSE
    BY <1>12 DEF CutRegistry, CutPings
  <1>13. ASSUME NEW l, RetryDue(l) \/ BanLapses(l) PROVE FALSE
    BY <1>13 DEF RetryDue, BanLapses, tables
  <1> QED BY StepCases, <1>2, <1>3, <1>4, <1>5, <1>6, <1>7, <1>8, <1>9, <1>10, <1>11, <1>12, <1>13

\* What a thread is done with in the registries is what it is disconnecting.
LEMMA CutStep ==
  ASSUME IInv, Next, NEW t \in Threads, NEW o \in cut[t], o \notin cut'[t]
  PROVE  mid[t] = o /\ mid'[t] = o
  <1>0. /\ cut \in [Threads -> SUBSET Objs] /\ ready \in [Keys -> Objs \cup {None}] /\ TypeOK
        /\ mid \in [Threads -> Objs \cup {None}]
    BY DEF IInv, TypeOK
  <1>1. cut[t] # {} OBVIOUS
  <1>2. ASSUME NEW u \in Threads, CutPings(u)
        PROVE  mid[t] = o /\ mid'[t] = o
    <2>1. cut' = [cut EXCEPT ![u] = @ \ {mid[u]}] /\ mid' = mid BY <1>2 DEF CutPings
    <2>2. u = t /\ mid[u] = o BY <1>0, <2>1
    <2> QED BY <2>1, <2>2
  <1>3. ASSUME NEW d \in Dialers, NEW l \in Keys, Dial(d, l) PROVE FALSE BY <1>3, DialFacts
  <1>4. ASSUME NEW c \in Callers, NEW l \in InKeys, Accept(c, l) PROVE FALSE
    BY <1>4 DEF Accept
  <1>5. ASSUME NEW c \in Callers, NEW l \in OutKeys, Connect(c, l) PROVE FALSE
    BY <1>3, <1>5, ThreadFacts, SessionsAssumption DEF Connect
  <1>6. ASSUME TryCandidate PROVE FALSE BY <1>3, <1>6, TryFacts, ThreadFacts
  <1>7. ASSUME NEW d \in Dialers, Opened(d) \/ NotOpened(d) \/ Greeted(d) \/ DropAttempt(d)
                                  \/ Enrol(d)
        PROVE  FALSE
    BY <1>7 DEF Opened, NotOpened, Greeted, DropAttempt, Enrol
  <1>8. ASSUME NEW u \in Threads, NEW p \in Objs, NEW fault \in Faults, Punish(u, p, fault),
               pc[u] \in {"shake", "recv"}
        PROVE  FALSE
    <2>1. cut[u] = {} BY <1>8, CalmFacts
    <2>2. u # t /\ \A v \in Threads \ {u} : cut'[v] = cut[v] BY <1>0, <1>8, <2>1, PunishType
    <2> QED BY <2>2
  <1>9. ASSUME NEW d \in Dialers, GreetingFails(d) PROVE FALSE
    <2>1. pc[d] = "shake" /\ pc[d] \in Attempting BY <1>9 DEF GreetingFails, Attempting, At
    <2> QED BY <1>8, <1>9, <2>1, HeldFacts, ThreadFacts DEF GreetingFails
  <1>10. ASSUME NEW r \in Readers, ReceiveFails(r) PROVE FALSE
    <2>1. pc[r] = "recv" BY <1>10 DEF ReceiveFails, At
    <2> QED BY <1>8, <1>10, <2>1, HeldFacts, ThreadFacts DEF ReceiveFails
  <1>11. ASSUME BeginPass \/ SkipCandidate \/ EndPass \/ Survey PROVE FALSE
    BY <1>11 DEF BeginPass, SkipCandidate, EndPass, Survey, at
  <1>12. ASSUME NEW u \in Threads, NEW gone, cut' = [cut EXCEPT ![u] = gone], cut[u] = {}
         PROVE  FALSE
    <2>1. u # t BY <1>12
    <2> QED BY <1>0, <1>12, <2>1
  <1>13. ASSUME Plan PROVE FALSE
    <2>1. pc[Keepalive] = "plan" /\ \E gone : cut' = [cut EXCEPT ![Keepalive] = gone]
      BY <1>13 DEF Plan, PlanWith, At
    <2>2. cut[Keepalive] = {} BY <2>1, CalmFacts, ThreadFacts
    <2> QED BY <1>12, <2>1, <2>2, ThreadFacts
  <1>14. ASSUME Ping PROVE FALSE
    <2>1. \/ cut' = cut
          \/ cut[Keepalive] = {} /\ \E gone : cut' = [cut EXCEPT ![Keepalive] = gone]
      BY <1>14 DEF Ping, Cutting
    <2> QED BY <1>12, <2>1, ThreadFacts
  <1>15. ASSUME NEW r \in Readers, Receive(r) \/ Handled(r) \/ Ponged(r) PROVE FALSE
    BY <1>15 DEF Receive, Handled, Ponged
  <1>16. ASSUME NEW r \in Readers, DropSession(r) PROVE FALSE
    <2>1. cut[r] = {} /\ \E gone : cut' = [cut EXCEPT ![r] = gone]
      BY <1>16 DEF DropSession, Cutting
    <2> QED BY <1>12, <2>1, ThreadFacts
  <1>17. ASSUME NEW u \in Threads, CutRegistry(u) \/ CutSocket(u) PROVE FALSE
    BY <1>17 DEF CutRegistry, CutSocket
  <1>18. ASSUME NEW l, RetryDue(l) \/ BanLapses(l) PROVE FALSE
    BY <1>18 DEF RetryDue, BanLapses, at
  <1> QED
    BY StepCases, <1>2, <1>4, <1>5, <1>6, <1>7, <1>9, <1>10, <1>11, <1>13, <1>14, <1>15,
       <1>16, <1>17, <1>18

-----------------------------------------------------------------------------
(* The remaining parts of the invariant *)

\* A dialling thread gets a new object, keeps the one it has, or is done with it.
LEMMA ObjStep ==
  ASSUME IInv, Next, NEW d \in Dialers
  PROVE  /\ \/ obj'[d] = obj[d] \/ obj'[d] = None
            \/ obj'[d].by = d /\ ~InUse(obj'[d])
         /\ pc'[d] = "enrol" => obj'[d] = obj[d] /\ (Greeted(d) \/ pc[d] = "enrol")
  <1> USE ThreadFacts DEF At, Goto
  <1> DEFINE Goal == /\ \/ obj'[d] = obj[d] \/ obj'[d] = None
                        \/ obj'[d].by = d /\ ~InUse(obj'[d])
                     /\ pc'[d] = "enrol" => obj'[d] = obj[d] /\ (Greeted(d) \/ pc[d] = "enrol")
  <1>0. /\ obj \in [Threads -> Objs \cup {None}]
        /\ pc \in [Threads -> {"idle", "scan", "open", "shake", "enrol",
                               "plan", "recv", "fail"}]
    BY DEF IInv, TypeOK
  <1>1. ASSUME NEW e \in Dialers, NEW k \in Keys, Dial(e, k) PROVE Goal
    <2>1. PICK o \in Objs : o.by = e /\ ~InUse(o) /\ obj' = [obj EXCEPT ![e] = o]
      BY <1>1, DialFacts
    <2>2. pc' = [pc EXCEPT ![e] = "open"] \/ pc' = [pc EXCEPT ![e] = "shake"] BY <1>1, DialFacts
    <2>3. CASE e = d BY <1>0, <2>1, <2>2, <2>3
    <2>4. CASE e # d BY <1>0, <2>1, <2>2, <2>4
    <2> QED BY <2>3, <2>4
  <1>2. ASSUME NEW c \in Callers, NEW k \in InKeys, Accept(c, k) PROVE Goal
    <2>1. PICK o \in Objs : o.by = c /\ ~InUse(o) /\ obj' = [obj EXCEPT ![c] = o]
      BY <1>2 DEF Accept, NewPeer
    <2>2. pc' = [pc EXCEPT ![c] = "shake"] BY <1>2 DEF Accept
    <2> QED BY <1>0, <2>1, <2>2
  <1>3. ASSUME NEW c \in Callers, NEW k \in OutKeys, Connect(c, k) PROVE Goal
    BY <1>1, <1>3, SessionsAssumption DEF Connect
  <1>4. CASE TryCandidate BY <1>1, <1>4, TryFacts
  <1>5. ASSUME obj'[d] = obj[d] \/ obj'[d] = None,
               (pc'[d] = pc[d] /\ obj'[d] = obj[d]) \/ pc'[d] # "enrol"
        PROVE  Goal
    BY <1>5
  <1>6. ASSUME NEW e \in Dialers, Opened(e) \/ NotOpened(e) \/ GreetingFails(e)
                                  \/ DropAttempt(e) \/ Enrol(e)
        PROVE  Goal
    <2>1. obj' = obj \/ obj' = [obj EXCEPT ![e] = None]
      BY <1>6 DEF Opened, NotOpened, GreetingFails, DropAttempt, Enrol, Raised
    <2>2. PICK l \in {"shake", "fail", "idle", "scan"} : pc' = [pc EXCEPT ![e] = l]
      BY <1>6 DEF Opened, NotOpened, GreetingFails, Punish, DropAttempt, Enrol, Raised, Resume
    <2>3. obj'[d] = obj[d] \/ obj'[d] = None BY <1>0, <2>1
    <2>4. (pc'[d] = pc[d] /\ obj'[d] = obj[d]) \/ pc'[d] # "enrol" BY <1>0, <2>1, <2>2
    <2> QED BY <1>5, <2>3, <2>4
  <1>7. ASSUME NEW e \in Dialers, Greeted(e) PROVE Goal
    <2>1. pc' = [pc EXCEPT ![e] = "enrol"] /\ obj' = obj BY <1>7 DEF Greeted
    <2> QED BY <1>0, <1>7, <2>1
  <1>8. CASE BeginPass \/ EndPass
    <2>1. obj' = obj /\ \E l \in {"scan", "idle"} : pc' = [pc EXCEPT ![Manager] = l]
      BY <1>8 DEF BeginPass, EndPass
    <2>2. pc'[d] = pc[d] \/ pc'[d] # "enrol" BY <1>0, <2>1
    <2> QED BY <1>5, <2>1, <2>2
  <1>9. CASE Survey \/ Plan
    <2>1. obj' = obj /\ \E l \in {"plan", "idle"} : pc' = [pc EXCEPT ![Keepalive] = l]
      BY <1>9 DEF Survey, Plan, PlanWith
    <2>2. pc'[d] = pc[d] \/ pc'[d] # "enrol" BY <1>0, <2>1
    <2> QED BY <1>5, <2>1, <2>2
  <1>10. ASSUME NEW r \in Readers, Receive(r) \/ Handled(r) \/ Ponged(r) \/ ReceiveFails(r)
                                  \/ DropSession(r)
         PROVE  Goal
    <2>1. obj' = obj \/ \E o : obj' = [obj EXCEPT ![r] = o]
      BY <1>10 DEF Receive, Handled, Ponged, ReceiveFails, DropSession
    <2>2. PICK l \in {"recv", "idle", "fail"} : pc' = [pc EXCEPT ![r] = l]
      BY <1>10 DEF Receive, Handled, Ponged, ReceiveFails, Punish, DropSession
    <2>3. r # d OBVIOUS
    <2>4. obj'[d] = obj[d] BY <1>0, <2>1, <2>3
    <2>5. pc'[d] = pc[d] BY <1>0, <2>2, <2>3
    <2> QED BY <1>5, <2>4, <2>5
  <1>11. ASSUME obj' = obj, pc' = pc PROVE Goal BY <1>11
  <1>12. CASE SkipCandidate \/ Ping BY <1>11, <1>12 DEF SkipCandidate, Ping, at
  <1>13. ASSUME NEW t \in Threads, CutRegistry(t) \/ CutPings(t) \/ CutSocket(t) PROVE Goal
    BY <1>11, <1>13 DEF CutRegistry, CutPings, CutSocket
  <1>14. ASSUME NEW l, RetryDue(l) \/ BanLapses(l) PROVE Goal
    BY <1>11, <1>14 DEF RetryDue, BanLapses, at
  <1> QED BY StepCases, <1>2, <1>3, <1>4, <1>6, <1>7, <1>8, <1>9, <1>10, <1>12, <1>13, <1>14

\* Only a disconnection takes an object up and puts it away again.
LEMMA MidStep ==
  ASSUME IInv, Next, NEW t \in Threads, mid'[t] # mid[t], mid'[t] # None
  PROVE  \E p \in cut[t] : /\ mid' = [mid EXCEPT ![t] = p]
                           /\ ready' = [ready EXCEPT ![p.key] = None]
  <1>0. mid \in [Threads -> Objs \cup {None}] BY DEF IInv, TypeOK
  <1>1. ASSUME NEW u \in Threads, CutRegistry(u)
        PROVE  \E p \in cut[t] : /\ mid' = [mid EXCEPT ![t] = p]
                                 /\ ready' = [ready EXCEPT ![p.key] = None]
    <2>1. PICK p \in cut[u] : /\ mid' = [mid EXCEPT ![u] = p]
                              /\ ready' = [ready EXCEPT ![p.key] = None]
      BY <1>1 DEF CutRegistry
    <2>2. u = t BY <1>0, <2>1
    <2> QED BY <2>1, <2>2
  <1>2. ASSUME NEW u \in Threads, CutPings(u) \/ CutSocket(u) PROVE FALSE
    <2>1. mid' = mid \/ mid' = [mid EXCEPT ![u] = None] BY <1>2 DEF CutPings, CutSocket
    <2> QED BY <1>0, <2>1
  <1>3. ASSUME NEW c \in Callers, NEW l \in OutKeys, Connect(c, l) PROVE FALSE
    BY <1>3 DEF Connect, Dial
  <1>4. ASSUME NEW c \in Callers, NEW l \in InKeys, Accept(c, l) PROVE FALSE
    BY <1>4 DEF Accept
  <1>5. ASSUME NEW d \in Dialers, Opened(d) \/ NotOpened(d) \/ Greeted(d) \/ GreetingFails(d)
                                  \/ DropAttempt(d) \/ Enrol(d)
        PROVE  FALSE
    BY <1>5 DEF Opened, NotOpened, Greeted, GreetingFails, DropAttempt, Enrol
  <1>6. ASSUME \/ BeginPass \/ TryCandidate \/ SkipCandidate \/ EndPass
               \/ Survey \/ Plan \/ Ping
        PROVE  FALSE
    BY <1>6 DEF BeginPass, TryCandidate, Dial, SkipCandidate, EndPass, Survey, Plan, PlanWith, Ping,
                at
  <1>7. ASSUME NEW r \in Readers, Receive(r) \/ Handled(r) \/ Ponged(r) \/ ReceiveFails(r)
                                  \/ DropSession(r)
        PROVE  FALSE
    BY <1>7 DEF Receive, Handled, Ponged, ReceiveFails, DropSession
  <1>8. ASSUME NEW l, RetryDue(l) \/ BanLapses(l) PROVE FALSE
    BY <1>8 DEF RetryDue, BanLapses, at
  <1> QED BY StepCases, <1>1, <1>2, <1>3, <1>4, <1>5, <1>6, <1>7, <1>8

\* Nothing but its attempt refers to a new object.
LEMMA FreshStep ==
  ASSUME IInv, Next
  PROVE  Fresh'
  <1> SUFFICES ASSUME NEW d \in Dialers, NEW o, o = obj'[d], o # None
               PROVE  o.by = d /\ ~Held(o)'
    BY DEF Fresh, Held, Pinged
  <1>1. o \in Objs BY ThreadFacts, TypeStep DEF TypeOK
  <1>2. \A e \in Dialers : obj[e] # None => obj[e].by = e /\ ~Held(obj[e])
    BY DEF IInv, Fresh
  <1>3. Held(o)' => Held(o) \/ \E e \in Dialers : Enrol(e) /\ o = obj[e]
    BY <1>1, HeldStep
  <1>4. Held(o) => InUse(o)
    BY ThreadFacts DEF Held, InUse, Pinged
  <1>5. \A e \in Dialers : o = obj[e] => InUse(o) BY ThreadFacts DEF InUse
  <1>7. CASE o = obj[d]
    <2>1. o.by = d /\ ~Held(o) BY <1>2, <1>7
    <2>2. \A e \in Dialers : o = obj[e] => e = d BY <1>2, <2>1
    <2>3. ~Enrol(d)
      <3>1. Enrol(d) => obj' = [obj EXCEPT ![d] = None] BY DEF Enrol
      <3>2. obj \in [Threads -> Objs \cup {None}] BY DEF IInv, TypeOK
      <3> QED BY <3>1, <3>2, ThreadFacts
    <2> QED BY <1>1, <1>3, <2>1, <2>2, <2>3
  <1>8. CASE o.by = d /\ ~InUse(o) BY <1>1, <1>3, <1>4, <1>5, <1>8
  <1> QED BY <1>7, <1>8, ObjStep

\* An object that is being disconnected is not registered again.
LEMMA GoneStep ==
  ASSUME IInv, Next
  PROVE  Gone'
  <1> SUFFICES ASSUME NEW t \in Threads, mid'[t] # None, mid'[t] \in ReadyPeers' PROVE FALSE
    BY DEF Gone
  <1>1. PICK o : o = mid'[t] OBVIOUS
  <1>2. PICK k \in Keys : ready'[k] = o /\ o # None BY <1>1 DEF ReadyPeers
  <1>0. /\ mid \in [Threads -> Objs \cup {None}] /\ cut \in [Threads -> SUBSET Objs]
        /\ ready \in [Keys -> Objs \cup {None}]
    BY DEF IInv, TypeOK
  <1>3. CASE mid[t] = o
    <2>1. o \notin ReadyPeers BY <1>2, <1>3 DEF IInv, Gone
    <2>2. ready[k] # o BY <1>2, <2>1 DEF ReadyPeers
    <2>3. PICK d \in Dialers : Enrol(d) /\ ready'[k] = obj[d] BY <1>2, <2>2, ReadyStep
    <2>4. ~Held(o) BY <1>2, <2>3 DEF IInv, Fresh
    <2> QED BY <1>3, <2>4 DEF Held
  <1>4. CASE mid[t] # o
    <2>1. PICK p \in cut[t] : /\ mid' = [mid EXCEPT ![t] = p]
                              /\ ready' = [ready EXCEPT ![p.key] = None]
      BY <1>0, <1>1, <1>2, <1>4, MidStep
    <2>2. o = p /\ o \in Objs BY <1>0, <1>1, <2>1
    <2>3. k # o.key /\ ready[k] = o BY <1>0, <1>2, <2>1, <2>2
    <2> QED BY <1>2, <2>3 DEF IInv, Registered
  <1> QED BY <1>3, <1>4

\* A registered peer stops being ready only when it is about to be disconnected.
LEMMA RegisteredStep ==
  ASSUME IInv, Next
  PROVE  Registered'
  <1>0. /\ ready \in [Keys -> Objs \cup {None}] /\ mid \in [Threads -> Objs \cup {None}]
        /\ obj \in [Threads -> Objs \cup {None}] /\ None \notin Objs
        /\ cut \in [Threads -> SUBSET Objs] /\ usable \subseteq Objs
    BY ObjFacts DEF IInv, TypeOK
  <1>1. ASSUME NEW k \in Keys, ready'[k] # None
        PROVE  /\ ready'[k].key = k
               /\ ready'[k] \in usable' \/ \E t \in Threads : ready'[k] \in cut'[t]
    <2>1. CASE ready'[k] # ready[k]
      <3>1. PICK d \in Dialers : Enrol(d) /\ ready'[k] = obj[d] /\ k = obj[d].key
        BY <1>1, <2>1, ReadyStep
      <3>2. pc[d] = "enrol" /\ usable' = usable BY <3>1 DEF Enrol, At
      <3> QED BY <3>1, <3>2 DEF IInv, Registered
    <2>2. CASE ready'[k] = ready[k]
      <3>1. PICK o \in Objs : o = ready[k] BY <1>0, <1>1, <2>2
      <3>2. o.key = k /\ (o \in usable \/ \E t \in Threads : o \in cut[t])
        BY <1>1, <2>2, <3>1 DEF IInv, Registered
      <3>3. o \in ReadyPeers /\ o # None BY <1>1, <2>2, <3>1 DEF ReadyPeers
      <3>4. CASE o \in usable /\ o \notin usable'
        <4>1. InUse(o) BY <3>3 DEF InUse
        <4>2. ASSUME NEW d \in Dialers, o = obj[d] PROVE FALSE
          BY <3>3, <4>2 DEF IInv, Fresh, Held
        <4>3. ASSUME NEW t \in Threads, o = mid[t] PROVE FALSE
          BY <3>3, <4>3 DEF IInv, Gone
        <4>4. PICK r \in Readers : DropSession(r) /\ o = obj[r]
          BY <3>4, <4>1, <4>2, <4>3, UsableStep
        <4>5. o \in cut'[r] BY <1>0, <4>4, ThreadFacts DEF DropSession
        <4> QED BY <2>2, <3>1, <3>2, <4>5, ThreadFacts
      <3>5. ASSUME NEW t \in Threads, o \in cut[t], o \notin cut'[t] PROVE FALSE
        <4>1. mid[t] = o BY <3>5, CutStep
        <4> QED BY <3>3, <4>1 DEF IInv, Gone
      <3> QED BY <2>2, <3>1, <3>2, <3>4, <3>5
    <2> QED BY <2>1, <2>2
  <1>2. ASSUME NEW d \in Dialers, pc'[d] = "enrol"
        PROVE  obj'[d] \in usable'
    <2>0. d \in Threads /\ obj'[d] = obj[d] BY <1>2, ObjStep, ThreadFacts
    <2>1. CASE Greeted(d) BY <2>0, <2>1 DEF Greeted
    <2>2. CASE pc[d] = "enrol"
      <3>1. PICK o \in Objs : o = obj[d] /\ o \in usable /\ o # None
        BY <1>0, <2>0, <2>2 DEF IInv, Registered
      <3>2. o.by = d /\ ~Held(o) BY <3>1 DEF IInv, Fresh
      <3>3. InUse(o) BY <2>0, <3>1 DEF InUse
      <3>4. ASSUME NEW e \in Dialers, DropAttempt(e), o = obj[e] PROVE FALSE
        <4>1. e = d BY <3>1, <3>2, <3>4 DEF IInv, Fresh
        <4>2. pc[d] = "fail" BY <3>4, <4>1 DEF DropAttempt, At
        <4> QED BY <2>2, <4>2
      <3>5. ASSUME NEW r \in Readers, o = obj[r] PROVE FALSE BY <3>2, <3>5 DEF Held
      <3>6. ASSUME NEW t \in Threads, o = mid[t] PROVE FALSE BY <3>2, <3>6 DEF Held
      <3>7. o \in usable' BY <3>1, <3>3, <3>4, <3>5, <3>6, UsableStep
      <3> QED BY <2>0, <3>1, <3>7
    <2> QED BY <1>2, <2>1, <2>2, ObjStep
  <1> QED BY <1>1, <1>2 DEF Registered

\* The manager's slots fit beside the peers it has connected.
LEMMA SlotsStep ==
  ASSUME IInv, Next
  PROVE  Slots'
  <1> USE DEF At, Goto
  <1>0. /\ Manager \in Dialers /\ Manager \in Threads /\ Target \in Nat /\ slots \in Nat
        /\ pc \in [Threads -> {"idle", "scan", "open", "shake", "enrol",
                               "plan", "recv", "fail"}]
        /\ Manager \notin Callers /\ Manager \notin Readers /\ Manager # Keepalive
        /\ pc[Manager] \in Attempting => slots > 0
        /\ Cardinality(OfManager) + slots <= Target
        /\ Cardinality(OfManager) \in Nat /\ IsFiniteSet(OfManager)
    <2>1. TypeOK BY DEF IInv
    <2>2. Cardinality(OfManager) \in Nat /\ IsFiniteSet(OfManager)
      BY <2>1, UsableFacts
    <2> QED BY <2>1, <2>2, ThreadFacts, SessionsAssumption DEF IInv, TypeOK, Slots
  <1>1. ASSUME NEW o \in OfManager', o \notin OfManager
        PROVE  Enrol(Manager) /\ o = obj[Manager]
    <2>1. PICK k \in Keys : ready'[k] = o /\ o # None BY <1>1 DEF OfManager, Usable, ReadyPeers
    <2>2. o \in Objs /\ o \in usable' /\ o.by = Manager
      BY <1>1, <2>1, TypeStep DEF OfManager, Usable, TypeOK
    <2>3. CASE ready[k] = o
      <3>1. o \in ReadyPeers /\ o \notin usable
        BY <1>1, <2>1, <2>2, <2>3 DEF OfManager, Usable, ReadyPeers
      <3>2. PICK d \in Dialers : Greeted(d) /\ o = obj[d] BY <2>2, <3>1, UsableStep
      <3> QED BY <2>1, <3>1, <3>2 DEF IInv, Fresh, Held
    <2>4. CASE ready[k] # o
      <3>1. PICK d \in Dialers : Enrol(d) /\ o = obj[d] BY <2>1, <2>4, ReadyStep
      <3>2. o.by = d BY <2>1, <3>1 DEF IInv, Fresh
      <3> QED BY <2>2, <3>1, <3>2
    <2> QED BY <2>3, <2>4
  <1>2. ASSUME ~Enrol(Manager)
        PROVE  Cardinality(OfManager') <= Cardinality(OfManager) /\ Cardinality(OfManager') \in Nat
    <2>1. OfManager' \subseteq OfManager BY <1>1, <1>2
    <2>2. IsFiniteSet(OfManager') /\ Cardinality(OfManager') <= Cardinality(OfManager)
      BY <1>0, <2>1, FS_Subset
    <2> QED BY <2>2, FS_CardinalityType
  <1>3. CASE Enrol(Manager)
    <2>1. OfManager' \subseteq OfManager \cup {obj[Manager]} BY <1>1
    <2>2. /\ IsFiniteSet(OfManager \cup {obj[Manager]})
          /\ \/ Cardinality(OfManager \cup {obj[Manager]}) = Cardinality(OfManager)
             \/ Cardinality(OfManager \cup {obj[Manager]}) = Cardinality(OfManager) + 1
      BY <1>0, FS_AddElement
    <2>3. /\ IsFiniteSet(OfManager')
          /\ Cardinality(OfManager') <= Cardinality(OfManager \cup {obj[Manager]})
      BY <2>1, <2>2, FS_Subset
    <2>4. Cardinality(OfManager') \in Nat BY <2>3, FS_CardinalityType
    <2>5. slots' = slots - 1 /\ pc'[Manager] = "scan" BY <1>0, <1>3 DEF Enrol, Resume
    <2> QED BY <1>0, <2>2, <2>3, <2>4, <2>5 DEF Slots, Attempting
  <1>4. ASSUME ~Enrol(Manager), slots' = slots, pc'[Manager] \in Attempting => slots > 0
        PROVE  Slots'
    BY <1>0, <1>2, <1>4 DEF Slots
  <1>5. ASSUME BeginPass PROVE Slots'
    <2>1. slots' = OpenSlots /\ OpenSlots > 0 /\ pc'[Manager] = "scan" /\ pc[Manager] = "idle"
      BY <1>0, <1>5 DEF BeginPass
    <2>2. OpenSlots + Cardinality(OfManager) <= Target /\ OpenSlots \in Nat
      BY <2>1, UsableFacts DEF IInv
    <2>3. ~Enrol(Manager) BY <2>1 DEF Enrol
    <2> QED BY <1>0, <1>2, <2>1, <2>2, <2>3 DEF Slots, Attempting
  <1>6. ASSUME EndPass PROVE Slots'
    <2>1. slots' = 0 /\ pc'[Manager] = "idle" /\ pc[Manager] = "scan"
      BY <1>0, <1>6 DEF EndPass
    <2>2. ~Enrol(Manager) BY <2>1 DEF Enrol
    <2> QED BY <1>0, <1>2, <2>1, <2>2 DEF Slots, Attempting
  <1>7. CASE TryCandidate /\ ~Enrol(Manager) BY <1>4, <1>7, TryFacts
  <1>8. ASSUME NEW t, t # Manager, NEW l, pc' = [pc EXCEPT ![t] = l], slots' = slots,
               ~Enrol(Manager)
        PROVE  Slots'
    BY <1>0, <1>4, <1>8
  <1>9. ASSUME NEW c \in Callers, NEW l, Connect(c, l) \/ Accept(c, l), ~Enrol(Manager)
        PROVE  Slots'
    <2>1. slots' = slots /\ \E m : pc' = [pc EXCEPT ![c] = m]
      BY <1>9 DEF Connect, Dial, Accept, work
    <2> QED BY <1>0, <1>8, <1>9, <2>1
  <1>10. ASSUME NEW d \in Dialers, d # Manager, ~Enrol(Manager),
                \/ Opened(d) \/ NotOpened(d) \/ Greeted(d) \/ GreetingFails(d)
                \/ DropAttempt(d) \/ Enrol(d)
         PROVE  Slots'
    <2>1. slots' = slots /\ \E m : pc' = [pc EXCEPT ![d] = m]
      BY <1>10 DEF Opened, NotOpened, Greeted, GreetingFails, DropAttempt, Enrol, Punish,
                   Raised, work
    <2> QED BY <1>0, <1>8, <1>10, <2>1
  <1>11. ASSUME ~Enrol(Manager),
                \/ Opened(Manager) \/ NotOpened(Manager) \/ Greeted(Manager)
                \/ GreetingFails(Manager) \/ DropAttempt(Manager)
         PROVE  Slots'
    <2>1. slots' = slots
      BY <1>11 DEF Opened, NotOpened, Greeted, GreetingFails, DropAttempt, work
    <2>2. pc[Manager] \in Attempting
      BY <1>11 DEF Opened, NotOpened, Greeted, GreetingFails, DropAttempt, Attempting
    <2> QED BY <1>0, <1>4, <1>11, <2>1, <2>2
  <1>12. CASE (Survey \/ Plan) /\ ~Enrol(Manager)
    <2>1. slots' = slots /\ \E m : pc' = [pc EXCEPT ![Keepalive] = m]
      BY <1>12 DEF Survey, Plan, PlanWith, work
    <2> QED BY <1>0, <1>8, <1>12, <2>1
  <1>13. ASSUME NEW r \in Readers, ~Enrol(Manager),
                \/ Receive(r) \/ Handled(r) \/ Ponged(r) \/ ReceiveFails(r) \/ DropSession(r)
         PROVE  Slots'
    <2>1. slots' = slots /\ \E m : pc' = [pc EXCEPT ![r] = m]
      BY <1>13 DEF Receive, Handled, Ponged, ReceiveFails, Punish, DropSession, work
    <2> QED BY <1>0, <1>8, <1>13, <2>1
  <1>14. ASSUME pc' = pc, slots' = slots, ~Enrol(Manager) PROVE Slots' BY <1>0, <1>4, <1>14
  <1>15. CASE (SkipCandidate \/ Ping) /\ ~Enrol(Manager)
    BY <1>14, <1>15 DEF SkipCandidate, Ping, at
  <1>16. ASSUME NEW t \in Threads, CutRegistry(t) \/ CutPings(t) \/ CutSocket(t),
                ~Enrol(Manager)
         PROVE  Slots'
    BY <1>14, <1>16 DEF CutRegistry, CutPings, CutSocket, work
  <1>17. ASSUME NEW l, RetryDue(l) \/ BanLapses(l), ~Enrol(Manager) PROVE Slots'
    BY <1>14, <1>17 DEF RetryDue, BanLapses, work, at
  <1> QED
    BY StepCases, <1>3, <1>5, <1>6, <1>7, <1>9, <1>10, <1>11, <1>12, <1>13, <1>15, <1>16, <1>17

-----------------------------------------------------------------------------
(* Connections *)

\* A connection is made by an attempt that goes on over it.
LEMMA ConnsStep ==
  ASSUME IInv, Next, NEW k \in Keys, k \in conns', k \notin conns
  PROVE  \E t \in Threads : WorksOn(t, k)'
  <1> USE DEF At, Goto
  <1>0. /\ obj \in [Threads -> Objs \cup {None}] /\ None \notin Objs
        /\ pc \in [Threads -> {"idle", "scan", "open", "shake", "enrol",
                               "plan", "recv", "fail"}]
    BY ObjFacts DEF IInv, TypeOK
  <1>1. ASSUME NEW c \in Callers, NEW l \in InKeys, Accept(c, l)
        PROVE  \E t \in Threads : WorksOn(t, k)'
    <2>1. PICK o \in Objs : obj' = [obj EXCEPT ![c] = o] /\ o.key = l
      BY <1>1 DEF Accept, NewPeer
    <2>2. l = k /\ pc' = [pc EXCEPT ![c] = "shake"] /\ c \in Threads BY <1>1, ThreadFacts DEF Accept
    <2>3. obj'[c] = o /\ pc'[c] = "shake" /\ o # None BY <1>0, <2>1, <2>2
    <2> QED BY <2>1, <2>2, <2>3 DEF WorksOn
  <1>2. ASSUME NEW d \in Dialers, Opened(d)
        PROVE  \E t \in Threads : WorksOn(t, k)'
    <2>1. obj[d].key = k /\ obj' = obj /\ pc' = [pc EXCEPT ![d] = "shake"] BY <1>2 DEF Opened
    <2>2. d \in Threads /\ pc[d] \in Attempting BY <1>2, ThreadFacts DEF Opened, Attempting
    <2>3. obj[d] # None BY <2>2, HeldFacts
    <2> QED BY <1>0, <2>1, <2>2, <2>3 DEF WorksOn
  <1>3. ASSUME NEW c \in Callers, NEW l \in OutKeys, Connect(c, l) PROVE FALSE
    BY <1>3 DEF Connect, Dial
  <1>4. ASSUME NEW d \in Dialers, NotOpened(d) \/ Greeted(d) \/ GreetingFails(d)
                                  \/ DropAttempt(d) \/ Enrol(d)
        PROVE  FALSE
    BY <1>4 DEF NotOpened, Greeted, GreetingFails, DropAttempt, Enrol, tables
  <1>5. ASSUME \/ BeginPass \/ TryCandidate \/ SkipCandidate \/ EndPass
               \/ Survey \/ Plan \/ Ping
        PROVE  FALSE
    BY <1>5 DEF BeginPass, TryCandidate, Dial, SkipCandidate, EndPass, Survey, Plan, PlanWith, Ping,
                tables
  <1>6. ASSUME NEW r \in Readers, Receive(r) \/ Handled(r) \/ Ponged(r) \/ ReceiveFails(r)
                                  \/ DropSession(r)
        PROVE  FALSE
    BY <1>6 DEF Receive, Handled, Ponged, ReceiveFails, DropSession, tables
  <1>7. ASSUME NEW t \in Threads, CutRegistry(t) \/ CutPings(t) \/ CutSocket(t) PROVE FALSE
    BY <1>7 DEF CutRegistry, CutPings, CutSocket
  <1>8. ASSUME NEW l, RetryDue(l) \/ BanLapses(l) PROVE FALSE
    BY <1>8 DEF RetryDue, BanLapses, tables
  <1> QED BY StepCases, <1>1, <1>2, <1>3, <1>4, <1>5, <1>6, <1>7, <1>8

\* An object is let go of when its connection is closed, when it is registered,
\* when it stays registered, or to be disconnected.
LEMMA LetGoStep ==
  ASSUME IInv, Next, NEW t \in Threads, obj[t] # None, pc[t] # "open",
         obj'[t] # obj[t] \/ pc'[t] = "open"
  PROVE  \/ obj[t].key \notin conns' \/ ready'[obj[t].key] # None \/ obj[t] \in cut'[t]
  <1> USE ThreadFacts DEF At, Goto
  <1> DEFINE Goal == \/ obj[t].key \notin conns' \/ ready'[obj[t].key] # None
                     \/ obj[t] \in cut'[t]
  <1>0. /\ obj \in [Threads -> Objs \cup {None}] /\ None \notin Objs
        /\ pc \in [Threads -> {"idle", "scan", "open", "shake", "enrol",
                               "plan", "recv", "fail"}]
        /\ cut \in [Threads -> SUBSET Objs] /\ ready \in [Keys -> Objs \cup {None}]
        /\ obj[t] \in Objs /\ obj[t].key \in Keys
        /\ pc[t] \notin {"idle", "scan", "plan"}
    BY ObjFacts DEF IInv, TypeOK, Roles, Attempting
  <1>1. ASSUME NEW u \in Threads, u # t, \E l : pc' = [pc EXCEPT ![u] = l],
               \E o : obj' = [obj EXCEPT ![u] = o]
        PROVE  FALSE
    BY <1>0, <1>1
  <1>2. ASSUME NEW d \in Dialers, NEW k \in Keys, Dial(d, k), pc[d] \in {"idle", "scan"} PROVE FALSE
    <2>1. /\ \E o : obj' = [obj EXCEPT ![d] = o]
          /\ \E l : pc' = [pc EXCEPT ![d] = l]
      BY <1>2, DialFacts
    <2>2. d # t BY <1>0, <1>2
    <2> QED BY <1>1, <2>1, <2>2
  <1>3. ASSUME NEW c \in Callers, NEW k \in OutKeys, Connect(c, k) PROVE FALSE
    BY <1>2, <1>3, SessionsAssumption DEF Connect
  <1>4. CASE TryCandidate BY <1>2, <1>4, TryFacts
  <1>5. ASSUME NEW c \in Callers, NEW k \in InKeys, Accept(c, k) PROVE FALSE
    <2>1. /\ \E o : obj' = [obj EXCEPT ![c] = o]
          /\ \E l : pc' = [pc EXCEPT ![c] = l] /\ pc[c] = "idle"
      BY <1>5 DEF Accept
    <2>2. c # t BY <1>0, <2>1
    <2> QED BY <1>1, <2>1, <2>2
  <1>6. ASSUME obj' = obj, NEW u \in Threads, NEW l, l # "open", pc' = [pc EXCEPT ![u] = l]
        PROVE  FALSE
    BY <1>0, <1>6
  <1>7. ASSUME NEW d \in Dialers, Opened(d) \/ Greeted(d) \/ GreetingFails(d) PROVE FALSE
    <2>1. obj' = obj /\ \E l \in {"shake", "enrol", "fail"} : pc' = [pc EXCEPT ![d] = l]
      BY <1>7 DEF Opened, Greeted, GreetingFails, Punish
    <2> QED BY <1>6, <2>1
  <1>8. ASSUME NEW d \in Dialers, NotOpened(d) \/ DropAttempt(d) \/ Enrol(d) PROVE Goal
    <2>1. /\ obj' = [obj EXCEPT ![d] = None] /\ pc' = [pc EXCEPT ![d] = Resume(d)]
      BY <1>8 DEF NotOpened, DropAttempt, Enrol, Raised
    <2>2. d = t BY <1>1, <2>1
    <2>3. ~NotOpened(t) BY DEF NotOpened
    <2>4. ASSUME DropAttempt(t) PROVE obj[t].key \notin conns' BY <2>4 DEF DropAttempt
    <2>5. ASSUME Enrol(t) PROVE ready'[obj[t].key] # None
      <3>1. ready' = [ready EXCEPT ![obj[t].key] = obj[t]] BY <2>5 DEF Enrol
      <3> QED BY <1>0, <3>1
    <2> QED BY <1>8, <2>2, <2>3, <2>4, <2>5
  <1>9. ASSUME BeginPass \/ EndPass PROVE FALSE
    <2>1. obj' = obj /\ \E l \in {"scan", "idle"} : pc' = [pc EXCEPT ![Manager] = l]
      BY <1>9 DEF BeginPass, EndPass
    <2> QED BY <1>6, <2>1
  <1>10. ASSUME Survey \/ Plan PROVE FALSE
    <2>1. obj' = obj /\ \E l \in {"plan", "idle"} : pc' = [pc EXCEPT ![Keepalive] = l]
      BY <1>10 DEF Survey, Plan, PlanWith
    <2> QED BY <1>6, <2>1
  <1>11. ASSUME NEW r \in Readers, Receive(r) PROVE FALSE
    <2>1. /\ \E o : obj' = [obj EXCEPT ![r] = o] /\ pc[r] = "idle"
          /\ \E l : pc' = [pc EXCEPT ![r] = l]
      BY <1>11 DEF Receive
    <2>2. r # t BY <1>0, <2>1
    <2> QED BY <1>1, <2>1, <2>2
  <1>12. ASSUME NEW r \in Readers, Handled(r) \/ Ponged(r) PROVE Goal
    <2>1. /\ obj' = [obj EXCEPT ![r] = None] /\ pc' = [pc EXCEPT ![r] = "idle"]
          /\ ready' = ready /\ ready[obj[r].key] = obj[r]
      BY <1>12 DEF Handled, Ponged, IsReady, tables
    <2>2. r = t BY <1>1, <2>1
    <2> QED BY <2>1, <2>2
  <1>13. ASSUME NEW r \in Readers, ReceiveFails(r) PROVE FALSE
    <2>1. obj' = obj /\ \E l \in {"fail"} : pc' = [pc EXCEPT ![r] = l]
      BY <1>13 DEF ReceiveFails, Punish
    <2> QED BY <1>6, <2>1
  <1>14. ASSUME NEW r \in Readers, DropSession(r) PROVE Goal
    <2>1. /\ obj' = [obj EXCEPT ![r] = None] /\ pc' = [pc EXCEPT ![r] = "idle"]
          /\ cut' = [cut EXCEPT ![r] = {obj[r]}]
      BY <1>14 DEF DropSession
    <2>2. r = t BY <1>1, <2>1
    <2> QED BY <1>0, <2>1, <2>2
  <1>15. ASSUME SkipCandidate \/ Ping PROVE FALSE BY <1>15 DEF SkipCandidate, Ping, at
  <1>16. ASSUME NEW u \in Threads, CutRegistry(u) \/ CutPings(u) \/ CutSocket(u) PROVE FALSE
    BY <1>16 DEF CutRegistry, CutPings, CutSocket
  <1>17. ASSUME NEW l, RetryDue(l) \/ BanLapses(l) PROVE FALSE
    BY <1>17 DEF RetryDue, BanLapses, at
  <1> QED
    BY StepCases, <1>3, <1>4, <1>5, <1>7, <1>8, <1>9, <1>10, <1>11, <1>12, <1>13, <1>14,
       <1>15, <1>16, <1>17

\* What a thread is disconnecting it goes on with until the connection is closed.
LEMMA MidGoneStep ==
  ASSUME IInv, Next, NEW t \in Threads, mid[t] # None, mid'[t] # mid[t]
  PROVE  mid[t].key \notin conns'
  <1>0. mid \in [Threads -> Objs \cup {None}] BY DEF IInv, TypeOK
  <1>1. ASSUME NEW u \in Threads, CutRegistry(u) PROVE FALSE
    <2>1. mid[u] = None /\ \E p : mid' = [mid EXCEPT ![u] = p] BY <1>1 DEF CutRegistry
    <2>2. u # t BY <2>1
    <2> QED BY <1>0, <2>1, <2>2
  <1>2. ASSUME NEW u \in Threads, CutSocket(u) PROVE mid[t].key \notin conns'
    <2>1. mid' = [mid EXCEPT ![u] = None] /\ conns' = conns \ {mid[u].key} BY <1>2 DEF CutSocket
    <2>2. u = t BY <1>0, <2>1
    <2> QED BY <2>1, <2>2
  <1>3. ASSUME NEW c \in Callers, NEW l \in OutKeys, Connect(c, l) PROVE FALSE
    BY <1>3 DEF Connect, Dial
  <1>4. ASSUME NEW c \in Callers, NEW l \in InKeys, Accept(c, l) PROVE FALSE
    BY <1>4 DEF Accept
  <1>5. ASSUME NEW d \in Dialers, Opened(d) \/ NotOpened(d) \/ Greeted(d) \/ GreetingFails(d)
                                  \/ DropAttempt(d) \/ Enrol(d)
        PROVE  FALSE
    BY <1>5 DEF Opened, NotOpened, Greeted, GreetingFails, DropAttempt, Enrol
  <1>6. ASSUME \/ BeginPass \/ TryCandidate \/ SkipCandidate \/ EndPass
               \/ Survey \/ Plan \/ Ping
        PROVE  FALSE
    BY <1>6 DEF BeginPass, TryCandidate, Dial, SkipCandidate, EndPass, Survey, Plan, PlanWith, Ping,
                at
  <1>7. ASSUME NEW r \in Readers, Receive(r) \/ Handled(r) \/ Ponged(r) \/ ReceiveFails(r)
                                  \/ DropSession(r)
        PROVE  FALSE
    BY <1>7 DEF Receive, Handled, Ponged, ReceiveFails, DropSession
  <1>8. ASSUME NEW l, RetryDue(l) \/ BanLapses(l) PROVE FALSE
    BY <1>8 DEF RetryDue, BanLapses, at
  <1>9. ASSUME NEW u \in Threads, CutPings(u) PROVE FALSE BY <1>9 DEF CutPings
  <1> QED BY StepCases, <1>1, <1>2, <1>3, <1>4, <1>5, <1>6, <1>7, <1>8, <1>9

\* When a connection's peer goes or an attempt lets go of it, some thread has it to close.
LEMMA ConnectionsStep ==
  ASSUME IInv, Next
  PROVE  ConnectionsHeld'
  <1> SUFFICES ASSUME NEW k \in conns', ready'[k] = None
               PROVE  \E t \in Threads : WorksOn(t, k)'
    BY DEF ConnectionsHeld
  <1>0. /\ k \in Keys /\ None \notin Objs /\ obj \in [Threads -> Objs \cup {None}]
        /\ cut \in [Threads -> SUBSET Objs]
    BY TypeStep, ObjFacts DEF IInv, TypeOK
  <1>1. CASE k \notin conns BY <1>0, <1>1, ConnsStep
  <1>2. CASE k \in conns /\ ready[k] # None
    <2>1. ASSUME NEW d \in Dialers, Enrol(d), ready'[k] = obj[d] PROVE FALSE
      <3>1. pc[d] \in Attempting BY <2>1 DEF Enrol, At, Attempting
      <3>2. obj[d] # None BY <3>1, HeldFacts, ThreadFacts
      <3> QED BY <2>1, <3>2
    <2>2. PICK t \in Threads, o \in Objs : mid'[t] = o /\ k = o.key
      BY <1>0, <1>2, <2>1, ReadyStep
    <2> QED BY <1>0, <2>2 DEF WorksOn
  <1>3. CASE k \in conns /\ \E t \in Threads : WorksOn(t, k)
    <2>1. PICK t \in Threads : WorksOn(t, k) BY <1>3
    <2>2. CASE obj[t] # None /\ obj[t].key = k /\ pc[t] # "open"
      <3>1. CASE obj'[t] = obj[t] /\ pc'[t] # "open" BY <2>2, <3>1 DEF WorksOn
      <3>2. CASE ~ (obj'[t] = obj[t] /\ pc'[t] # "open")
        <4>1. obj[t] \in cut'[t] BY <2>2, <3>2, LetGoStep
        <4> QED BY <2>2, <4>1 DEF WorksOn
      <3> QED BY <3>1, <3>2
    <2>3. CASE mid[t] # None /\ mid[t].key = k
      <3>1. mid'[t] = mid[t] BY <2>3, MidGoneStep
      <3> QED BY <2>3, <3>1 DEF WorksOn
    <2>4. ASSUME NEW o \in cut[t], o.key = k PROVE WorksOn(t, k)'
      <3>1. CASE o \in cut'[t] BY <2>4, <3>1 DEF WorksOn
      <3>2. CASE o \notin cut'[t]
        <4>1. mid'[t] = o /\ o \in Objs BY <1>0, <3>2, CutStep
        <4> QED BY <1>0, <2>4, <4>1 DEF WorksOn
      <3> QED BY <3>1, <3>2
    <2> QED BY <2>1, <2>2, <2>3, <2>4 DEF WorksOn
  <1> QED BY <1>1, <1>2, <1>3 DEF IInv, ConnectionsHeld

-----------------------------------------------------------------------------
(* Theorems *)

\* A node that has just started satisfies the invariant.
LEMMA InitInv == ASSUME Init PROVE IInv
  <1>1. TypeOK BY SessionsAssumption DEF Init, TypeOK
  <1>2. Roles /\ Cuts /\ Fresh /\ Gone /\ Registered /\ ConnectionsHeld
    BY ThreadFacts DEF Init, Roles, Cuts, Cutting, Fresh, Gone, Registered, ConnectionsHeld, Attempting
  <1>3. Slots
    <2>1. OfManager = {} BY DEF Init, OfManager, Usable, ReadyPeers
    <2>2. Cardinality(OfManager) = 0 BY <2>1, FS_EmptySet
    <2> QED BY <2>2, ThreadFacts, SessionsAssumption DEF Init, Slots, Attempting
  <1> QED BY <1>1, <1>2, <1>3 DEF IInv

\* Nothing changes when no variable does.
LEMMA StutterStep ==
  ASSUME IInv, UNCHANGED vars
  PROVE  IInv'
  <1>1. /\ UNCHANGED <<book, conns, ready, usable, pings, score, banned, deferred>>
        /\ UNCHANGED <<slots, todo, due, pc, obj, cut, mid>>
    BY DEF vars, tables, policy, work, at
  <1>2. ReadyPeers' = ReadyPeers /\ OfManager' = OfManager
    BY <1>1 DEF ReadyPeers, OfManager, Usable
  <1>3. TypeOK' BY <1>1 DEF IInv, TypeOK
  <1>4. Roles' /\ Cuts' BY <1>1 DEF IInv, Roles, Cuts, Cutting
  <1>5. Fresh' /\ Gone' BY <1>1, <1>2 DEF IInv, Fresh, Held, Pinged, Gone
  <1>6. Registered' /\ Slots' /\ ConnectionsHeld'
    BY <1>1, <1>2 DEF IInv, Registered, Slots, ConnectionsHeld, WorksOn
  <1> QED BY <1>3, <1>4, <1>5, <1>6 DEF IInv

\* In every reachable state each object of an attempt is its own, what is being
\* disconnected is out of the table, and nothing to be disconnected is forgotten.
THEOREM Invariant == Spec => []IInv
  <1>1. Init => IInv BY InitInv
  <1>2. IInv /\ [Next]_vars => IInv'
    <2>1. ASSUME IInv, Next PROVE IInv'
      BY <2>1, TypeStep, RolesStep, CutsStep, FreshStep, GoneStep, RegisteredStep, SlotsStep,
         ConnectionsStep
      DEF IInv
    <2> QED BY <2>1, StutterStep
  <1> QED BY <1>1, <1>2, PTL DEF Spec

\* The tables hold peers by key, and every thread is at a step of its own work.
THEOREM TypeCorrect == Spec => []TypeOK
  <1>1. IInv => TypeOK BY DEF IInv
  <1> QED BY <1>1, Invariant, PTL

\* Transport._conns: a connection belongs to a registered peer, or some attempt is
\* using it, or some thread is about to close it.
THEOREM NoneLeftBehind == Spec => []ConnectionsHeld
  <1>1. IInv => ConnectionsHeld BY DEF IInv
  <1> QED BY <1>1, Invariant, PTL

\* Node._ready_peers: a registered peer is ready, or a thread is ending it.
THEOREM RegisteredReady == Spec => []RegisteredAreReady
  <1>1. IInv => RegisteredAreReady
    BY DEF IInv, Registered, RegisteredAreReady, WorksOn
  <1> QED BY <1>1, Invariant, PTL

\* PeerManager: it never has more than target_outbound peers connected, whatever
\* the callers connect and the other threads disconnect meanwhile.
THEOREM TargetKept == Spec => []OutboundBounded
  <1>1. IInv => OutboundBounded
    <2> SUFFICES ASSUME IInv PROVE OutboundBounded OBVIOUS
    <2>1. TypeOK BY DEF IInv
    <2>2. Cardinality(OfManager) \in Nat /\ slots \in Nat /\ Target \in Nat
      BY <2>1, UsableFacts, SessionsAssumption DEF TypeOK
    <2>3. Cardinality(OfManager) + slots <= Target BY DEF IInv, Slots
    <2>4. Cardinality(OfManager) <= Target BY <2>2, <2>3
    <2> QED BY <2>4 DEF OutboundBounded, OfManager
  <1> QED BY <1>1, Invariant, PTL

=============================================================================
