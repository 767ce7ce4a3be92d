---------------------------- MODULE Relay_proofs -----------------------------
(***************************************************************************)
(* An item is asked of one ready peer at a time, for any peers, callers    *)
(* and items, however they are interleaved.                                *)
(***************************************************************************)
EXTENDS Relay, TLAPS

\* What a thread that announces or looks through an inv has left, and that it has
\* an item where it needs one.
InHand ==
    \A t \in Threads :
        /\ pc[t] = "tell" => left[t] \subseteq Peers
        /\ pc[t] \in {"inv", "claim"} => left[t] \subseteq Items
        /\ pc[t] \in {"claim", "submit"} => item[t] \in Items

\* What a ready peer was asked for, or is about to be asked for, is claimed for
\* it, unless the node has it by now, or the claim was given up, ended by another
\* peer's answer, or dropped with an earlier session of that peer.
Claimed ==
    \A p \in ready : \A i \in (asked[p] \cup took[p]) \ (have \cup freed \cup dropped) :
        requests[i] # None /\ requests[i].peer = p

\* A request is not repeated while the first one is open.
NotRepeated ==
    \A p \in ready : asked[p] \cap took[p] \subseteq have \cup freed \cup dropped

\* A claim that is too old is known to have been given up.
LateIsFreed == \A i \in Items : (requests[i] # None /\ requests[i].late) => i \in freed

\* A closed connection has nothing on its way, and a reader has claims in hand
\* only while it works on an inv.
ClosedIsEmpty == \A p \in Peers : p \notin open => asked[p] = {}
TookInHand == \A p \in Peers : pc[p] \notin {"inv", "claim"} => took[p] = {}

\* The table after the requests that are too old have gone.
Remaining == [j \in Items |-> Unexpired(j)]

Typed == TypeOK /\ InHand
Asking == Claimed /\ NotRepeated /\ LateIsFreed /\ ClosedIsEmpty /\ TookInHand

-----------------------------------------------------------------------------
(* Types *)

\* What a thread does next about a disconnection is of its type.
LEMMA EndingType ==
  ASSUME TypeOK, NEW t \in Threads, NEW p \in Peers,
         NEW step \in {"claims", "sync", "close"}
  PROVE  [gone EXCEPT ![t] = [peer |-> p, next |-> step]] \in [Threads -> Endings \cup {None}]
  BY DEF TypeOK, Endings

\* Each step of a disconnection keeps the types.
LEMMA DisconnectType ==
  ASSUME TypeOK, NEW t \in Threads, NEW p \in Peers, Disconnect(t, p)
  PROVE  /\ ready' \subseteq Peers /\ open' \subseteq Peers
         /\ requests' \in [Items -> [peer : Peers, late : BOOLEAN] \cup {None}]
         /\ have' \subseteq Items /\ freed' \subseteq Items /\ dropped' \subseteq Items
         /\ asked' \in [Peers -> SUBSET Items]
         /\ sync' \in [state : States, owner : Peers \cup {None}, awaiting : BOOLEAN]
         /\ best' \in 0..Top
         /\ locators' \in [Peers -> SUBSET (0..Top)]
         /\ gone' \in [Threads -> Endings \cup {None}]
  BY EndingType DEF TypeOK, Disconnect, headers

LEMMA EndsTyped ==
  ASSUME Typed, NEW t \in Threads, NEW p \in Peers,
         ReleasePeer(t, p) \/ SyncLoses(t, p) \/ Close(t, p)
  PROVE  Typed'
  <1> USE DEF Typed, TypeOK, InHand, tables, headers, locals
  <1>1. CASE ReleasePeer(t, p)
    <2>1. gone' \in [Threads -> Endings \cup {None}]
      BY <1>1, EndingType DEF ReleasePeer, Then
    <2>2. /\ requests' \in [Items -> [peer : Peers, late : BOOLEAN] \cup {None}]
          /\ dropped' \subseteq Items
      BY <1>1 DEF ReleasePeer
    <2> QED BY <1>1, <2>1, <2>2 DEF ReleasePeer
  <1>2. CASE SyncLoses(t, p)
    <2>1. gone' \in [Threads -> Endings \cup {None}]
      BY <1>2, EndingType DEF SyncLoses, Then
    <2>2. sync' \in [state : States, owner : Peers \cup {None}, awaiting : BOOLEAN]
      BY <1>2 DEF SyncLoses, States
    <2> QED BY <1>2, <2>1, <2>2 DEF SyncLoses
  <1>3. CASE Close(t, p)
    BY <1>3 DEF Close
  <1> QED BY <1>1, <1>2, <1>3

\* Releasing claims keeps the types of the claims and of their history.
LEMMA ReleaseType ==
  ASSUME TypeOK, NEW these \in SUBSET Items, NEW by, Release(these, by)
  PROVE  /\ requests' \in [Items -> [peer : Peers, late : BOOLEAN] \cup {None}]
         /\ freed' \subseteq Items /\ dropped' \subseteq Items
  BY DEF TypeOK, Release

\* What a claim does to the table.
LEMMA ClaimDoes ==
  ASSUME NEW p \in Peers, Claim(p)
  PROVE  \/ /\ Remaining[item[p]] = None
            /\ requests' = [Remaining EXCEPT ![item[p]] = [peer |-> p, late |-> FALSE]]
            /\ took' = [took EXCEPT ![p] = @ \cup {item[p]}]
         \/ requests' = Remaining /\ took' = took
  BY DEF Claim, Remaining

\* A claim that takes an item in hand keeps the type of the table.
LEMMA ClaimType ==
  ASSUME TypeOK, NEW p \in Peers, item[p] \in Items, Claim(p)
  PROVE  requests' \in [Items -> [peer : Peers, late : BOOLEAN] \cup {None}]
  <1>1. Remaining \in [Items -> [peer : Peers, late : BOOLEAN] \cup {None}]
    BY DEF TypeOK, Remaining, Unexpired, InFlight
  <1>2. [peer |-> p, late |-> FALSE] \in [peer : Peers, late : BOOLEAN] OBVIOUS
  <1>3. [Remaining EXCEPT ![item[p]] = [peer |-> p, late |-> FALSE]]
          \in [Items -> [peer : Peers, late : BOOLEAN] \cup {None}]
    BY <1>1, <1>2
  <1> QED BY <1>1, <1>3, ClaimDoes

\* The first state is of its types.
LEMMA InitTyped == ASSUME Init PROVE Typed
  <1>1. PICK s \in Starts : have = s.have BY DEF Init
  <1>2. s.have \subseteq Items BY <1>1, RelayAssumption
  <1>3. Top \in Nat /\ Peers \subseteq Threads BY RelayAssumption DEF Threads
  <1>4. NoBatch \in Batches BY <1>3 DEF NoBatch, Batches
  <1>5. TypeOK BY <1>1, <1>2, <1>3, <1>4 DEF Init, TypeOK, States
  <1> QED BY <1>5 DEF Init, Typed, InHand

\* A thread that goes on keeps the types.
LEMMA WorkTyped ==
  ASSUME Typed, NEW t \in Threads, Work(t)
  PROVE  Typed'
  <1> USE DEF Typed, TypeOK, InHand, At, Goto, Spend, tables, headers, locals
  <1>0. None \notin Threads \cup Items /\ Peers \subseteq Threads BY RelayAssumption DEF Threads
  <1>1. ASSUME NEW p \in Peers, ReleasePeer(t, p) \/ SyncLoses(t, p) \/ Close(t, p) PROVE Typed'
    BY <1>1, EndsTyped
  <1>2. CASE Accepted(t)
    <2>1. item[t] \in Items /\ ready \ {t} \subseteq Peers BY <1>2 DEF Accepted
    <2>2. requests' \in [Items -> [peer : Peers, late : BOOLEAN] \cup {None}] /\ freed' \subseteq Items /\ dropped' \subseteq Items
      BY <1>2, <2>1, ReleaseType DEF Accepted
    <2> QED BY <1>2, <2>1, <2>2 DEF Accepted
  <1>3. CASE Rejected(t)
    BY <1>3 DEF Rejected
  <1>4. CASE Tell(t)
    <2>1. PICK q \in left[t] :
            /\ left' = [left EXCEPT ![t] = @ \ {q}]
            /\ \/ UNCHANGED <<tables, headers, gone>>
               \/ Disconnect(t, q)
      BY <1>4 DEF Tell
    <2>2. q \in Peers BY <1>4 DEF Tell
    <2>3. CASE UNCHANGED <<tables, headers, gone>> BY <1>4, <2>1, <2>3 DEF Tell
    <2>4. CASE Disconnect(t, q)
      BY <1>4, <2>1, <2>2, <2>4, DisconnectType DEF Tell
    <2> QED BY <2>1, <2>3, <2>4
  <1>5. CASE Told(t)
    BY <1>5 DEF Told
  <1>6. CASE Request(t)
    BY <1>6 DEF Request
  <1>7. CASE Await(t)
    BY <1>7 DEF Await
  <1>8. CASE t \in Callers /\ Begin(t)
    BY <1>8 DEF Begin, States
  <1>9. CASE t \in Peers /\ Fail(t)
    BY <1>9, DisconnectType DEF Fail
  <1>10. CASE t \in Peers /\ LookAt(t)
    BY <1>10 DEF LookAt
  <1>11. CASE t \in Peers /\ Claim(t)
    <2>1. item[t] \in Items BY <1>11 DEF Claim
    <2>2. requests' \in [Items -> [peer : Peers, late : BOOLEAN] \cup {None}]
      BY <1>11, <2>1, ClaimType
    <2>3. took' \in [Threads -> SUBSET Items]
      BY <1>11, <2>1 DEF Claim
    <2> QED BY <1>11, <2>2, <2>3 DEF Claim
  <1>12. CASE t \in Peers /\ Ask(t)
    <2>1. took[t] \in SUBSET Items BY <1>12, <1>0
    <2>2. requests' \in [Items -> [peer : Peers, late : BOOLEAN] \cup {None}] /\ freed' \subseteq Items /\ dropped' \subseteq Items
      BY <1>12, <2>1, ReleaseType DEF Ask
    <2>3. asked' \in [Peers -> SUBSET Items] BY <1>12, <2>1 DEF Ask
    <2> QED BY <1>12, <2>2, <2>3 DEF Ask
  <1>13. CASE t \in Peers /\ Store(t)
    <2>1. batch[t] \in Batches BY <1>13, <1>0
    <2>2. best' \in 0..Top BY <1>13, <2>1 DEF Store, Batches
    <2>3. NoBatch \in Batches BY RelayAssumption DEF NoBatch, Batches
    <2>4. sync' \in [state : States, owner : Peers \cup {None}, awaiting : BOOLEAN]
      BY <1>13 DEF Store, States
    <2>5. with' \in [Threads -> Peers \cup {None}] BY <1>13, <1>0 DEF Store
    <2>6. batch' \in [Threads -> Batches] BY <1>13, <2>3 DEF Store
    <2>7. PICK l \in {"fail", "next", "idle"} : Goto(t, l) BY <1>13 DEF Store
    <2>8. UNCHANGED <<tables, locators, left, took, item, gone, budget>> BY <1>13 DEF Store
    <2> QED BY <2>2, <2>4, <2>5, <2>6, <2>7, <2>8
  <1> QED
    BY <1>1, <1>2, <1>3, <1>4, <1>5, <1>6, <1>7, <1>8, <1>9, <1>10, <1>11, <1>12, <1>13 DEF Work

\* Every step keeps the types.
LEMMA NextTyped ==
  ASSUME Typed, [Next]_vars
  PROVE  Typed'
  <1> USE DEF Typed, TypeOK, InHand, At, Goto, Spend, tables, headers, locals
  <1>0. None \notin Threads \cup Items /\ Peers \subseteq Threads BY RelayAssumption DEF Threads
  <1>1. CASE \E p \in Peers : Silent(p) \/ HearAddr(p) \/ Reconnect(p)
    BY <1>1, <1>0 DEF Silent, HearAddr, Reconnect, Hears
  <1>2. ASSUME NEW p \in Peers, NEW these \in SUBSET Items, HearInv(p, these) PROVE Typed'
    BY <1>2, <1>0 DEF HearInv, Hears
  <1>3. ASSUME NEW p \in Peers, NEW i \in Items, HearItem(p, i) PROVE Typed'
    <2>1. requests' \in [Items -> [peer : Peers, late : BOOLEAN] \cup {None}] /\ freed' \subseteq Items /\ dropped' \subseteq Items
      BY <1>3, ReleaseType DEF HearItem
    <2> QED BY <1>3, <1>0, <2>1 DEF HearItem, Hears
  <1>4. ASSUME NEW p \in Peers, NEW i \in Items, HearNotFound(p, i) PROVE Typed'
    <2>1. requests' \in [Items -> [peer : Peers, late : BOOLEAN] \cup {None}] /\ freed' \subseteq Items /\ dropped' \subseteq Items
      <3>1. {i} \in SUBSET Items OBVIOUS
      <3>2. Release({i}, IF i \in asked[p] THEN p ELSE None) BY <1>4 DEF HearNotFound
      <3> QED BY <3>1, <3>2, ReleaseType
    <2> QED BY <1>4, <1>0, <2>1 DEF HearNotFound, Hears
  <1>5. ASSUME NEW p \in Peers, NEW from \in 0..Top, NEW b \in Batches, HearHeaders(p, from, b)
        PROVE Typed'
    <2>1. sync' \in [state : States, owner : Peers \cup {None}, awaiting : BOOLEAN]
      BY <1>5 DEF HearHeaders, States
    <2> QED BY <1>5, <1>0, <2>1 DEF HearHeaders, Hears
  <1>6. ASSUME NEW i \in Items, TooOld(i) PROVE Typed'
    <2>1. requests[i] \in [peer : Peers, late : BOOLEAN] BY <1>6 DEF TooOld, InFlight
    <2>2. [requests[i] EXCEPT !.late = TRUE] \in [peer : Peers, late : BOOLEAN] BY <2>1
    <2>3. requests' \in [Items -> [peer : Peers, late : BOOLEAN] \cup {None}] BY <1>6, <2>2 DEF TooOld
    <2> QED BY <1>6, <2>3 DEF TooOld
  <1>7. ASSUME NEW c \in Callers, NEW i \in Items, HandIn(c, i) PROVE Typed'
    BY <1>7 DEF HandIn, Threads
  <1>8. ASSUME NEW c \in Callers, NEW p \in Peers, Drop(c, p) PROVE Typed'
    BY <1>8, DisconnectType DEF Drop, Threads
  <1>9. ASSUME NEW c \in Callers, NEW p \in Peers, StartSync(c, p) PROVE Typed'
    BY <1>9 DEF StartSync, Threads
  <1>10. CASE UNCHANGED vars BY <1>10 DEF vars
  <1> QED
    BY <1>1, <1>2, <1>3, <1>4, <1>5, <1>6, <1>7, <1>8, <1>9, <1>10, WorkTyped DEF Next

-----------------------------------------------------------------------------
(* One peer at a time *)

\* At first nothing is asked, claimed or in hand.
LEMMA InitAsking == ASSUME Init PROVE Asking
  BY DEF Init, Asking, Claimed, NotRepeated, LateIsFreed, ClosedIsEmpty, TookInHand, Threads

\* A step that leaves the tables alone.
LEMMA TablesKept ==
  ASSUME Asking, UNCHANGED tables, took' = took, TookInHand'
  PROVE  Asking'
  BY DEF Asking, Claimed, NotRepeated, LateIsFreed, ClosedIsEmpty, tables

\* A peer that leaves the registry is not ready any more.
LEMMA DisconnectAsking ==
  ASSUME Asking, NEW t, NEW p, Disconnect(t, p), took' = took, TookInHand'
  PROVE  Asking'
  BY DEF Asking, Claimed, NotRepeated, LateIsFreed, ClosedIsEmpty, Disconnect

\* What a disconnection does to the claims of a peer that is ready again is
\* recorded, and closing its connection takes all with it that is on its way.
LEMMA EndsAsking ==
  ASSUME Typed, Asking, NEW t \in Threads, NEW p \in Peers,
         ReleasePeer(t, p) \/ SyncLoses(t, p) \/ Close(t, p)
  PROVE  Asking'
  <1>0. /\ \A q \in ready : asked[q] \cup took[q] \subseteq Items
        /\ asked \in [Peers -> SUBSET Items] /\ ready \subseteq Peers
    BY DEF Typed, TypeOK, Threads
  <1>1. CASE ReleasePeer(t, p)
    <2> DEFINE owned == {i \in Items : InFlight(i) /\ requests[i].peer = p}
    <2>1. /\ \A i \in Items : requests'[i] = IF i \in owned THEN None ELSE requests[i]
          /\ dropped' = IF p \in ready THEN dropped \cup owned ELSE dropped
          /\ UNCHANGED <<ready, open, freed, have, asked, took, pc>>
      BY <1>1 DEF ReleasePeer, locals
    <2>2. Claimed'
      <3> SUFFICES ASSUME NEW q \in ready, NEW i \in (asked[q] \cup took[q]) \ (have \cup freed \cup dropped')
                   PROVE  requests'[i] # None /\ requests'[i].peer = q
        BY <2>1 DEF Claimed
      <3>1. i \in Items /\ requests[i] # None /\ requests[i].peer = q
        BY <1>0, <2>1 DEF Asking, Claimed
      <3>2. i \notin owned BY <2>1, <3>1
      <3> QED BY <2>1, <3>1, <3>2
    <2>3. NotRepeated' BY <2>1 DEF Asking, NotRepeated
    <2>4. LateIsFreed' BY <2>1 DEF Asking, LateIsFreed
    <2> QED BY <2>1, <2>2, <2>3, <2>4 DEF Asking, ClosedIsEmpty, TookInHand
  <1>2. CASE SyncLoses(t, p)
    <2>1. UNCHANGED <<tables, took, pc>> BY <1>2 DEF SyncLoses, locals
    <2> QED BY <2>1, TablesKept DEF Asking, TookInHand
  <1>3. CASE Close(t, p)
    <2>1. /\ \A q \in Peers : asked'[q] \subseteq asked[q]
          /\ \A q \in Peers : q \notin open' => asked'[q] = {}
      BY <1>0, <1>3 DEF Close, Asking, ClosedIsEmpty
    <2>2. UNCHANGED <<ready, requests, freed, dropped, have, pc, took>>
      BY <1>3 DEF Close, locals
    <2> QED
      BY <1>0, <2>1, <2>2 DEF Asking, Claimed, NotRepeated, LateIsFreed, ClosedIsEmpty, TookInHand
  <1> QED BY <1>1, <1>2, <1>3

\* What ends a claim for somebody else than its owner records that it did.
LEMMA ReleaseAsking ==
  ASSUME Typed, Asking, NEW these, NEW by, Release(these, by)
  PROVE  /\ freed \subseteq freed' /\ dropped' = dropped
         /\ LateIsFreed'
         /\ \A q \in ready : \A i \in (asked[q] \cup took[q]) \ (have \cup freed' \cup dropped') :
                \/ requests'[i] # None /\ requests'[i].peer = q
                \/ q = by /\ i \in these
  <1>1. \A i \in Items : requests'[i] = IF i \in these THEN None ELSE requests[i]
    BY DEF Release
  <1>2. freed' = freed \cup {i \in these : InFlight(i) /\ requests[i].peer # by} /\ dropped' = dropped
    BY DEF Release
  <1>3. \A q \in ready : asked[q] \cup took[q] \subseteq Items
    BY DEF Typed, TypeOK, Threads
  <1>4. LateIsFreed' BY <1>1, <1>2 DEF Asking, LateIsFreed
  <1>5. ASSUME NEW q \in ready, NEW i \in (asked[q] \cup took[q]) \ (have \cup freed' \cup dropped'),
               ~(q = by /\ i \in these)
        PROVE  requests'[i] # None /\ requests'[i].peer = q
    <2>1. requests[i] # None /\ requests[i].peer = q BY <1>2, <1>5 DEF Asking, Claimed
    <2>2. i \notin these BY <1>2, <1>5, <2>1 DEF InFlight
    <2> QED BY <1>1, <1>3, <1>5, <2>1, <2>2
  <1> QED BY <1>2, <1>4, <1>5

\* A claim takes an item nobody holds, or one whose holder was given up.
LEMMA ClaimAsking ==
  ASSUME Typed, Asking, NEW p \in Peers, Claim(p)
  PROVE  Asking'
  <1>1. item[p] \in Items /\ pc[p] = "claim" /\ p \in Threads
    BY DEF Typed, InHand, Claim, At, Threads
  <1>2. UNCHANGED <<ready, open, freed, dropped, have, asked>> /\ pc' = [pc EXCEPT ![p] = "inv"]
    BY DEF Claim, Goto
  <1>3. /\ pc \in [Threads -> {"idle", "inv", "claim", "submit", "tell", "start",
                                "begun", "next", "await", "headers", "fail"}]
        /\ took \in [Threads -> SUBSET Items]
        /\ requests \in [Items -> [peer : Peers, late : BOOLEAN] \cup {None}]
        /\ asked \in [Peers -> SUBSET Items] /\ ready \subseteq Peers /\ Peers \subseteq Threads
    BY DEF Typed, TypeOK, Threads
  <1>4. ASSUME NEW q \in ready, NEW i \in (asked[q] \cup took[q]) \ (have \cup freed \cup dropped)
        PROVE  Remaining[i] # None /\ Remaining[i].peer = q
    <2>1. i \in Items /\ requests[i] # None /\ requests[i].peer = q
      BY <1>3 DEF Asking, Claimed
    <2>2. ~requests[i].late BY <2>1 DEF Asking, LateIsFreed
    <2> QED BY <2>1, <2>2 DEF Remaining, Unexpired, InFlight
  <1>5. \A i \in Items : Remaining[i] # None => ~Remaining[i].late
    BY <1>3 DEF Remaining, Unexpired, InFlight
  <1>6. CASE requests' = Remaining /\ took' = took
    <2>1. Claimed' BY <1>2, <1>4, <1>6 DEF Claimed
    <2>2. LateIsFreed' BY <1>5, <1>6 DEF LateIsFreed
    <2>3. TookInHand' BY <1>1, <1>2, <1>3, <1>6 DEF Asking, TookInHand
    <2> QED BY <1>2, <1>6, <2>1, <2>2, <2>3 DEF Asking, NotRepeated, ClosedIsEmpty
  <1>7. CASE /\ Remaining[item[p]] = None
             /\ requests' = [Remaining EXCEPT ![item[p]] = [peer |-> p, late |-> FALSE]]
             /\ took' = [took EXCEPT ![p] = @ \cup {item[p]}]
    <2>1. /\ \A i \in Items \ {item[p]} : requests'[i] = Remaining[i]
          /\ requests'[item[p]] = [peer |-> p, late |-> FALSE]
      BY <1>1, <1>7 DEF Remaining
    <2>2. /\ \A q \in Peers \ {p} : took'[q] = took[q]
          /\ took'[p] = took[p] \cup {item[p]}
      BY <1>1, <1>3, <1>7
    <2>3. \A q \in ready : item[p] \in asked[q] \cup took[q] => item[p] \in have \cup freed \cup dropped
      BY <1>4, <1>7
    <2>4. requests'[item[p]] # None /\ requests'[item[p]].peer = p /\ ~requests'[item[p]].late
      <3>1. [peer |-> p, late |-> FALSE] \in [peer : Peers, late : BOOLEAN] OBVIOUS
      <3>2. None \notin [peer : Peers, late : BOOLEAN] BY RelayAssumption
      <3>3. [peer |-> p, late |-> FALSE] # None BY <3>1, <3>2
      <3> QED BY <2>1, <3>3
    <2>5. Claimed'
      <3> SUFFICES ASSUME NEW q \in ready, NEW i \in (asked[q] \cup took'[q]) \ (have \cup freed \cup dropped)
                   PROVE  requests'[i] # None /\ requests'[i].peer = q
        BY <1>2 DEF Claimed
      <3>1. CASE i = item[p] BY <1>3, <2>2, <2>3, <2>4, <3>1
      <3>2. CASE i # item[p]
        <4>1. i \in asked[q] \cup took[q] BY <1>3, <2>2, <3>2
        <4>2. i \in Items BY <1>3, <4>1
        <4> QED BY <1>4, <2>1, <3>2, <4>1, <4>2
      <3> QED BY <3>1, <3>2
    <2>6. NotRepeated' BY <1>2, <1>3, <2>2, <2>3 DEF Asking, NotRepeated
    <2>7. LateIsFreed' BY <1>2, <1>5, <2>1, <2>4 DEF LateIsFreed
    <2>8. TookInHand' BY <1>1, <1>2, <1>3, <2>2 DEF Asking, TookInHand
    <2> QED BY <1>2, <2>5, <2>6, <2>7, <2>8 DEF Asking, ClosedIsEmpty
  <1> QED BY <1>6, <1>7, ClaimDoes

\* A thread that goes on keeps the bookkeeping of claims.
LEMMA WorkAsking ==
  ASSUME Typed, Asking, NEW t \in Threads, Work(t)
  PROVE  Asking'
  <1>0. /\ Peers \subseteq Threads /\ None \notin Peers /\ ready \subseteq Peers
        /\ pc \in [Threads -> {"idle", "inv", "claim", "submit", "tell", "start",
                                "begun", "next", "await", "headers", "fail"}]
        /\ took \in [Threads -> SUBSET Items]
        /\ asked \in [Peers -> SUBSET Items]
    BY RelayAssumption DEF Threads, Typed, TypeOK
  <1>1. ASSUME NEW p \in Peers, ReleasePeer(t, p) \/ SyncLoses(t, p) \/ Close(t, p) PROVE Asking'
    BY <1>1, EndsAsking
  <1>2. CASE Accepted(t)
    <2>1. /\ have' = have \cup {item[t]} /\ Release({item[t]}, t)
          /\ UNCHANGED <<ready, open, asked, took>>
          /\ pc[t] = "submit" /\ pc' = [pc EXCEPT ![t] = "tell"]
      BY <1>2 DEF Accepted, At, Goto
    <2>2. TookInHand' BY <1>0, <2>1 DEF Asking, TookInHand
    <2>3. Claimed' BY <2>1, ReleaseAsking DEF Claimed
    <2>4. freed \subseteq freed' /\ dropped' = dropped /\ LateIsFreed' BY <2>1, ReleaseAsking
    <2> QED BY <2>1, <2>2, <2>3, <2>4 DEF Asking, NotRepeated, ClosedIsEmpty
  <1>3. CASE Tell(t)
    <2>1. PICK q \in left[t] : UNCHANGED tables \/ Disconnect(t, q)
      BY <1>3 DEF Tell
    <2>2. pc' = pc /\ took' = took BY <1>3 DEF Tell
    <2>3. TookInHand' BY <2>2 DEF Asking, TookInHand
    <2> QED BY <2>1, <2>2, <2>3, TablesKept, DisconnectAsking
  <1>4. CASE t \in Peers /\ Fail(t)
    <2>1. Disconnect(t, t) /\ took' = took /\ pc[t] = "fail" /\ pc' = [pc EXCEPT ![t] = "idle"]
      BY <1>4 DEF Fail, At, Goto, locals
    <2>2. TookInHand' BY <1>0, <2>1 DEF Asking, TookInHand
    <2> QED BY <2>1, <2>2, DisconnectAsking
  <1>5. CASE t \in Peers /\ Claim(t)
    BY <1>5, ClaimAsking
  <1>6. CASE t \in Peers /\ Ask(t)
    <2>1. /\ UNCHANGED <<ready, open, have>>
          /\ took' = [took EXCEPT ![t] = {}]
          /\ pc[t] = "inv"
      BY <1>6 DEF Ask, At
    <2>2. took'[t] = {} /\ \A q \in Peers \ {t} : took'[q] = took[q]
      BY <1>0, <2>1
    <2>3. TookInHand'
      <3>1. \E l \in {"idle", "fail"} : pc' = [pc EXCEPT ![t] = l] BY <1>6 DEF Ask, Goto
      <3> QED BY <1>0, <2>2, <3>1 DEF Asking, TookInHand
    <2>4. CASE /\ took[t] = {} \/ t \in open
               /\ asked' = [asked EXCEPT ![t] = @ \cup took[t]]
               /\ UNCHANGED <<requests, freed, dropped>>
      <3>1. asked'[t] = asked[t] \cup took[t] /\ \A q \in Peers \ {t} : asked'[q] = asked[q]
        BY <1>0, <1>6, <2>4
      <3>2. \A q \in Peers : asked'[q] \cup took'[q] = asked[q] \cup took[q]
        BY <2>2, <3>1
      <3>3. Claimed' BY <1>0, <2>1, <2>4, <3>2 DEF Asking, Claimed
      <3>4. NotRepeated' BY <1>0, <2>1, <2>2, <2>4, <3>1 DEF Asking, NotRepeated
      <3>5. ClosedIsEmpty' BY <2>1, <2>4, <3>1 DEF Asking, ClosedIsEmpty
      <3>6. LateIsFreed' BY <2>4 DEF Asking, LateIsFreed
      <3> QED BY <2>3, <3>3, <3>4, <3>5, <3>6 DEF Asking
    <2>5. CASE Release(took[t], t) /\ asked' = asked
      <3>1. freed \subseteq freed' /\ dropped' = dropped /\ LateIsFreed' BY <2>5, ReleaseAsking
      <3>2. NotRepeated' BY <1>0, <2>1, <2>2, <2>5, <3>1 DEF Asking, NotRepeated
      <3>3. Claimed'
        <4> SUFFICES ASSUME NEW q \in ready, NEW i \in (asked[q] \cup took'[q]) \ (have \cup freed' \cup dropped')
                     PROVE  requests'[i] # None /\ requests'[i].peer = q
          BY <2>1, <2>5 DEF Claimed
        <4>1. i \in asked[q] \cup took[q] BY <1>0, <2>2
        <4>2. ~(q = t /\ i \in took[t]) BY <2>2, <3>1 DEF Asking, NotRepeated
        <4> QED BY <2>5, <4>1, <4>2, ReleaseAsking
      <3>4. ClosedIsEmpty' BY <2>1, <2>5 DEF Asking, ClosedIsEmpty
      <3> QED BY <2>3, <3>1, <3>2, <3>3, <3>4 DEF Asking
    <2> QED BY <1>6, <2>4, <2>5 DEF Ask
  <1>7. CASE \/ Rejected(t) \/ Told(t) \/ Request(t) \/ Await(t)
            \/ (t \in Callers /\ Begin(t)) \/ (t \in Peers /\ Store(t))
    <2>1. UNCHANGED <<tables, took>>
      BY <1>7 DEF Rejected, Told, Request, Await, Begin, Store, locals
    <2>2. /\ pc[t] \notin {"inv", "claim"}
          /\ \E l \in {"idle", "await", "fail", "next"} : pc' = [pc EXCEPT ![t] = l]
      BY <1>7 DEF Rejected, Told, Request, Await, Begin, Store, At, Goto
    <2>3. TookInHand' BY <1>0, <2>1, <2>2 DEF Asking, TookInHand
    <2> QED BY <2>1, <2>3, TablesKept
  <1>8. CASE t \in Peers /\ LookAt(t)
    <2>1. UNCHANGED <<tables, took>> BY <1>8 DEF LookAt
    <2>2. pc[t] = "inv" /\ (pc' = pc \/ pc' = [pc EXCEPT ![t] = "claim"])
      BY <1>8 DEF LookAt, At, Goto
    <2>3. TookInHand' BY <1>0, <2>1, <2>2 DEF Asking, TookInHand
    <2> QED BY <2>1, <2>3, TablesKept
  <1> QED
    BY <1>1, <1>2, <1>3, <1>4, <1>5, <1>6, <1>7, <1>8 DEF Work

\* Every step keeps the bookkeeping of claims.
LEMMA NextAsking ==
  ASSUME Typed, Asking, [Next]_vars
  PROVE  Asking'
  <1>0. /\ Peers \subseteq Threads /\ Callers \subseteq Threads
        /\ None \notin Peers /\ ready \subseteq Peers
        /\ pc \in [Threads -> {"idle", "inv", "claim", "submit", "tell", "start",
                                "begun", "next", "await", "headers", "fail"}]
        /\ took \in [Threads -> SUBSET Items]
        /\ asked \in [Peers -> SUBSET Items]
        /\ requests \in [Items -> [peer : Peers, late : BOOLEAN] \cup {None}]
    BY RelayAssumption DEF Threads, Typed, TypeOK
  <1>1. ASSUME NEW p \in Peers, Silent(p) \/ HearAddr(p) PROVE Asking'
    <2>1. UNCHANGED <<tables, took>> /\ pc[p] = "idle" /\ pc' = [pc EXCEPT ![p] = "fail"]
      BY <1>1 DEF Silent, HearAddr, Hears, At, Goto, locals
    <2>2. TookInHand' BY <1>0, <2>1 DEF Asking, TookInHand
    <2> QED BY <2>1, <2>2, TablesKept
  <1>2. ASSUME NEW p \in Peers, Reconnect(p) PROVE Asking'
    <2>1. /\ ready' = ready \cup {p} /\ open' = open \cup {p}
          /\ UNCHANGED <<requests, freed, dropped, have, asked, took, pc>>
          /\ p \notin open /\ pc[p] = "idle"
      BY <1>2 DEF Reconnect, At, locals
    <2>2. asked[p] = {} /\ took[p] = {} BY <2>1 DEF Asking, ClosedIsEmpty, TookInHand
    <2> QED
      BY <2>1, <2>2 DEF Asking, Claimed, NotRepeated, LateIsFreed, ClosedIsEmpty, TookInHand
  <1>3. ASSUME NEW p \in Peers, NEW these \in SUBSET Items, HearInv(p, these) PROVE Asking'
    <2>1. /\ UNCHANGED tables /\ pc[p] = "idle" /\ pc' = [pc EXCEPT ![p] = "inv"]
          /\ took' = [took EXCEPT ![p] = {}]
      BY <1>3 DEF HearInv, Hears, At, Goto
    <2>2. took[p] = {} BY <2>1 DEF Asking, TookInHand
    <2>3. took' = took BY <1>0, <2>1, <2>2
    <2>4. TookInHand' BY <1>0, <2>1, <2>3 DEF Asking, TookInHand
    <2> QED BY <2>1, <2>3, <2>4, TablesKept
  <1>4. ASSUME NEW p \in Peers, NEW i \in Items, HearItem(p, i) \/ HearNotFound(p, i) PROVE Asking'
    <2>1. /\ Release({i}, IF i \in asked[p] THEN p ELSE None)
          /\ asked' = [asked EXCEPT ![p] = @ \ {i}]
          /\ UNCHANGED <<ready, open, have, took>>
          /\ pc[p] = "idle"
          /\ pc' = pc \/ pc' = [pc EXCEPT ![p] = "submit"]
      BY <1>4 DEF HearItem, HearNotFound, Hears, At, Goto, locals
    <2>2. took[p] = {} BY <2>1 DEF Asking, TookInHand
    <2>3. asked'[p] = asked[p] \ {i} /\ \A q \in Peers \ {p} : asked'[q] = asked[q]
      BY <1>0, <2>1
    <2>4. freed \subseteq freed' /\ dropped' = dropped /\ LateIsFreed' BY <2>1, ReleaseAsking
    <2>5. Claimed'
      <3> SUFFICES ASSUME NEW q \in ready, NEW j \in (asked'[q] \cup took[q]) \ (have \cup freed' \cup dropped')
                   PROVE  requests'[j] # None /\ requests'[j].peer = q
        BY <2>1 DEF Claimed
      <3>1. j \in asked[q] \cup took[q] BY <1>0, <2>3
      <3>2. ~(q = (IF i \in asked[p] THEN p ELSE None) /\ j \in {i}) BY <1>0, <2>2, <2>3
      <3> QED BY <2>1, <3>1, <3>2, ReleaseAsking
    <2>6. NotRepeated' BY <1>0, <2>1, <2>3, <2>4 DEF Asking, NotRepeated
    <2>7. ClosedIsEmpty' BY <2>1, <2>3 DEF Asking, ClosedIsEmpty
    <2>8. TookInHand' BY <1>0, <2>1 DEF Asking, TookInHand
    <2> QED BY <2>4, <2>5, <2>6, <2>7, <2>8 DEF Asking
  <1>5. ASSUME NEW p \in Peers, NEW from \in 0..Top, NEW b \in Batches, HearHeaders(p, from, b)
        PROVE Asking'
    <2>1. /\ UNCHANGED <<tables, took>> /\ pc[p] = "idle"
          /\ \E l \in {"headers", "fail"} : pc' = [pc EXCEPT ![p] = l]
      BY <1>5 DEF HearHeaders, Hears, At, Goto
    <2>2. TookInHand' BY <1>0, <2>1 DEF Asking, TookInHand
    <2> QED BY <2>1, <2>2, TablesKept
  <1>6. ASSUME NEW i \in Items, TooOld(i) PROVE Asking'
    <2>1. /\ requests[i] # None /\ freed' = freed \cup {i}
          /\ requests' = [requests EXCEPT ![i].late = TRUE]
          /\ UNCHANGED <<ready, open, dropped, have, asked, took, pc>>
      BY <1>6 DEF TooOld, InFlight, locals
    <2>2. \A j \in Items \ {i} : requests'[j] = requests[j] BY <1>0, <2>1
    <2>3. \A q \in ready : asked[q] \cup took[q] \subseteq Items BY <1>0
    <2>4. Claimed' BY <2>1, <2>2, <2>3 DEF Asking, Claimed
    <2>5. LateIsFreed' BY <2>1, <2>2 DEF Asking, LateIsFreed
    <2> QED BY <2>1, <2>4, <2>5 DEF Asking, NotRepeated, ClosedIsEmpty, TookInHand
  <1>7. ASSUME NEW c \in Callers, (\E i \in Items : HandIn(c, i)) \/ (\E p \in Peers : StartSync(c, p))
        PROVE Asking'
    <2>1. /\ UNCHANGED <<tables, took>> /\ pc[c] = "idle"
          /\ \E l \in {"submit", "start"} : pc' = [pc EXCEPT ![c] = l]
      BY <1>7 DEF HandIn, StartSync, At, Goto
    <2>2. TookInHand' BY <1>0, <2>1 DEF Asking, TookInHand
    <2> QED BY <2>1, <2>2, TablesKept
  <1>8. ASSUME NEW c \in Callers, NEW p \in Peers, Drop(c, p) PROVE Asking'
    <2>1. Disconnect(c, p) /\ took' = took /\ pc' = pc BY <1>8 DEF Drop, locals
    <2>2. TookInHand' BY <2>1 DEF Asking, TookInHand
    <2> QED BY <2>1, <2>2, DisconnectAsking
  <1>9. CASE UNCHANGED vars
    BY <1>9 DEF vars, tables, locals, Asking, Claimed, NotRepeated, LateIsFreed, ClosedIsEmpty, TookInHand
  <1> QED
    BY <1>1, <1>2, <1>3, <1>4, <1>5, <1>6, <1>7, <1>8, <1>9, WorkAsking DEF Next

-----------------------------------------------------------------------------
(* Theorems *)

\* Every table of InflightInventory and HeaderSync, and what each thread has in
\* hand, is of its type in every state.
THEOREM TypesHold == Spec => []Typed
  <1>1. Init => Typed BY InitTyped
  <1>2. Typed /\ [Next]_vars => Typed' BY NextTyped
  <1> QED BY <1>1, <1>2, PTL DEF Spec

\* The bookkeeping of claims is kept by every step.
THEOREM AskingHolds == Spec => []Asking
  <1>1. Init => Typed /\ Asking BY InitTyped, InitAsking
  <1>2. Typed /\ Asking /\ [Next]_vars => (Typed /\ Asking)' BY NextTyped, NextAsking
  <1> QED BY <1>1, <1>2, PTL DEF Spec

\* InflightInventory.claim, expire and release: two ready peers are asked for the
\* same missing item only after a request for it was given up as too old, ended by
\* an answer of another peer, or dropped with a session of its owner that was over.
THEOREM AskedOneAtATime == Spec => []AskedOnce
  <1>1. Typed /\ Asking => AskedOnce
    BY DEF Typed, TypeOK, Asking, Claimed, AskedOnce, Alone
  <1> QED BY <1>1, TypesHold, AskingHolds, PTL

=============================================================================
