---------------------------- MODULE Intake_proofs ----------------------------
(* Theorems about Intake.  The reader of Wire first: what each layout returns and  *)
(* what it leaves; then the invariant of the connection and of the transactions    *)
(* being judged (Invariant, OutputsSpentOnce).  After it the script engine: how    *)
(* instructions and branches are read, the interpreter that reads a script once,   *)
(* and the two in lockstep (ScriptInvariant, ConditionalsHold).                    *)
EXTENDS IntakeProps, Finite_proofs, SequenceTheorems, TLAPS

Str == Seq(Byte)

\* f holds the states of n rounds on V.
Passes(f, n, V, first, next) ==
    /\ f \in [0 .. n -> V]
    /\ f[0] = first
    /\ \A k \in 1 .. n : f[k] = next[k][f[k - 1]]

LEMMA RecursionHolds ==
  ASSUME NEW n \in Nat, NEW V, NEW first \in V, NEW next \in [1 .. n -> [V -> V]]
  PROVE  \E f : Passes(f, n, V, first, next)
  <1> DEFINE Upto(m, f) == /\ f \in [0 .. m -> V]
                           /\ f[0] = first
                           /\ \A k \in 1 .. m : f[k] = next[k][f[k - 1]]
             Bad == {m \in Nat : m \in 0 .. n /\ ~ \E f : Upto(m, f)}
  <1>1. ASSUME Bad # {} PROVE FALSE
    <2>1. PICK m \in Bad : \A j \in Bad : m <= j BY <1>1, LeastNatural
    <2>2. m \in 0 .. n /\ (~ \E f : Upto(m, f)) BY <2>1
    <2>3. CASE m = 0
      <3>1. Upto(0, [k \in 0 .. 0 |-> first]) OBVIOUS
      <3> QED BY <2>2, <2>3, <3>1
    <2>4. CASE m # 0
      <3>1. m - 1 \in 0 .. n /\ ~ (m <= m - 1) /\ m \in 1 .. n BY <2>2, <2>4
      <3>0. m - 1 \in Nat /\ m - 1 \notin Bad BY <2>1, <2>2, <2>4, <3>1
        <3>2. PICK f : Upto(m - 1, f)
          <4>1. \E f : Upto(m - 1, f) BY <3>0, <3>1
          <4> QED BY <4>1
      <3>3. PICK v \in V : v = next[m][f[m - 1]] BY <3>1, <3>2
      <3> DEFINE g == [k \in 0 .. m |-> IF k = m THEN v ELSE f[k]]
      <3>4. \A k \in 0 .. m - 1 : g[k] = f[k] BY <3>1
      <3>5. g \in [0 .. m -> V] BY <3>1, <3>2
      <3>6. g[0] = first BY <3>1, <3>2, <3>4
      <3>7. ASSUME NEW k \in 1 .. m PROVE g[k] = next[k][g[k - 1]]
        <4>1. k - 1 \in 0 .. m - 1 BY <3>1
        <4>2. CASE k = m BY <3>3, <3>4, <4>1, <4>2
        <4>3. CASE k # m
          <5>1. k \in 1 .. m - 1 BY <3>1, <4>3
          <5> QED BY <3>2, <3>4, <4>1, <5>1
        <4> QED BY <4>2, <4>3
      <3>8. Upto(m, g) BY <3>5, <3>6, <3>7
      <3> QED BY <2>2, <3>8
    <2> QED BY <2>3, <2>4
  <1>2. PICK f : Upto(n, f) BY <1>1
  <1>3. Passes(f, n, V, first, next) BY <1>2 DEF Passes
  <1> QED BY <1>3

\* What holds at first and is kept by each round holds to the end.
LEMMA RoundsKeep ==
  ASSUME NEW n \in Nat, NEW V, NEW f, f[0] \in V, \A k \in 1 .. n : f[k - 1] \in V => f[k] \in V
  PROVE  \A k \in 0 .. n : f[k] \in V
  <1> DEFINE Bad == {k \in Nat : k \in 0 .. n /\ f[k] \notin V}
  <1>1. SUFFICES ASSUME Bad # {} PROVE FALSE OBVIOUS
  <1>2. PICK k \in Bad : \A j \in Bad : k <= j BY <1>1, LeastNatural
  <1>3. k # 0 BY <1>2
  <1>4. k - 1 \in 0 .. n /\ k \in 1 .. n /\ ~ (k <= k - 1) BY <1>2, <1>3
  <1>5. f[k - 1] \in V BY <1>2, <1>4
  <1> QED BY <1>2, <1>4, <1>5

\* What a reader answers: nothing, or a value and the bytes behind it.
Reading(x) == x = None \/ \E v : \E r \in Str : x = Got(v, r)
\* The same with the value in V.
Readings(V) == {None} \union {Got(v, r) : v \in V, r \in Str}

LEMMA StrCut ==
  ASSUME NEW s \in Str, NEW n \in Nat
  PROVE  /\ Drop(s, n) \in Str
         /\ n <= Len(s) => Take(s, n) \in Str /\ Len(Take(s, n)) = n
  <1>1. Drop(s, n) \in Str BY SubSeqProperties DEF Drop, Str
  <1>2. ASSUME n <= Len(s) PROVE Take(s, n) \in Str /\ Len(Take(s, n)) = n
    BY <1>2, SubSeqProperties DEF Take, Str
  <1> QED BY <1>1, <1>2

LEMMA NotOk == ~ None.ok
  BY DEF None

LEMMA ExactlyReads ==
  ASSUME NEW s \in Str, NEW n \in Nat
  PROVE  Exactly(n, s) \in Readings(Str)
  <1>1. CASE Len(s) < n
    <2>1. Exactly(n, s) = None BY <1>1 DEF Exactly
    <2> QED BY <2>1 DEF Readings
  <1>2. CASE ~(Len(s) < n)
    <2>1. Len(s) \in Nat BY DEF Str
    <2>2. Take(s, n) \in Str /\ Drop(s, n) \in Str BY <1>2, <2>1, StrCut
    <2>3. Exactly(n, s) = Got(Take(s, n), Drop(s, n)) BY <1>2 DEF Exactly
    <2> QED BY <2>2, <2>3 DEF Readings
  <1> QED BY <1>1, <1>2

LEMMA ByteIsNat == \A x \in Byte : x \in Nat
  BY DEF Byte

LEMMA FromLeNat ==
  ASSUME NEW b \in Str
  PROVE  FromLe(b) \in Nat
  <1> DEFINE at(k) == IF k > Len(b) THEN 0 ELSE b[k]
  <1>0. Len(b) \in Nat /\ \A k \in 1..Len(b) : b[k] \in Nat
    <2>1. Len(b) \in Nat BY DEF Str
    <2>2. ASSUME NEW k \in 1..Len(b) PROVE b[k] \in Nat
      <3>1. b[k] \in Byte BY ElementOfSeq DEF Str
      <3> QED BY <3>1, ByteIsNat, Zenon
    <2> QED BY <2>1, <2>2
  <1>1. \A k \in 1..3 : at(k) \in Nat
    <2> TAKE k \in 1..3
    <2> QED BY <1>0
  <1>2. at(1) \in Nat /\ at(2) \in Nat /\ at(3) \in Nat
    <2> HIDE DEF at
    <2> QED BY <1>1
  <1> HIDE DEF at
  <1>3. 2^24 \in Nat OBVIOUS
  <1>4. at(1) + 256 * at(2) + 65536 * at(3) \in Nat BY <1>2
  <1>5. FromLe(b) \in {2^24, at(1) + 256 * at(2) + 65536 * at(3)} BY DEF FromLe, at
  <1> QED BY <1>3, <1>4, <1>5

LEMMA CompactReads ==
  ASSUME NEW s \in Str
  PROVE  ReadCompact(s) \in Readings(Nat)
  <1>0. None = [ok |-> FALSE] BY DEF None
  <1>1. CASE s = <<>> BY <1>0, <1>1 DEF ReadCompact, Readings
  <1>2. CASE s # <<>>
    <2>0. s[1] \in Byte BY <1>2 DEF Str
    <2>1. Len(s) \in Nat BY DEF Str
    <2> DEFINE w == Width(s[1])
               n == IF w = 0 THEN s[1] ELSE FromLe(SubSeq(s, 2, w + 1))
    <2>2. w \in {0, 2, 4, 8} BY DEF Width
    <2>3. CASE Len(s) < w + 1
      <3>1. ReadCompact(s) = None BY <1>0, <1>2, <2>3 DEF ReadCompact
      <3> QED BY <3>1 DEF Readings
    <2>4. CASE ~(Len(s) < w + 1)
      <3>1. w # 0 => SubSeq(s, 2, w + 1) \in Str BY <2>1, <2>2, <2>4, SubSeqProperties DEF Str
      <3>2. n \in Nat
        <4>1. s[1] \in Nat BY <2>0, ByteIsNat, Zenon
        <4>2. CASE w = 0 BY <4>1, <4>2
        <4>3. CASE w # 0 BY <3>1, <4>3, FromLeNat
        <4> QED BY <4>2, <4>3
      <3>3. Drop(s, w + 1) \in Str BY <2>2, StrCut
      <3>4. ReadCompact(s) = Got(n, Drop(s, w + 1)) BY <1>2, <2>4 DEF ReadCompact, Got
      <3> HIDE DEF n, w
      <3> QED BY <3>2, <3>3, <3>4 DEF Readings
    <2> QED BY <2>1, <2>2, <2>3, <2>4
  <1> QED BY <1>1, <1>2

\* Every step of a reader passes the bytes behind it on.
LEMMA ReadingsRead ==
  ASSUME NEW V, NEW x \in Readings(V)
  PROVE  /\ Reading(x)
         /\ x.ok \in BOOLEAN
         /\ x.ok => x.val \in V /\ x.rest \in Str
         /\ ~x.ok => x = None
  <1>1. CASE x = None BY <1>1, NotOk DEF Reading, None
  <1>2. CASE \E v \in V : \E r \in Str : x = Got(v, r)
    <2>1. PICK v \in V : \E r \in Str : x = Got(v, r) BY <1>2
    <2>2. PICK r \in Str : x = Got(v, r) BY <2>1
    <2>3. x.ok = TRUE /\ x.val = v /\ x.rest = r BY <2>2 DEF Got
    <2> QED BY <2>2, <2>3 DEF Reading
  <1> QED BY <1>1, <1>2 DEF Readings

LEMMA ReadingCases ==
  ASSUME NEW x, Reading(x)
  PROVE  /\ x.ok \in BOOLEAN
         /\ x.ok => x.rest \in Str /\ x = Got(x.val, x.rest)
         /\ ~x.ok => x = None
  <1>1. CASE x = None BY <1>1 DEF None
  <1>2. CASE \E v : \E r \in Str : x = Got(v, r)
    <2>1. PICK v : \E r \in Str : x = Got(v, r) BY <1>2
    <2>2. PICK r \in Str : x = Got(v, r) BY <2>1
    <2>3. x.ok = TRUE /\ x.val = v /\ x.rest = r BY <2>2 DEF Got
    <2> QED BY <2>2, <2>3
  <1> QED BY <1>1, <1>2 DEF Reading

LEMMA MadeReads ==
  ASSUME NEW x, NEW how, Reading(x)
  PROVE  /\ Reading(Made(x, how))
         /\ Made(x, how).ok => /\ x.ok
                               /\ Made(x, how).val = Convert(how, x.val).val
                               /\ Convert(how, x.val).ok
  <1>1. CASE x = None
    <2>1. Made(x, how) = None BY <1>1, NotOk DEF Made
    <2> QED BY <2>1, NotOk DEF Reading
  <1>2. CASE \E v : \E r \in Str : x = Got(v, r)
    <2>0. PICK v : \E r \in Str : x = Got(v, r) BY <1>2
    <2>1. PICK r \in Str : x = Got(v, r) BY <2>0
    <2>2. x.ok /\ x.val = v /\ x.rest = r BY <2>1 DEF Got
    <2>3. CASE Convert(how, v).ok
      <3>1. Made(x, how) = Got(Convert(how, v).val, r) BY <2>2, <2>3 DEF Made
      <3>2. Reading(Made(x, how)) BY <3>1 DEF Reading
      <3>3. Made(x, how).val = Convert(how, v).val BY <3>1 DEF Got
      <3> QED BY <2>2, <2>3, <3>2, <3>3
    <2>4. CASE ~Convert(how, v).ok
      <3>1. Made(x, how) = None BY <2>2, <2>4 DEF Made
      <3> QED BY <2>2, <3>1, NotOk DEF Reading
    <2> QED BY <2>3, <2>4
  <1> QED BY <1>1, <1>2 DEF Reading

LEMMA ReadingIn ==
  ASSUME NEW V, NEW x, Reading(x), x.ok => x.val \in V
  PROVE  x \in Readings(V)
  <1>1. CASE x = None BY <1>1 DEF Readings
  <1>2. CASE \E v : \E r \in Str : x = Got(v, r)
    <2>1. PICK v : \E r \in Str : x = Got(v, r) BY <1>2
    <2>2. PICK r \in Str : x = Got(v, r) BY <2>1
    <2>3. x.ok /\ x.val = v BY <2>2 DEF Got
    <2> QED BY <2>2, <2>3 DEF Readings
  <1> QED BY <1>1, <1>2 DEF Reading

LEMMA GotReads ==
  ASSUME NEW W, NEW v \in W, NEW r \in Str
  PROVE  Got(v, r) \in Readings(W)
  BY DEF Readings

LEMMA NothingRead ==
  ASSUME NEW V, NEW s \in Str
  PROVE  Got(<<>>, s) \in Readings(Seq(V))
  <1>1. <<>> \in Seq(V) OBVIOUS
  <1> QED BY <1>1, GotReads

\* One more item, when each reading of an item is a reading.
LEMMA ItemKept ==
  ASSUME NEW V, NEW item \in [Str -> Readings(V)], NEW g \in Readings(Seq(V))
  PROVE  Appended(g, item[g.rest]) \in Readings(Seq(V))
  <1>1. CASE ~g.ok
    <2>1. Appended(g, item[g.rest]) = None BY <1>1 DEF Appended
    <2> QED BY <2>1 DEF Readings
  <1>2. CASE g.ok
    <2>1. g.rest \in Str /\ g.val \in Seq(V) BY <1>2, ReadingsRead
    <2> DEFINE x == item[g.rest]
    <2>2. x \in Readings(V) BY <2>1
    <2> HIDE DEF x
    <2>3. CASE ~x.ok
      <3>1. Appended(g, x) = None BY <1>2, <2>3 DEF Appended
      <3> QED BY <3>1 DEF Readings, x
    <2>4. CASE x.ok
      <3>1. x.val \in V /\ x.rest \in Str BY <2>2, <2>4, ReadingsRead
      <3>2. Append(g.val, x.val) \in Seq(V) BY <2>1, <3>1
      <3>3. Appended(g, x) = Got(Append(g.val, x.val), x.rest) BY <1>2, <2>4 DEF Appended
      <3>4. Got(Append(g.val, x.val), x.rest) \in Readings(Seq(V)) BY <3>1, <3>2, GotReads
      <3> QED BY <3>3, <3>4 DEF x
    <2> QED BY <2>3, <2>4, <2>2, ReadingsRead
  <1> QED BY <1>1, <1>2

\* f holds what was read before and after each of n items.
ReadsItems(f, n, V, item, s) ==
    /\ f \in [0 .. n -> Readings(Seq(V))]
    /\ f[0] = Got(<<>>, s)
    /\ \A k \in 1 .. n : f[k] = Appended(f[k - 1], item[f[k - 1].rest])

LEMMA ItemsRun ==
  ASSUME NEW V, NEW item \in [Str -> Readings(V)], NEW n \in Nat, NEW s \in Str
  PROVE  \E f : ReadsItems(f, n, V, item, s)
  <1> DEFINE G == Readings(Seq(V))
             next == [k \in 1 .. n |-> [g \in G |-> Appended(g, item[g.rest])]]
  <1>1. next \in [1 .. n -> [G -> G]] BY ItemKept
  <1>2. Got(<<>>, s) \in G BY NothingRead
  <1>3. PICK f : Passes(f, n, G, Got(<<>>, s), next)
    <2> HIDE DEF G, next
    <2> QED BY <1>1, <1>2, RecursionHolds
  <1>4. ASSUME NEW k \in 1 .. n
        PROVE  next[k][f[k - 1]] = Appended(f[k - 1], item[f[k - 1].rest])
    <2>1. k - 1 \in 0 .. n OBVIOUS
    <2>2. f[k - 1] \in G
      <3> HIDE DEF G
      <3> QED BY <1>3, <2>1 DEF Passes
    <2> QED BY <2>1, <2>2
  <1> HIDE DEF next
  <1>5. ReadsItems(f, n, V, item, s) BY <1>3, <1>4 DEF Passes, ReadsItems
  <1> QED BY <1>5

LEMMA ItemsByReadAtom ==
  ASSUME NEW d, \A r \in Str : Reading(ReadAtom(d, r)), NEW n \in Nat, NEW s \in Str
  PROVE  ReadItems(ReadAtom, d, n, s) \in Readings(Seq({ReadAtom(d, r).val : r \in {q \in Str : ReadAtom(d, q).ok}}))
  <1> DEFINE V == {ReadAtom(d, r).val : r \in {q \in Str : ReadAtom(d, q).ok}}
             item == [r \in Str |-> ReadAtom(d, r)]
             F == CHOOSE g : g = [k \in 0 .. n |-> IF k = 0 THEN Got(<<>>, s)
                                   ELSE Appended(g[k - 1], ReadAtom(d, g[k - 1].rest))]
  <1>1. item \in [Str -> Readings(V)]
    <2>1. ASSUME NEW r \in Str PROVE ReadAtom(d, r) \in Readings(V)
      <3>1. ReadAtom(d, r).ok => ReadAtom(d, r).val \in V OBVIOUS
      <3> HIDE DEF V
      <3> QED BY <3>1, ReadingIn
    <2> QED BY <2>1
  <1>2. PICK f : ReadsItems(f, n, V, item, s)
    <2> HIDE DEF V, item
    <2> QED BY <1>1, ItemsRun
  <1>3. ASSUME NEW g \in Readings(Seq(V)) PROVE Appended(g, item[g.rest]) = Appended(g, ReadAtom(d, g.rest))
    <2> HIDE DEF V
    <2>1. CASE g.ok
      <3>1. g.rest \in Str BY <2>1, ReadingsRead
      <3> QED BY <3>1
    <2>2. CASE ~g.ok BY <2>2 DEF Appended
    <2> QED BY <2>1, <2>2
  <1>4. f = [k \in 0 .. n |-> IF k = 0 THEN Got(<<>>, s) ELSE Appended(f[k - 1], ReadAtom(d, f[k - 1].rest))]
    <2> HIDE DEF V, item
    <2>1. ASSUME NEW k \in 1 .. n
          PROVE  Appended(f[k - 1], item[f[k - 1].rest]) = Appended(f[k - 1], ReadAtom(d, f[k - 1].rest))
      <3>1. k - 1 \in 0 .. n OBVIOUS
      <3>2. f[k - 1] \in Readings(Seq(V)) BY <1>2, <3>1 DEF ReadsItems
      <3> QED BY <1>3, <3>2
    <2> QED BY <1>2, <2>1 DEF ReadsItems
  <1>5. F = [k \in 0 .. n |-> IF k = 0 THEN Got(<<>>, s) ELSE Appended(F[k - 1], ReadAtom(d, F[k - 1].rest))]
    BY <1>4
  <1>6. ReadItems(ReadAtom, d, n, s) = F[n] BY DEF ReadItems, Rounds
  <1> HIDE DEF F
  <1>7. F[0] \in Readings(Seq(V))
    <2>1. F[0] = Got(<<>>, s) BY <1>5
    <2> HIDE DEF V
    <2> QED BY <2>1, NothingRead
  <1>8. ASSUME NEW k \in 1 .. n, F[k - 1] \in Readings(Seq(V)) PROVE F[k] \in Readings(Seq(V))
    <2>1. k \in 0 .. n /\ k # 0 BY <1>8
    <2>2. F[k] = Appended(F[k - 1], ReadAtom(d, F[k - 1].rest)) BY <1>5, <2>1
    <2>3. F[k] = Appended(F[k - 1], item[F[k - 1].rest]) BY <1>3, <1>8, <2>2
    <2> HIDE DEF V, item
    <2> QED BY <1>1, <1>8, <2>3, ItemKept
  <1>9. F[n] \in Readings(Seq(V))
    <2> HIDE DEF V
    <2>1. \A k \in 0 .. n : F[k] \in Readings(Seq(V)) BY <1>7, <1>8, RoundsKeep
    <2> QED BY <2>1
  <1> QED BY <1>6, <1>9

LEMMA ItemsByReadPart ==
  ASSUME NEW d, \A r \in Str : Reading(ReadPart(d, r)), NEW n \in Nat, NEW s \in Str
  PROVE  ReadItems(ReadPart, d, n, s) \in Readings(Seq({ReadPart(d, r).val : r \in {q \in Str : ReadPart(d, q).ok}}))
  <1> DEFINE V == {ReadPart(d, r).val : r \in {q \in Str : ReadPart(d, q).ok}}
             item == [r \in Str |-> ReadPart(d, r)]
             F == CHOOSE g : g = [k \in 0 .. n |-> IF k = 0 THEN Got(<<>>, s)
                                   ELSE Appended(g[k - 1], ReadPart(d, g[k - 1].rest))]
  <1>1. item \in [Str -> Readings(V)]
    <2>1. ASSUME NEW r \in Str PROVE ReadPart(d, r) \in Readings(V)
      <3>1. ReadPart(d, r).ok => ReadPart(d, r).val \in V OBVIOUS
      <3> HIDE DEF V
      <3> QED BY <3>1, ReadingIn
    <2> QED BY <2>1
  <1>2. PICK f : ReadsItems(f, n, V, item, s)
    <2> HIDE DEF V, item
    <2> QED BY <1>1, ItemsRun
  <1>3. ASSUME NEW g \in Readings(Seq(V)) PROVE Appended(g, item[g.rest]) = Appended(g, ReadPart(d, g.rest))
    <2> HIDE DEF V
    <2>1. CASE g.ok
      <3>1. g.rest \in Str BY <2>1, ReadingsRead
      <3> QED BY <3>1
    <2>2. CASE ~g.ok BY <2>2 DEF Appended
    <2> QED BY <2>1, <2>2
  <1>4. f = [k \in 0 .. n |-> IF k = 0 THEN Got(<<>>, s) ELSE Appended(f[k - 1], ReadPart(d, f[k - 1].rest))]
    <2> HIDE DEF V, item
    <2>1. ASSUME NEW k \in 1 .. n
          PROVE  Appended(f[k - 1], item[f[k - 1].rest]) = Appended(f[k - 1], ReadPart(d, f[k - 1].rest))
      <3>1. k - 1 \in 0 .. n OBVIOUS
      <3>2. f[k - 1] \in Readings(Seq(V)) BY <1>2, <3>1 DEF ReadsItems
      <3> QED BY <1>3, <3>2
    <2> QED BY <1>2, <2>1 DEF ReadsItems
  <1>5. F = [k \in 0 .. n |-> IF k = 0 THEN Got(<<>>, s) ELSE Appended(F[k - 1], ReadPart(d, F[k - 1].rest))]
    BY <1>4
  <1>6. ReadItems(ReadPart, d, n, s) = F[n] BY DEF ReadItems, Rounds
  <1> HIDE DEF F
  <1>7. F[0] \in Readings(Seq(V))
    <2>1. F[0] = Got(<<>>, s) BY <1>5
    <2> HIDE DEF V
    <2> QED BY <2>1, NothingRead
  <1>8. ASSUME NEW k \in 1 .. n, F[k - 1] \in Readings(Seq(V)) PROVE F[k] \in Readings(Seq(V))
    <2>1. k \in 0 .. n /\ k # 0 BY <1>8
    <2>2. F[k] = Appended(F[k - 1], ReadPart(d, F[k - 1].rest)) BY <1>5, <2>1
    <2>3. F[k] = Appended(F[k - 1], item[F[k - 1].rest]) BY <1>3, <1>8, <2>2
    <2> HIDE DEF V, item
    <2> QED BY <1>1, <1>8, <2>3, ItemKept
  <1>9. F[n] \in Readings(Seq(V))
    <2> HIDE DEF V
    <2>1. \A k \in 0 .. n : F[k] \in Readings(Seq(V)) BY <1>7, <1>8, RoundsKeep
    <2> QED BY <2>1
  <1> QED BY <1>6, <1>9

LEMMA ItemsByReadGroup ==
  ASSUME NEW d, \A r \in Str : Reading(ReadGroup(d, r)), NEW n \in Nat, NEW s \in Str
  PROVE  ReadItems(ReadGroup, d, n, s) \in Readings(Seq({ReadGroup(d, r).val : r \in {q \in Str : ReadGroup(d, q).ok}}))
  <1> DEFINE V == {ReadGroup(d, r).val : r \in {q \in Str : ReadGroup(d, q).ok}}
             item == [r \in Str |-> ReadGroup(d, r)]
             F == CHOOSE g : g = [k \in 0 .. n |-> IF k = 0 THEN Got(<<>>, s)
                                   ELSE Appended(g[k - 1], ReadGroup(d, g[k - 1].rest))]
  <1>1. item \in [Str -> Readings(V)]
    <2>1. ASSUME NEW r \in Str PROVE ReadGroup(d, r) \in Readings(V)
      <3>1. ReadGroup(d, r).ok => ReadGroup(d, r).val \in V OBVIOUS
      <3> HIDE DEF V
      <3> QED BY <3>1, ReadingIn
    <2> QED BY <2>1
  <1>2. PICK f : ReadsItems(f, n, V, item, s)
    <2> HIDE DEF V, item
    <2> QED BY <1>1, ItemsRun
  <1>3. ASSUME NEW g \in Readings(Seq(V)) PROVE Appended(g, item[g.rest]) = Appended(g, ReadGroup(d, g.rest))
    <2> HIDE DEF V
    <2>1. CASE g.ok
      <3>1. g.rest \in Str BY <2>1, ReadingsRead
      <3> QED BY <3>1
    <2>2. CASE ~g.ok BY <2>2 DEF Appended
    <2> QED BY <2>1, <2>2
  <1>4. f = [k \in 0 .. n |-> IF k = 0 THEN Got(<<>>, s) ELSE Appended(f[k - 1], ReadGroup(d, f[k - 1].rest))]
    <2> HIDE DEF V, item
    <2>1. ASSUME NEW k \in 1 .. n
          PROVE  Appended(f[k - 1], item[f[k - 1].rest]) = Appended(f[k - 1], ReadGroup(d, f[k - 1].rest))
      <3>1. k - 1 \in 0 .. n OBVIOUS
      <3>2. f[k - 1] \in Readings(Seq(V)) BY <1>2, <3>1 DEF ReadsItems
      <3> QED BY <1>3, <3>2
    <2> QED BY <1>2, <2>1 DEF ReadsItems
  <1>5. F = [k \in 0 .. n |-> IF k = 0 THEN Got(<<>>, s) ELSE Appended(F[k - 1], ReadGroup(d, F[k - 1].rest))]
    BY <1>4
  <1>6. ReadItems(ReadGroup, d, n, s) = F[n] BY DEF ReadItems, Rounds
  <1> HIDE DEF F
  <1>7. F[0] \in Readings(Seq(V))
    <2>1. F[0] = Got(<<>>, s) BY <1>5
    <2> HIDE DEF V
    <2> QED BY <2>1, NothingRead
  <1>8. ASSUME NEW k \in 1 .. n, F[k - 1] \in Readings(Seq(V)) PROVE F[k] \in Readings(Seq(V))
    <2>1. k \in 0 .. n /\ k # 0 BY <1>8
    <2>2. F[k] = Appended(F[k - 1], ReadGroup(d, F[k - 1].rest)) BY <1>5, <2>1
    <2>3. F[k] = Appended(F[k - 1], item[F[k - 1].rest]) BY <1>3, <1>8, <2>2
    <2> HIDE DEF V, item
    <2> QED BY <1>1, <1>8, <2>3, ItemKept
  <1>9. F[n] \in Readings(Seq(V))
    <2> HIDE DEF V
    <2>1. \A k \in 0 .. n : F[k] \in Readings(Seq(V)) BY <1>7, <1>8, RoundsKeep
    <2> QED BY <2>1
  <1> QED BY <1>6, <1>9

LEMMA NamedReads ==
  ASSUME NEW g, NEW name, NEW item, Reading(g), g.ok => Reading(item)
  PROVE  /\ Reading(Named(g, name, item))
         /\ Named(g, name, item).ok =>
              /\ g.ok /\ item.ok
              /\ DOMAIN Named(g, name, item).val = {name} \union DOMAIN g.val
              /\ Named(g, name, item).val[name] = item.val
              /\ \A other \in DOMAIN g.val \ {name} : Named(g, name, item).val[other] = g.val[other]
  <1>1. CASE ~g.ok
    <2>1. Named(g, name, item) = None BY <1>1 DEF Named
    <2> QED BY <2>1, NotOk DEF Reading
  <1>2. CASE g.ok /\ ~item.ok
    <2>1. Named(g, name, item) = None BY <1>2 DEF Named
    <2> QED BY <2>1, NotOk DEF Reading
  <1>3. CASE g.ok /\ item.ok
    <2> DEFINE v == Over([x \in {name} |-> item.val], g.val)
    <2>1. Named(g, name, item) = Got(v, item.rest) BY <1>3 DEF Named
    <2>2. item.rest \in Str BY <1>3, ReadingCases
    <2>3. /\ DOMAIN v = {name} \union DOMAIN g.val
          /\ v[name] = item.val
          /\ \A other \in DOMAIN g.val \ {name} : v[other] = g.val[other]
      BY DEF Over
    <2> HIDE DEF v
    <2>4. Named(g, name, item).val = v BY <2>1 DEF Got
    <2>5. Reading(Named(g, name, item)) BY <2>1, <2>2 DEF Reading
    <2> QED BY <1>3, <2>3, <2>4, <2>5
  <1> QED BY <1>1, <1>2, <1>3, ReadingCases

\* f holds what was read before and after each field.
FieldsByReadAtom(f, list, n, s) ==
    /\ f = [k \in 0 .. n |-> f[k]]
    /\ f[0] = Got(<<>>, s)
    /\ \A k \in 1 .. n :
         f[k] = Named(f[k - 1], list[k][1], ReadAtom(Resolved(list[k][2], f[k - 1].val), f[k - 1].rest))

LEMMA RecordByReadAtom ==
  ASSUME NEW list, NEW n \in Nat, Len(list) = n, NEW s
  PROVE  \E f : FieldsByReadAtom(f, list, n, s) /\ ReadFields(ReadAtom, list, s) = f[n]
  <1> DEFINE Upto(m, f) == FieldsByReadAtom(f, list, m, s)
             Bad == {m \in Nat : m \in 0 .. n /\ (~ \E f : Upto(m, f))}
             F == CHOOSE f : f = [k \in 0 .. n |-> IF k = 0 THEN Got(<<>>, s)
                    ELSE Named(f[k - 1], list[k][1], ReadAtom(Resolved(list[k][2], f[k - 1].val), f[k - 1].rest))]
  <1>1. ASSUME Bad # {} PROVE FALSE
    <2>1. PICK m \in Bad : \A j \in Bad : m <= j
      <3> HIDE DEF Bad
      <3>1. Bad \subseteq Nat BY DEF Bad
      <3> QED BY <1>1, <3>1, LeastNatural
    <2>2. m \in Nat /\ m \in 0 .. n /\ (~ \E f : Upto(m, f)) BY <2>1
    <2>3. CASE m = 0
      <3> DEFINE g == [k \in 0 .. 0 |-> Got(<<>>, s)]
      <3>1. g = [k \in 0 .. 0 |-> g[k]] /\ g[0] = Got(<<>>, s) OBVIOUS
      <3>2. 1 .. 0 = {} OBVIOUS
      <3> HIDE DEF g
      <3>3. Upto(0, g) BY <3>1, <3>2 DEF FieldsByReadAtom
      <3> QED BY <2>2, <2>3, <3>3
    <2>4. CASE m # 0
      <3>1. m - 1 \in Nat /\ m - 1 \in 0 .. n /\ ~ (m <= m - 1) BY <2>2, <2>4
      <3>2. m - 1 \notin Bad BY <2>1, <3>1
      <3>3. \E f : Upto(m - 1, f) BY <3>1, <3>2
      <3>4. PICK f : Upto(m - 1, f) BY <3>3
      <3> DEFINE next == Named(f[m - 1], list[m][1], ReadAtom(Resolved(list[m][2], f[m - 1].val), f[m - 1].rest))
                 g == [k \in 0 .. m |-> IF k = m THEN next ELSE f[k]]
      <3>5. (\A k \in 0 .. m - 1 : g[k] = f[k]) /\ g[m] = next /\ g = [k \in 0 .. m |-> g[k]] BY <3>1
      <3>6. f[0] = Got(<<>>, s) BY <3>4 DEF FieldsByReadAtom
      <3> HIDE DEF g
      <3>7. g[0] = Got(<<>>, s) BY <3>1, <3>5, <3>6
      <3>8. ASSUME NEW k \in 1 .. m
            PROVE  g[k] = Named(g[k - 1], list[k][1], ReadAtom(Resolved(list[k][2], g[k - 1].val), g[k - 1].rest))
        <4>1. k - 1 \in 0 .. m - 1 BY <3>1
        <4>2. g[k - 1] = f[k - 1] BY <3>5, <4>1
        <4>3. CASE k = m BY <3>5, <4>2, <4>3
        <4>4. CASE k # m
          <5>1. k \in 1 .. m - 1 BY <3>1, <4>4
          <5>2. k \in 0 .. m - 1 BY <5>1
          <5>3. f[k] = Named(f[k - 1], list[k][1], ReadAtom(Resolved(list[k][2], f[k - 1].val), f[k - 1].rest))
            BY <3>4, <5>1 DEF FieldsByReadAtom
          <5> QED BY <3>5, <4>2, <5>2, <5>3
        <4> QED BY <4>3, <4>4
      <3>9. Upto(m, g) BY <3>5, <3>7, <3>8 DEF FieldsByReadAtom
      <3> QED BY <2>2, <3>9
    <2> QED BY <2>3, <2>4
  <1>2. Bad = {}
    <2> HIDE DEF Bad
    <2> QED BY <1>1
  <1>3. \E f : Upto(n, f)
    <2>1. n \in 0 .. n OBVIOUS
    <2>2. n \notin Bad
      <3> HIDE DEF Bad
      <3> QED BY <1>2
    <2> QED BY <2>1, <2>2
  <1>4. PICK f : Upto(n, f) BY <1>3
  <1>5. ASSUME NEW k \in 0 .. n
        PROVE  f[k] = IF k = 0 THEN Got(<<>>, s)
                      ELSE Named(f[k - 1], list[k][1], ReadAtom(Resolved(list[k][2], f[k - 1].val), f[k - 1].rest))
    <2>1. CASE k = 0 BY <1>4, <2>1 DEF FieldsByReadAtom
    <2>2. CASE k # 0
      <3>1. k \in 1 .. n BY <2>2
      <3> QED BY <1>4, <2>2, <3>1 DEF FieldsByReadAtom
    <2> QED BY <2>1, <2>2
  <1>6. f = [k \in 0 .. n |-> IF k = 0 THEN Got(<<>>, s)
               ELSE Named(f[k - 1], list[k][1], ReadAtom(Resolved(list[k][2], f[k - 1].val), f[k - 1].rest))]
    <2>1. f = [k \in 0 .. n |-> f[k]] BY <1>4 DEF FieldsByReadAtom
    <2> QED BY <1>5, <2>1, Zenon
  <1>7. F = [k \in 0 .. n |-> IF k = 0 THEN Got(<<>>, s)
               ELSE Named(F[k - 1], list[k][1], ReadAtom(Resolved(list[k][2], F[k - 1].val), F[k - 1].rest))]
    BY <1>6, Zenon
  <1>8. ReadFields(ReadAtom, list, s) = F[n] BY DEF ReadFields
  <1> HIDE DEF F
  <1>9. FieldsByReadAtom(F, list, n, s) BY <1>7 DEF FieldsByReadAtom
  <1> QED BY <1>8, <1>9

\* f holds what was read before and after each field.
FieldsByReadGroup(f, list, n, s) ==
    /\ f = [k \in 0 .. n |-> f[k]]
    /\ f[0] = Got(<<>>, s)
    /\ \A k \in 1 .. n :
         f[k] = Named(f[k - 1], list[k][1], ReadGroup(Resolved(list[k][2], f[k - 1].val), f[k - 1].rest))

LEMMA RecordByReadGroup ==
  ASSUME NEW list, NEW n \in Nat, Len(list) = n, NEW s
  PROVE  \E f : FieldsByReadGroup(f, list, n, s) /\ ReadFields(ReadGroup, list, s) = f[n]
  <1> DEFINE Upto(m, f) == FieldsByReadGroup(f, list, m, s)
             Bad == {m \in Nat : m \in 0 .. n /\ (~ \E f : Upto(m, f))}
             F == CHOOSE f : f = [k \in 0 .. n |-> IF k = 0 THEN Got(<<>>, s)
                    ELSE Named(f[k - 1], list[k][1], ReadGroup(Resolved(list[k][2], f[k - 1].val), f[k - 1].rest))]
  <1>1. ASSUME Bad # {} PROVE FALSE
    <2>1. PICK m \in Bad : \A j \in Bad : m <= j
      <3> HIDE DEF Bad
      <3>1. Bad \subseteq Nat BY DEF Bad
      <3> QED BY <1>1, <3>1, LeastNatural
    <2>2. m \in Nat /\ m \in 0 .. n /\ (~ \E f : Upto(m, f)) BY <2>1
    <2>3. CASE m = 0
      <3> DEFINE g == [k \in 0 .. 0 |-> Got(<<>>, s)]
      <3>1. g = [k \in 0 .. 0 |-> g[k]] /\ g[0] = Got(<<>>, s) OBVIOUS
      <3>2. 1 .. 0 = {} OBVIOUS
      <3> HIDE DEF g
      <3>3. Upto(0, g) BY <3>1, <3>2 DEF FieldsByReadGroup
      <3> QED BY <2>2, <2>3, <3>3
    <2>4. CASE m # 0
      <3>1. m - 1 \in Nat /\ m - 1 \in 0 .. n /\ ~ (m <= m - 1) BY <2>2, <2>4
      <3>2. m - 1 \notin Bad BY <2>1, <3>1
      <3>3. \E f : Upto(m - 1, f) BY <3>1, <3>2
      <3>4. PICK f : Upto(m - 1, f) BY <3>3
      <3> DEFINE next == Named(f[m - 1], list[m][1], ReadGroup(Resolved(list[m][2], f[m - 1].val), f[m - 1].rest))
                 g == [k \in 0 .. m |-> IF k = m THEN next ELSE f[k]]
      <3>5. (\A k \in 0 .. m - 1 : g[k] = f[k]) /\ g[m] = next /\ g = [k \in 0 .. m |-> g[k]] BY <3>1
      <3>6. f[0] = Got(<<>>, s) BY <3>4 DEF FieldsByReadGroup
      <3> HIDE DEF g
      <3>7. g[0] = Got(<<>>, s) BY <3>1, <3>5, <3>6
      <3>8. ASSUME NEW k \in 1 .. m
            PROVE  g[k] = Named(g[k - 1], list[k][1], ReadGroup(Resolved(list[k][2], g[k - 1].val), g[k - 1].rest))
        <4>1. k - 1 \in 0 .. m - 1 BY <3>1
        <4>2. g[k - 1] = f[k - 1] BY <3>5, <4>1
        <4>3. CASE k = m BY <3>5, <4>2, <4>3
        <4>4. CASE k # m
          <5>1. k \in 1 .. m - 1 BY <3>1, <4>4
          <5>2. k \in 0 .. m - 1 BY <5>1
          <5>3. f[k] = Named(f[k - 1], list[k][1], ReadGroup(Resolved(list[k][2], f[k - 1].val), f[k - 1].rest))
            BY <3>4, <5>1 DEF FieldsByReadGroup
          <5> QED BY <3>5, <4>2, <5>2, <5>3
        <4> QED BY <4>3, <4>4
      <3>9. Upto(m, g) BY <3>5, <3>7, <3>8 DEF FieldsByReadGroup
      <3> QED BY <2>2, <3>9
    <2> QED BY <2>3, <2>4
  <1>2. Bad = {}
    <2> HIDE DEF Bad
    <2> QED BY <1>1
  <1>3. \E f : Upto(n, f)
    <2>1. n \in 0 .. n OBVIOUS
    <2>2. n \notin Bad
      <3> HIDE DEF Bad
      <3> QED BY <1>2
    <2> QED BY <2>1, <2>2
  <1>4. PICK f : Upto(n, f) BY <1>3
  <1>5. ASSUME NEW k \in 0 .. n
        PROVE  f[k] = IF k = 0 THEN Got(<<>>, s)
                      ELSE Named(f[k - 1], list[k][1], ReadGroup(Resolved(list[k][2], f[k - 1].val), f[k - 1].rest))
    <2>1. CASE k = 0 BY <1>4, <2>1 DEF FieldsByReadGroup
    <2>2. CASE k # 0
      <3>1. k \in 1 .. n BY <2>2
      <3> QED BY <1>4, <2>2, <3>1 DEF FieldsByReadGroup
    <2> QED BY <2>1, <2>2
  <1>6. f = [k \in 0 .. n |-> IF k = 0 THEN Got(<<>>, s)
               ELSE Named(f[k - 1], list[k][1], ReadGroup(Resolved(list[k][2], f[k - 1].val), f[k - 1].rest))]
    <2>1. f = [k \in 0 .. n |-> f[k]] BY <1>4 DEF FieldsByReadGroup
    <2> QED BY <1>5, <2>1, Zenon
  <1>7. F = [k \in 0 .. n |-> IF k = 0 THEN Got(<<>>, s)
               ELSE Named(F[k - 1], list[k][1], ReadGroup(Resolved(list[k][2], F[k - 1].val), F[k - 1].rest))]
    BY <1>6, Zenon
  <1>8. ReadFields(ReadGroup, list, s) = F[n] BY DEF ReadFields
  <1> HIDE DEF F
  <1>9. FieldsByReadGroup(F, list, n, s) BY <1>7 DEF FieldsByReadGroup
  <1> QED BY <1>8, <1>9

\* f holds what was read before and after each field.
FieldsByReadList(f, list, n, s) ==
    /\ f = [k \in 0 .. n |-> f[k]]
    /\ f[0] = Got(<<>>, s)
    /\ \A k \in 1 .. n :
         f[k] = Named(f[k - 1], list[k][1], ReadList(Resolved(list[k][2], f[k - 1].val), f[k - 1].rest))

LEMMA RecordByReadList ==
  ASSUME NEW list, NEW n \in Nat, Len(list) = n, NEW s
  PROVE  \E f : FieldsByReadList(f, list, n, s) /\ ReadFields(ReadList, list, s) = f[n]
  <1> DEFINE Upto(m, f) == FieldsByReadList(f, list, m, s)
             Bad == {m \in Nat : m \in 0 .. n /\ (~ \E f : Upto(m, f))}
             F == CHOOSE f : f = [k \in 0 .. n |-> IF k = 0 THEN Got(<<>>, s)
                    ELSE Named(f[k - 1], list[k][1], ReadList(Resolved(list[k][2], f[k - 1].val), f[k - 1].rest))]
  <1>1. ASSUME Bad # {} PROVE FALSE
    <2>1. PICK m \in Bad : \A j \in Bad : m <= j
      <3> HIDE DEF Bad
      <3>1. Bad \subseteq Nat BY DEF Bad
      <3> QED BY <1>1, <3>1, LeastNatural
    <2>2. m \in Nat /\ m \in 0 .. n /\ (~ \E f : Upto(m, f)) BY <2>1
    <2>3. CASE m = 0
      <3> DEFINE g == [k \in 0 .. 0 |-> Got(<<>>, s)]
      <3>1. g = [k \in 0 .. 0 |-> g[k]] /\ g[0] = Got(<<>>, s) OBVIOUS
      <3>2. 1 .. 0 = {} OBVIOUS
      <3> HIDE DEF g
      <3>3. Upto(0, g) BY <3>1, <3>2 DEF FieldsByReadList
      <3> QED BY <2>2, <2>3, <3>3
    <2>4. CASE m # 0
      <3>1. m - 1 \in Nat /\ m - 1 \in 0 .. n /\ ~ (m <= m - 1) BY <2>2, <2>4
      <3>2. m - 1 \notin Bad BY <2>1, <3>1
      <3>3. \E f : Upto(m - 1, f) BY <3>1, <3>2
      <3>4. PICK f : Upto(m - 1, f) BY <3>3
      <3> DEFINE next == Named(f[m - 1], list[m][1], ReadList(Resolved(list[m][2], f[m - 1].val), f[m - 1].rest))
                 g == [k \in 0 .. m |-> IF k = m THEN next ELSE f[k]]
      <3>5. (\A k \in 0 .. m - 1 : g[k] = f[k]) /\ g[m] = next /\ g = [k \in 0 .. m |-> g[k]] BY <3>1
      <3>6. f[0] = Got(<<>>, s) BY <3>4 DEF FieldsByReadList
      <3> HIDE DEF g
      <3>7. g[0] = Got(<<>>, s) BY <3>1, <3>5, <3>6
      <3>8. ASSUME NEW k \in 1 .. m
            PROVE  g[k] = Named(g[k - 1], list[k][1], ReadList(Resolved(list[k][2], g[k - 1].val), g[k - 1].rest))
        <4>1. k - 1 \in 0 .. m - 1 BY <3>1
        <4>2. g[k - 1] = f[k - 1] BY <3>5, <4>1
        <4>3. CASE k = m BY <3>5, <4>2, <4>3
        <4>4. CASE k # m
          <5>1. k \in 1 .. m - 1 BY <3>1, <4>4
          <5>2. k \in 0 .. m - 1 BY <5>1
          <5>3. f[k] = Named(f[k - 1], list[k][1], ReadList(Resolved(list[k][2], f[k - 1].val), f[k - 1].rest))
            BY <3>4, <5>1 DEF FieldsByReadList
          <5> QED BY <3>5, <4>2, <5>2, <5>3
        <4> QED BY <4>3, <4>4
      <3>9. Upto(m, g) BY <3>5, <3>7, <3>8 DEF FieldsByReadList
      <3> QED BY <2>2, <3>9
    <2> QED BY <2>3, <2>4
  <1>2. Bad = {}
    <2> HIDE DEF Bad
    <2> QED BY <1>1
  <1>3. \E f : Upto(n, f)
    <2>1. n \in 0 .. n OBVIOUS
    <2>2. n \notin Bad
      <3> HIDE DEF Bad
      <3> QED BY <1>2
    <2> QED BY <2>1, <2>2
  <1>4. PICK f : Upto(n, f) BY <1>3
  <1>5. ASSUME NEW k \in 0 .. n
        PROVE  f[k] = IF k = 0 THEN Got(<<>>, s)
                      ELSE Named(f[k - 1], list[k][1], ReadList(Resolved(list[k][2], f[k - 1].val), f[k - 1].rest))
    <2>1. CASE k = 0 BY <1>4, <2>1 DEF FieldsByReadList
    <2>2. CASE k # 0
      <3>1. k \in 1 .. n BY <2>2
      <3> QED BY <1>4, <2>2, <3>1 DEF FieldsByReadList
    <2> QED BY <2>1, <2>2
  <1>6. f = [k \in 0 .. n |-> IF k = 0 THEN Got(<<>>, s)
               ELSE Named(f[k - 1], list[k][1], ReadList(Resolved(list[k][2], f[k - 1].val), f[k - 1].rest))]
    <2>1. f = [k \in 0 .. n |-> f[k]] BY <1>4 DEF FieldsByReadList
    <2> QED BY <1>5, <2>1, Zenon
  <1>7. F = [k \in 0 .. n |-> IF k = 0 THEN Got(<<>>, s)
               ELSE Named(F[k - 1], list[k][1], ReadList(Resolved(list[k][2], F[k - 1].val), F[k - 1].rest))]
    BY <1>6, Zenon
  <1>8. ReadFields(ReadList, list, s) = F[n] BY DEF ReadFields
  <1> HIDE DEF F
  <1>9. FieldsByReadList(F, list, n, s) BY <1>7 DEF FieldsByReadList
  <1> QED BY <1>8, <1>9

\* f holds what was read before and after each field.
FieldsByReadBody(f, list, n, s) ==
    /\ f = [k \in 0 .. n |-> f[k]]
    /\ f[0] = Got(<<>>, s)
    /\ \A k \in 1 .. n :
         f[k] = Named(f[k - 1], list[k][1], ReadBody(Resolved(list[k][2], f[k - 1].val), f[k - 1].rest))

LEMMA RecordByReadBody ==
  ASSUME NEW list, NEW n \in Nat, Len(list) = n, NEW s
  PROVE  \E f : FieldsByReadBody(f, list, n, s) /\ ReadFields(ReadBody, list, s) = f[n]
  <1> DEFINE Upto(m, f) == FieldsByReadBody(f, list, m, s)
             Bad == {m \in Nat : m \in 0 .. n /\ (~ \E f : Upto(m, f))}
             F == CHOOSE f : f = [k \in 0 .. n |-> IF k = 0 THEN Got(<<>>, s)
                    ELSE Named(f[k - 1], list[k][1], ReadBody(Resolved(list[k][2], f[k - 1].val), f[k - 1].rest))]
  <1>1. ASSUME Bad # {} PROVE FALSE
    <2>1. PICK m \in Bad : \A j \in Bad : m <= j
      <3> HIDE DEF Bad
      <3>1. Bad \subseteq Nat BY DEF Bad
      <3> QED BY <1>1, <3>1, LeastNatural
    <2>2. m \in Nat /\ m \in 0 .. n /\ (~ \E f : Upto(m, f)) BY <2>1
    <2>3. CASE m = 0
      <3> DEFINE g == [k \in 0 .. 0 |-> Got(<<>>, s)]
      <3>1. g = [k \in 0 .. 0 |-> g[k]] /\ g[0] = Got(<<>>, s) OBVIOUS
      <3>2. 1 .. 0 = {} OBVIOUS
      <3> HIDE DEF g
      <3>3. Upto(0, g) BY <3>1, <3>2 DEF FieldsByReadBody
      <3> QED BY <2>2, <2>3, <3>3
    <2>4. CASE m # 0
      <3>1. m - 1 \in Nat /\ m - 1 \in 0 .. n /\ ~ (m <= m - 1) BY <2>2, <2>4
      <3>2. m - 1 \notin Bad BY <2>1, <3>1
      <3>3. \E f : Upto(m - 1, f) BY <3>1, <3>2
      <3>4. PICK f : Upto(m - 1, f) BY <3>3
      <3> DEFINE next == Named(f[m - 1], list[m][1], ReadBody(Resolved(list[m][2], f[m - 1].val), f[m - 1].rest))
                 g == [k \in 0 .. m |-> IF k = m THEN next ELSE f[k]]
      <3>5. (\A k \in 0 .. m - 1 : g[k] = f[k]) /\ g[m] = next /\ g = [k \in 0 .. m |-> g[k]] BY <3>1
      <3>6. f[0] = Got(<<>>, s) BY <3>4 DEF FieldsByReadBody
      <3> HIDE DEF g
      <3>7. g[0] = Got(<<>>, s) BY <3>1, <3>5, <3>6
      <3>8. ASSUME NEW k \in 1 .. m
            PROVE  g[k] = Named(g[k - 1], list[k][1], ReadBody(Resolved(list[k][2], g[k - 1].val), g[k - 1].rest))
        <4>1. k - 1 \in 0 .. m - 1 BY <3>1
        <4>2. g[k - 1] = f[k - 1] BY <3>5, <4>1
        <4>3. CASE k = m BY <3>5, <4>2, <4>3
        <4>4. CASE k # m
          <5>1. k \in 1 .. m - 1 BY <3>1, <4>4
          <5>2. k \in 0 .. m - 1 BY <5>1
          <5>3. f[k] = Named(f[k - 1], list[k][1], ReadBody(Resolved(list[k][2], f[k - 1].val), f[k - 1].rest))
            BY <3>4, <5>1 DEF FieldsByReadBody
          <5> QED BY <3>5, <4>2, <5>2, <5>3
        <4> QED BY <4>3, <4>4
      <3>9. Upto(m, g) BY <3>5, <3>7, <3>8 DEF FieldsByReadBody
      <3> QED BY <2>2, <3>9
    <2> QED BY <2>3, <2>4
  <1>2. Bad = {}
    <2> HIDE DEF Bad
    <2> QED BY <1>1
  <1>3. \E f : Upto(n, f)
    <2>1. n \in 0 .. n OBVIOUS
    <2>2. n \notin Bad
      <3> HIDE DEF Bad
      <3> QED BY <1>2
    <2> QED BY <2>1, <2>2
  <1>4. PICK f : Upto(n, f) BY <1>3
  <1>5. ASSUME NEW k \in 0 .. n
        PROVE  f[k] = IF k = 0 THEN Got(<<>>, s)
                      ELSE Named(f[k - 1], list[k][1], ReadBody(Resolved(list[k][2], f[k - 1].val), f[k - 1].rest))
    <2>1. CASE k = 0 BY <1>4, <2>1 DEF FieldsByReadBody
    <2>2. CASE k # 0
      <3>1. k \in 1 .. n BY <2>2
      <3> QED BY <1>4, <2>2, <3>1 DEF FieldsByReadBody
    <2> QED BY <2>1, <2>2
  <1>6. f = [k \in 0 .. n |-> IF k = 0 THEN Got(<<>>, s)
               ELSE Named(f[k - 1], list[k][1], ReadBody(Resolved(list[k][2], f[k - 1].val), f[k - 1].rest))]
    <2>1. f = [k \in 0 .. n |-> f[k]] BY <1>4 DEF FieldsByReadBody
    <2> QED BY <1>5, <2>1, Zenon
  <1>7. F = [k \in 0 .. n |-> IF k = 0 THEN Got(<<>>, s)
               ELSE Named(F[k - 1], list[k][1], ReadBody(Resolved(list[k][2], F[k - 1].val), F[k - 1].rest))]
    BY <1>6, Zenon
  <1>8. ReadFields(ReadBody, list, s) = F[n] BY DEF ReadFields
  <1> HIDE DEF F
  <1>9. FieldsByReadBody(F, list, n, s) BY <1>7 DEF FieldsByReadBody
  <1> QED BY <1>8, <1>9

LEMMA SteadyByReadAtom ==
  ASSUME NEW list, NEW n \in Nat, Len(list) = n, NEW s \in Str,
         \A k \in 1 .. n : \A v : Resolved(list[k][2], v) = list[k][2],
         \A k \in 1 .. n : \A r \in Str : Reading(ReadAtom(list[k][2], r))
  PROVE  Reading(ReadFields(ReadAtom, list, s))
  <1>1. PICK f : FieldsByReadAtom(f, list, n, s) /\ ReadFields(ReadAtom, list, s) = f[n] BY RecordByReadAtom
  <1> DEFINE Bad == {k \in Nat : k \in 0 .. n /\ ~Reading(f[k])}
  <1>2. ASSUME Bad # {} PROVE FALSE
    <2>1. PICK k \in Bad : \A j \in Bad : k <= j
      <3> HIDE DEF Bad
      <3>1. Bad \subseteq Nat BY DEF Bad
      <3> QED BY <1>2, <3>1, LeastNatural
    <2>2. k \in Nat /\ k \in 0 .. n /\ ~Reading(f[k]) BY <2>1
    <2>3. CASE k = 0
      <3>1. f[0] = Got(<<>>, s) BY <1>1 DEF FieldsByReadAtom
      <3> QED BY <2>2, <2>3, <3>1 DEF Reading
    <2>4. CASE k # 0
      <3>1. k - 1 \in Nat /\ k - 1 \in 0 .. n /\ k \in 1 .. n /\ ~ (k <= k - 1) BY <2>2, <2>4
      <3>2. Reading(f[k - 1]) BY <2>1, <3>1
      <3>3. f[k] = Named(f[k - 1], list[k][1], ReadAtom(list[k][2], f[k - 1].rest))
        BY <1>1, <3>1 DEF FieldsByReadAtom
      <3>4. f[k - 1].ok => Reading(ReadAtom(list[k][2], f[k - 1].rest)) BY <3>1, <3>2, ReadingCases
      <3>5. Reading(f[k]) BY <3>2, <3>3, <3>4, NamedReads
      <3> QED BY <2>2, <3>5
    <2> QED BY <2>3, <2>4
  <1>3. n \in 0 .. n /\ n \notin Bad BY <1>2
  <1>4. Reading(f[n]) BY <1>3
  <1> QED BY <1>1, <1>4

LEMMA SteadyByReadGroup ==
  ASSUME NEW list, NEW n \in Nat, Len(list) = n, NEW s \in Str,
         \A k \in 1 .. n : \A v : Resolved(list[k][2], v) = list[k][2],
         \A k \in 1 .. n : \A r \in Str : Reading(ReadGroup(list[k][2], r))
  PROVE  Reading(ReadFields(ReadGroup, list, s))
  <1>1. PICK f : FieldsByReadGroup(f, list, n, s) /\ ReadFields(ReadGroup, list, s) = f[n] BY RecordByReadGroup
  <1> DEFINE Bad == {k \in Nat : k \in 0 .. n /\ ~Reading(f[k])}
  <1>2. ASSUME Bad # {} PROVE FALSE
    <2>1. PICK k \in Bad : \A j \in Bad : k <= j
      <3> HIDE DEF Bad
      <3>1. Bad \subseteq Nat BY DEF Bad
      <3> QED BY <1>2, <3>1, LeastNatural
    <2>2. k \in Nat /\ k \in 0 .. n /\ ~Reading(f[k]) BY <2>1
    <2>3. CASE k = 0
      <3>1. f[0] = Got(<<>>, s) BY <1>1 DEF FieldsByReadGroup
      <3> QED BY <2>2, <2>3, <3>1 DEF Reading
    <2>4. CASE k # 0
      <3>1. k - 1 \in Nat /\ k - 1 \in 0 .. n /\ k \in 1 .. n /\ ~ (k <= k - 1) BY <2>2, <2>4
      <3>2. Reading(f[k - 1]) BY <2>1, <3>1
      <3>3. f[k] = Named(f[k - 1], list[k][1], ReadGroup(list[k][2], f[k - 1].rest))
        BY <1>1, <3>1 DEF FieldsByReadGroup
      <3>4. f[k - 1].ok => Reading(ReadGroup(list[k][2], f[k - 1].rest)) BY <3>1, <3>2, ReadingCases
      <3>5. Reading(f[k]) BY <3>2, <3>3, <3>4, NamedReads
      <3> QED BY <2>2, <3>5
    <2> QED BY <2>3, <2>4
  <1>3. n \in 0 .. n /\ n \notin Bad BY <1>2
  <1>4. Reading(f[n]) BY <1>3
  <1> QED BY <1>1, <1>4

IsAtom(d) == (d.kind = "raw" /\ d.n \in Nat) \/ d.kind \in {"data", "count"}

LEMMA AtomReads ==
  ASSUME NEW d, IsAtom(d), NEW s \in Str
  PROVE  Reading(ReadAtom(d, s))
  <1> DEFINE data(n) == IF n.ok THEN Exactly(n.val, n.rest) ELSE None
             x == CASE d.kind = "raw" -> Exactly(d.n, s)
                    [] d.kind = "count" -> ReadCompact(s)
                    [] d.kind = "data" -> data(ReadCompact(s))
  <1>1. CASE d.kind = "raw"
    <2>1. x = Exactly(d.n, s) BY <1>1
    <2>2. d.n \in Nat BY <1>1 DEF IsAtom
    <2> HIDE DEF x
    <2>3. Reading(x) BY <2>1, <2>2, ExactlyReads, ReadingsRead
    <2> QED BY <2>3, MadeReads DEF ReadAtom, x
  <1>2. CASE d.kind = "count"
    <2>1. x = ReadCompact(s) BY <1>2
    <2> HIDE DEF x
    <2>2. Reading(x) BY <2>1, CompactReads, ReadingsRead
    <2> QED BY <2>2, MadeReads DEF ReadAtom, x
  <1>3. CASE d.kind = "data"
    <2>1. x = data(ReadCompact(s)) BY <1>3
    <2>2. Reading(data(ReadCompact(s)))
      <3>1. CASE ReadCompact(s).ok
        <4>1. ReadCompact(s).val \in Nat /\ ReadCompact(s).rest \in Str BY <3>1, CompactReads, ReadingsRead
        <4>2. data(ReadCompact(s)) = Exactly(ReadCompact(s).val, ReadCompact(s).rest) BY <3>1
        <4> QED BY <4>1, <4>2, ExactlyReads, ReadingsRead
      <3>2. CASE ~ReadCompact(s).ok BY <3>2 DEF Reading
      <3> QED BY <3>1, <3>2
    <2> HIDE DEF x, data
    <2> QED BY <2>1, <2>2, MadeReads DEF ReadAtom, x, data
  <1> QED BY <1>1, <1>2, <1>3 DEF IsAtom

LEMMA AtomsPass ==
  ASSUME NEW d, IsAtom(d), NEW s \in Str
  PROVE  /\ ReadPart(d, s) = ReadAtom(d, s)
         /\ ReadList(d, s) = ReadAtom(d, s)
         /\ ReadGroup(d, s) = ReadAtom(d, s)
         /\ \A v : Resolved(d, v) = d
  <1>1. d.kind \in {"raw", "data", "count"} BY DEF IsAtom
  <1>2. ReadPart(d, s) = ReadAtom(d, s) BY <1>1 DEF ReadPart, ReadWith
  <1>3. ReadList(d, s) = ReadPart(d, s) BY <1>1 DEF ReadList, ReadWith
  <1>4. ReadLeaf(d, s) = ReadAtom(d, s) BY <1>1 DEF ReadLeaf
  <1>5. ReadGroup(d, s) = ReadLeaf(d, s) BY <1>1 DEF ReadGroup, ReadWith
  <1>6. ASSUME NEW v PROVE Resolved(d, v) = d BY <1>1 DEF Resolved
  <1> QED BY <1>2, <1>3, <1>4, <1>5, <1>6

LEMMA LayoutAtoms ==
  /\ \A n \in Nat : IsAtom(Raw(n)) /\ IsAtom(As(Raw(n), "segwit"))
  /\ IsAtom(Counted8)
  BY DEF IsAtom, Raw, As, Counted8, Layout

LEMMA MadeAsItIs ==
  ASSUME NEW x, Reading(x)
  PROVE  Reading(Made(x, "")) /\ (Made(x, "").ok => x.ok /\ Made(x, "").val = x.val)
  <1>1. Convert("", x.val).val = x.val BY DEF Convert
  <1> QED BY <1>1, MadeReads

LEMMA CoinsAreRead ==
  ASSUME NEW s \in Str
  PROVE  Reading(ReadPart(TxInLayout, s)) /\ Reading(ReadPart(TxOutLayout, s))
  <1> DEFINE ins == << <<"outpoint", Raw(36)>>, <<"scriptsig", Counted8>>, <<"sequence", Raw(4)>> >>
             outs == << <<"amount", Raw(8)>>, <<"script", Counted8>> >>
  <1>1. Reading(ReadFields(ReadAtom, ins, s))
    <2>1. Len(ins) = 3 OBVIOUS
    <2>2. \A k \in 1 .. 3 : IsAtom(ins[k][2])
      <3>1. ins[1][2] = Raw(36) /\ ins[2][2] = Counted8 /\ ins[3][2] = Raw(4) OBVIOUS
      <3> HIDE DEF ins
      <3>2. \A k \in 1 .. 3 : k = 1 \/ k = 2 \/ k = 3 OBVIOUS
      <3> QED BY <3>1, <3>2, LayoutAtoms
    <2> HIDE DEF ins
    <2>3. \A k \in 1 .. 3 : \A v : Resolved(ins[k][2], v) = ins[k][2] BY <2>2, AtomsPass
    <2>4. \A k \in 1 .. 3 : \A r \in Str : Reading(ReadAtom(ins[k][2], r)) BY <2>2, AtomReads
    <2> QED BY <2>1, <2>3, <2>4, SteadyByReadAtom
  <1>2. Reading(ReadFields(ReadAtom, outs, s))
    <2>1. Len(outs) = 2 OBVIOUS
    <2>2. \A k \in 1 .. 2 : IsAtom(outs[k][2])
      <3>1. outs[1][2] = Raw(8) /\ outs[2][2] = Counted8 OBVIOUS
      <3> HIDE DEF outs
      <3>2. \A k \in 1 .. 2 : k = 1 \/ k = 2 OBVIOUS
      <3> QED BY <3>1, <3>2, LayoutAtoms
    <2> HIDE DEF outs
    <2>3. \A k \in 1 .. 2 : \A v : Resolved(outs[k][2], v) = outs[k][2] BY <2>2, AtomsPass
    <2>4. \A k \in 1 .. 2 : \A r \in Str : Reading(ReadAtom(outs[k][2], r)) BY <2>2, AtomReads
    <2> QED BY <2>1, <2>3, <2>4, SteadyByReadAtom
  <1>3. TxInLayout.kind = "fields" /\ TxInLayout.list = ins /\ TxInLayout.how = "" BY DEF TxInLayout, Fields
  <1>4. TxOutLayout.kind = "fields" /\ TxOutLayout.list = outs /\ TxOutLayout.how = "" BY DEF TxOutLayout, Fields
  <1> HIDE DEF ins, outs
  <1>5. ReadPart(TxInLayout, s) = Made(ReadFields(ReadAtom, ins, s), "") BY <1>3 DEF ReadPart, ReadWith
  <1>6. ReadPart(TxOutLayout, s) = Made(ReadFields(ReadAtom, outs, s), "") BY <1>4 DEF ReadPart, ReadWith
  <1> QED BY <1>1, <1>2, <1>5, <1>6, MadeReads

LEMMA NoneReads == ASSUME NEW V PROVE None \in Readings(V)
  BY DEF Readings

LEMMA ManyByReadPart ==
  ASSUME NEW d, d.kind = "many", d.how = "", \A r \in Str : Reading(ReadAtom(d.of, r)), NEW s \in Str
  PROVE  /\ Reading(ReadPart(d, s))
         /\ ReadPart(d, s).ok => ReadPart(d, s).val \in Seq({ReadAtom(d.of, r).val : r \in {q \in Str : ReadAtom(d.of, q).ok}})
  <1> DEFINE V == {ReadAtom(d.of, r).val : r \in {q \in Str : ReadAtom(d.of, q).ok}}
             counted(n) == IF ~n.ok THEN None ELSE IF n.val > d.max THEN None
                           ELSE ReadItems(ReadAtom, d.of, n.val, n.rest)
  <1>1. ReadPart(d, s) = Made(counted(ReadCompact(s)), "") BY DEF ReadPart, ReadWith
  <1>2. counted(ReadCompact(s)) \in Readings(Seq(V))
    <2>1. CASE counted(ReadCompact(s)) = None
      <3> HIDE DEF counted, V
      <3> QED BY <2>1, NoneReads
    <2>2. CASE counted(ReadCompact(s)) # None
      <3>1. ReadCompact(s).ok BY <2>2
      <3>2. ReadCompact(s).val \in Nat /\ ReadCompact(s).rest \in Str BY <3>1, CompactReads, ReadingsRead
      <3>3. counted(ReadCompact(s)) = ReadItems(ReadAtom, d.of, ReadCompact(s).val, ReadCompact(s).rest) BY <2>2
      <3> QED BY <3>2, <3>3, ItemsByReadAtom
    <2> QED BY <2>1, <2>2
  <1> HIDE DEF counted, V
  <1>3. Reading(counted(ReadCompact(s))) BY <1>2, ReadingsRead
  <1>4. ReadPart(d, s).ok => ReadPart(d, s).val \in Seq(V)
    <2>1. ReadPart(d, s).ok => counted(ReadCompact(s)).ok /\ ReadPart(d, s).val = counted(ReadCompact(s)).val
      BY <1>1, <1>3, MadeAsItIs
    <2> QED BY <1>2, <2>1, ReadingsRead
  <1> QED BY <1>1, <1>3, <1>4, MadeReads DEF V

LEMMA ManyByReadList ==
  ASSUME NEW d, d.kind = "many", d.how = "", \A r \in Str : Reading(ReadPart(d.of, r)), NEW s \in Str
  PROVE  /\ Reading(ReadList(d, s))
         /\ ReadList(d, s).ok => ReadList(d, s).val \in Seq({ReadPart(d.of, r).val : r \in {q \in Str : ReadPart(d.of, q).ok}})
  <1> DEFINE V == {ReadPart(d.of, r).val : r \in {q \in Str : ReadPart(d.of, q).ok}}
             counted(n) == IF ~n.ok THEN None ELSE IF n.val > d.max THEN None
                           ELSE ReadItems(ReadPart, d.of, n.val, n.rest)
  <1>1. ReadList(d, s) = Made(counted(ReadCompact(s)), "") BY DEF ReadList, ReadWith
  <1>2. counted(ReadCompact(s)) \in Readings(Seq(V))
    <2>1. CASE counted(ReadCompact(s)) = None
      <3> HIDE DEF counted, V
      <3> QED BY <2>1, NoneReads
    <2>2. CASE counted(ReadCompact(s)) # None
      <3>1. ReadCompact(s).ok BY <2>2
      <3>2. ReadCompact(s).val \in Nat /\ ReadCompact(s).rest \in Str BY <3>1, CompactReads, ReadingsRead
      <3>3. counted(ReadCompact(s)) = ReadItems(ReadPart, d.of, ReadCompact(s).val, ReadCompact(s).rest) BY <2>2
      <3> QED BY <3>2, <3>3, ItemsByReadPart
    <2> QED BY <2>1, <2>2
  <1> HIDE DEF counted, V
  <1>3. Reading(counted(ReadCompact(s))) BY <1>2, ReadingsRead
  <1>4. ReadList(d, s).ok => ReadList(d, s).val \in Seq(V)
    <2>1. ReadList(d, s).ok => counted(ReadCompact(s)).ok /\ ReadList(d, s).val = counted(ReadCompact(s)).val
      BY <1>1, <1>3, MadeAsItIs
    <2> QED BY <1>2, <2>1, ReadingsRead
  <1> QED BY <1>1, <1>3, <1>4, MadeReads DEF V

LEMMA ManyByReadBody ==
  ASSUME NEW d, d.kind = "many", d.how = "", \A r \in Str : Reading(ReadGroup(d.of, r)), NEW s \in Str
  PROVE  /\ Reading(ReadBody(d, s))
         /\ ReadBody(d, s).ok => ReadBody(d, s).val \in Seq({ReadGroup(d.of, r).val : r \in {q \in Str : ReadGroup(d.of, q).ok}})
  <1> DEFINE V == {ReadGroup(d.of, r).val : r \in {q \in Str : ReadGroup(d.of, q).ok}}
             counted(n) == IF ~n.ok THEN None ELSE IF n.val > d.max THEN None
                           ELSE ReadItems(ReadGroup, d.of, n.val, n.rest)
  <1>1. ReadBody(d, s) = Made(counted(ReadCompact(s)), "") BY DEF ReadBody, ReadWith
  <1>2. counted(ReadCompact(s)) \in Readings(Seq(V))
    <2>1. CASE counted(ReadCompact(s)) = None
      <3> HIDE DEF counted, V
      <3> QED BY <2>1, NoneReads
    <2>2. CASE counted(ReadCompact(s)) # None
      <3>1. ReadCompact(s).ok BY <2>2
      <3>2. ReadCompact(s).val \in Nat /\ ReadCompact(s).rest \in Str BY <3>1, CompactReads, ReadingsRead
      <3>3. counted(ReadCompact(s)) = ReadItems(ReadGroup, d.of, ReadCompact(s).val, ReadCompact(s).rest) BY <2>2
      <3> QED BY <3>2, <3>3, ItemsByReadGroup
    <2> QED BY <2>1, <2>2
  <1> HIDE DEF counted, V
  <1>3. Reading(counted(ReadCompact(s))) BY <1>2, ReadingsRead
  <1>4. ReadBody(d, s).ok => ReadBody(d, s).val \in Seq(V)
    <2>1. ReadBody(d, s).ok => counted(ReadCompact(s)).ok /\ ReadBody(d, s).val = counted(ReadCompact(s)).val
      BY <1>1, <1>3, MadeAsItIs
    <2> QED BY <1>2, <2>1, ReadingsRead
  <1> QED BY <1>1, <1>3, <1>4, MadeReads DEF V

LEMMA WitnessesRead ==
  ASSUME NEW n \in Nat, NEW s \in Str
  PROVE  Reading(ReadList(Times(WitnessLayout, n), s))
  <1> DEFINE d == Times(WitnessLayout, n)
  <1>1. d.kind = "times" /\ d.how = "" /\ d.of = WitnessLayout /\ d.n = n BY DEF Times
  <1>2. ASSUME NEW r \in Str PROVE Reading(ReadPart(WitnessLayout, r))
    <2>1. WitnessLayout.kind = "many" /\ WitnessLayout.how = "" /\ WitnessLayout.of = Counted8
      BY DEF WitnessLayout, Many
    <2>2. \A q \in Str : Reading(ReadAtom(WitnessLayout.of, q)) BY <2>1, LayoutAtoms, AtomReads
    <2> QED BY <2>1, <2>2, ManyByReadPart
  <1> HIDE DEF d
  <1>3. ReadList(d, s) = Made(ReadItems(ReadPart, WitnessLayout, n, s), "") BY <1>1 DEF ReadList, ReadWith
  <1>4. Reading(ReadItems(ReadPart, WitnessLayout, n, s)) BY <1>2, ItemsByReadPart, ReadingsRead
  <1> QED BY <1>3, <1>4, MadeReads DEF d

\* What stands in a sequence.
Listing(x) == \E V : x \in Seq(V)

LEMMA InputsRead ==
  ASSUME NEW s \in Str
  PROVE  LET x == ReadList(Many(TxInLayout, Unbounded), s)
         IN Reading(x) /\ (x.ok => Listing(x.val))
  <1> DEFINE d == Many(TxInLayout, Unbounded)
  <1>1. d.kind = "many" /\ d.how = "" /\ d.of = TxInLayout BY DEF Many
  <1> HIDE DEF d
  <1>2. \A r \in Str : Reading(ReadPart(d.of, r)) BY <1>1, CoinsAreRead
  <1>3. Reading(ReadList(d, s)) BY <1>1, <1>2, ManyByReadList
  <1>4. ReadList(d, s).ok => ReadList(d, s).val \in Seq({ReadPart(d.of, r).val : r \in {q \in Str : ReadPart(d.of, q).ok}})
    BY <1>1, <1>2, ManyByReadList
  <1> QED BY <1>3, <1>4 DEF Listing, d

LEMMA OutputsRead ==
  ASSUME NEW s \in Str
  PROVE  Reading(ReadList(Many(TxOutLayout, Unbounded), s))
  <1> DEFINE d == Many(TxOutLayout, Unbounded)
  <1>1. d.kind = "many" /\ d.how = "" /\ d.of = TxOutLayout BY DEF Many
  <1> HIDE DEF d
  <1>2. \A r \in Str : Reading(ReadPart(d.of, r)) BY <1>1, CoinsAreRead
  <1>3. Reading(ReadList(d, s)) BY <1>1, <1>2, ManyByReadList
  <1> QED BY <1>3 DEF d

\* The inputs have been read.
HasInputs(g) == Reading(g) /\ (g.ok => "inputs" \in DOMAIN g.val /\ Listing(g.val["inputs"]))

LEMMA ListingLen ==
  ASSUME NEW x, Listing(x)
  PROVE  Len(x) \in Nat /\ DOMAIN x = 1 .. Len(x)
  <1>1. PICK V : x \in Seq(V) BY DEF Listing
  <1> QED BY <1>1

LEMMA InputsKept ==
  ASSUME NEW g, NEW name, name # "inputs", NEW item, HasInputs(g), g.ok => Reading(item)
  PROVE  HasInputs(Named(g, name, item))
  <1>0. Reading(g) BY DEF HasInputs
  <1> DEFINE x == Named(g, name, item)
  <1>1. /\ Reading(x)
        /\ x.ok => /\ g.ok
                   /\ DOMAIN x.val = {name} \union DOMAIN g.val
                   /\ \A other \in DOMAIN g.val \ {name} : x.val[other] = g.val[other]
    BY <1>0, NamedReads
  <1> HIDE DEF x
  <1>2. ASSUME x.ok PROVE "inputs" \in DOMAIN x.val /\ Listing(x.val["inputs"])
    <2>1. "inputs" \in DOMAIN g.val \ {name} /\ Listing(g.val["inputs"]) BY <1>1, <1>2 DEF HasInputs
    <2>2. x.val["inputs"] = g.val["inputs"] BY <1>1, <1>2, <2>1
    <2>3. "inputs" \in DOMAIN x.val BY <1>1, <1>2, <2>1
    <2> QED BY <2>1, <2>2, <2>3
  <1>3. HasInputs(x) BY <1>1, <1>2 DEF HasInputs
  <1> QED BY <1>3 DEF x

LEMMA InputsNamed ==
  ASSUME NEW g, NEW item, Reading(g), g.ok => Reading(item), item.ok => Listing(item.val)
  PROVE  HasInputs(Named(g, "inputs", item))
  <1> DEFINE x == Named(g, "inputs", item)
  <1>1. /\ Reading(x)
        /\ x.ok => /\ g.ok /\ item.ok
                   /\ DOMAIN x.val = {"inputs"} \union DOMAIN g.val
                   /\ x.val["inputs"] = item.val
    BY NamedReads
  <1> HIDE DEF x
  <1>2. HasInputs(x) BY <1>1 DEF HasInputs
  <1> QED BY <1>2 DEF x

\* The fields of a transaction, one after the other.
LEMMA AtomField ==
  ASSUME NEW g, NEW name, NEW d, IsAtom(d), Reading(g)
  PROVE  /\ Reading(Named(g, name, ReadList(Resolved(d, g.val), g.rest)))
         /\ name # "inputs" /\ HasInputs(g) => HasInputs(Named(g, name, ReadList(Resolved(d, g.val), g.rest)))
  <1>1. Resolved(d, g.val) = d
    <2>1. <<>> \in Str BY DEF Str
    <2> QED BY <2>1, AtomsPass
  <1> DEFINE item == ReadList(Resolved(d, g.val), g.rest)
  <1>2. g.ok => Reading(item)
    <2>1. g.ok => g.rest \in Str BY ReadingCases
    <2>2. \A r \in Str : Reading(ReadList(d, r)) BY AtomsPass, AtomReads
    <2> QED BY <1>1, <2>1, <2>2
  <1> HIDE DEF item
  <1>3. Reading(Named(g, name, item)) BY <1>2, NamedReads
  <1>4. name # "inputs" /\ HasInputs(g) => HasInputs(Named(g, name, item)) BY <1>2, InputsKept
  <1> QED BY <1>3, <1>4 DEF item

LEMMA InputsField ==
  ASSUME NEW g, Reading(g)
  PROVE  HasInputs(Named(g, "inputs", ReadList(Resolved(Many(TxInLayout, Unbounded), g.val), g.rest)))
  <1>1. Resolved(Many(TxInLayout, Unbounded), g.val) = Many(TxInLayout, Unbounded) BY DEF Resolved, Many
  <1> DEFINE item == ReadList(Resolved(Many(TxInLayout, Unbounded), g.val), g.rest)
  <1>2. g.ok => Reading(item) /\ (item.ok => Listing(item.val))
    <2>1. g.ok => g.rest \in Str BY ReadingCases
    <2> QED BY <1>1, <2>1, InputsRead
  <1> HIDE DEF item
  <1>3. CASE g.ok BY <1>2, <1>3, InputsNamed DEF item
  <1>4. CASE ~g.ok
    <2>1. Named(g, "inputs", item) = None BY <1>4 DEF Named
    <2>2. HasInputs(None) BY NotOk DEF HasInputs, Reading
    <2> QED BY <2>1, <2>2 DEF item
  <1> QED BY <1>3, <1>4, ReadingCases

LEMMA OutputsField ==
  ASSUME NEW g, HasInputs(g)
  PROVE  HasInputs(Named(g, "outputs", ReadList(Resolved(Many(TxOutLayout, Unbounded), g.val), g.rest)))
  <1>1. Resolved(Many(TxOutLayout, Unbounded), g.val) = Many(TxOutLayout, Unbounded) BY DEF Resolved, Many
  <1> DEFINE item == ReadList(Resolved(Many(TxOutLayout, Unbounded), g.val), g.rest)
  <1>2. g.ok => Reading(item)
    <2>1. g.ok => g.rest \in Str BY ReadingCases DEF HasInputs
    <2> QED BY <1>1, <2>1, OutputsRead
  <1> HIDE DEF item
  <1>3. HasInputs(Named(g, "outputs", item))
    <2>1. "outputs" # "inputs" OBVIOUS
    <2> QED BY <1>2, <2>1, InputsKept
  <1> QED BY <1>3 DEF item

LEMMA WitnessField ==
  ASSUME NEW g, HasInputs(g)
  PROVE  HasInputs(Named(g, "witness", ReadList(Resolved(WitnessesLayout, g.val), g.rest)))
  <1>1. Resolved(WitnessesLayout, g.val) = Times(WitnessLayout, Len(g.val.inputs))
    BY DEF Resolved, WitnessesLayout, Layout
  <1> DEFINE item == ReadList(Resolved(WitnessesLayout, g.val), g.rest)
  <1>2. g.ok => Reading(item)
    <2>1. g.ok => g.rest \in Str BY ReadingCases DEF HasInputs
    <2>2. g.ok => Listing(g.val.inputs) BY DEF HasInputs
    <2>3. g.ok => Len(g.val.inputs) \in Nat BY <2>2, ListingLen
    <2> QED BY <1>1, <2>1, <2>3, WitnessesRead
  <1> HIDE DEF item
  <1>3. HasInputs(Named(g, "witness", item))
    <2>1. "witness" # "inputs" OBVIOUS
    <2> QED BY <1>2, <2>1, InputsKept
  <1> QED BY <1>3 DEF item

LEMMA BareTxRead ==
  ASSUME NEW s \in Str
  PROVE  HasInputs(ReadFields(ReadList, TxFields(FALSE), s))
  <1> DEFINE list == TxFields(FALSE)
  <1>1. list = << <<"version", Raw(4)>>, <<"inputs", Many(TxInLayout, Unbounded)>>,
                  <<"outputs", Many(TxOutLayout, Unbounded)>>, <<"locktime", Raw(4)>> >>
    BY DEF TxFields
  <1> HIDE DEF list
  <1>2. Len(list) = 4 /\ 4 \in Nat BY <1>1
  <1>3. /\ list[1][1] = "version" /\ list[1][2] = Raw(4)
        /\ list[2][1] = "inputs" /\ list[2][2] = Many(TxInLayout, Unbounded)
        /\ list[3][1] = "outputs" /\ list[3][2] = Many(TxOutLayout, Unbounded)
        /\ list[4][1] = "locktime" /\ list[4][2] = Raw(4)
    BY <1>1
  <1>4. PICK f : FieldsByReadList(f, list, 4, s) /\ ReadFields(ReadList, list, s) = f[4]
    <2>1. ASSUME NEW n \in Nat, Len(list) = n
          PROVE  \E f : FieldsByReadList(f, list, n, s) /\ ReadFields(ReadList, list, s) = f[n]
      BY <2>1, RecordByReadList
    <2> QED BY <1>2, <2>1
  <1>5. /\ f[0] = Got(<<>>, s)
        /\ f[1] = Named(f[0], "version", ReadList(Resolved(Raw(4), f[0].val), f[0].rest))
        /\ f[2] = Named(f[1], "inputs", ReadList(Resolved(Many(TxInLayout, Unbounded), f[1].val), f[1].rest))
        /\ f[3] = Named(f[2], "outputs", ReadList(Resolved(Many(TxOutLayout, Unbounded), f[2].val), f[2].rest))
        /\ f[4] = Named(f[3], "locktime", ReadList(Resolved(Raw(4), f[3].val), f[3].rest))
    <2>1. \A k \in 1 .. 4 : f[k] = Named(f[k - 1], list[k][1], ReadList(Resolved(list[k][2], f[k - 1].val), f[k - 1].rest))
      BY <1>4 DEF FieldsByReadList
    <2>2. 1 \in 1 .. 4 /\ 2 \in 1 .. 4 /\ 3 \in 1 .. 4 /\ 4 \in 1 .. 4 /\ 1 - 1 = 0 /\ 2 - 1 = 1 /\ 3 - 1 = 2 /\ 4 - 1 = 3
      OBVIOUS
    <2>3. f[0] = Got(<<>>, s) BY <1>4 DEF FieldsByReadList
    <2> QED BY <1>3, <2>1, <2>2, <2>3
  <1>6. Reading(f[0]) BY <1>5 DEF Reading
  <1>7. IsAtom(Raw(4)) BY LayoutAtoms
  <1>8. Reading(f[1]) BY <1>5, <1>6, <1>7, AtomField
  <1>9. HasInputs(f[2]) BY <1>5, <1>8, InputsField
  <1>10. HasInputs(f[3]) BY <1>5, <1>9, OutputsField
  <1>11. HasInputs(f[4])
    <2>1. "locktime" # "inputs" OBVIOUS
    <2> QED BY <1>5, <1>7, <1>10, <2>1, AtomField DEF HasInputs
  <1> QED BY <1>4, <1>11 DEF list

LEMMA MarkedTxRead ==
  ASSUME NEW s \in Str
  PROVE  HasInputs(ReadFields(ReadList, TxFields(TRUE), s))
  <1> DEFINE list == TxFields(TRUE)
  <1>1. list = << <<"version", Raw(4)>>, <<"segwit", As(Raw(2), "segwit")>>,
                  <<"inputs", Many(TxInLayout, Unbounded)>>, <<"outputs", Many(TxOutLayout, Unbounded)>>,
                  <<"witness", WitnessesLayout>>, <<"locktime", Raw(4)>> >>
    BY DEF TxFields
  <1> HIDE DEF list
  <1>2. Len(list) = 6 /\ 6 \in Nat BY <1>1
  <1>3. /\ list[1][1] = "version" /\ list[1][2] = Raw(4)
        /\ list[2][1] = "segwit" /\ list[2][2] = As(Raw(2), "segwit")
        /\ list[3][1] = "inputs" /\ list[3][2] = Many(TxInLayout, Unbounded)
        /\ list[4][1] = "outputs" /\ list[4][2] = Many(TxOutLayout, Unbounded)
        /\ list[5][1] = "witness" /\ list[5][2] = WitnessesLayout
        /\ list[6][1] = "locktime" /\ list[6][2] = Raw(4)
    BY <1>1
  <1>4. PICK f : FieldsByReadList(f, list, 6, s) /\ ReadFields(ReadList, list, s) = f[6]
    <2>1. ASSUME NEW n \in Nat, Len(list) = n
          PROVE  \E f : FieldsByReadList(f, list, n, s) /\ ReadFields(ReadList, list, s) = f[n]
      BY <2>1, RecordByReadList
    <2> QED BY <1>2, <2>1
  <1>5. /\ f[0] = Got(<<>>, s)
        /\ f[1] = Named(f[0], "version", ReadList(Resolved(Raw(4), f[0].val), f[0].rest))
        /\ f[2] = Named(f[1], "segwit", ReadList(Resolved(As(Raw(2), "segwit"), f[1].val), f[1].rest))
        /\ f[3] = Named(f[2], "inputs", ReadList(Resolved(Many(TxInLayout, Unbounded), f[2].val), f[2].rest))
        /\ f[4] = Named(f[3], "outputs", ReadList(Resolved(Many(TxOutLayout, Unbounded), f[3].val), f[3].rest))
        /\ f[5] = Named(f[4], "witness", ReadList(Resolved(WitnessesLayout, f[4].val), f[4].rest))
        /\ f[6] = Named(f[5], "locktime", ReadList(Resolved(Raw(4), f[5].val), f[5].rest))
    <2>1. \A k \in 1 .. 6 : f[k] = Named(f[k - 1], list[k][1], ReadList(Resolved(list[k][2], f[k - 1].val), f[k - 1].rest))
      BY <1>4 DEF FieldsByReadList
    <2>2. /\ 1 \in 1 .. 6 /\ 2 \in 1 .. 6 /\ 3 \in 1 .. 6 /\ 4 \in 1 .. 6 /\ 5 \in 1 .. 6 /\ 6 \in 1 .. 6
          /\ 1 - 1 = 0 /\ 2 - 1 = 1 /\ 3 - 1 = 2 /\ 4 - 1 = 3 /\ 5 - 1 = 4 /\ 6 - 1 = 5
      OBVIOUS
    <2>3. f[0] = Got(<<>>, s) BY <1>4 DEF FieldsByReadList
    <2> QED BY <1>3, <2>1, <2>2, <2>3
  <1>6. Reading(f[0]) BY <1>5 DEF Reading
  <1>7. IsAtom(Raw(4)) /\ IsAtom(As(Raw(2), "segwit")) BY LayoutAtoms
  <1>8. Reading(f[1]) BY <1>5, <1>6, <1>7, AtomField
  <1>9. Reading(f[2]) BY <1>5, <1>7, <1>8, AtomField
  <1>10. HasInputs(f[3]) BY <1>5, <1>9, InputsField
  <1>11. HasInputs(f[4]) BY <1>5, <1>10, OutputsField
  <1>12. HasInputs(f[5]) BY <1>5, <1>11, WitnessField
  <1>13. HasInputs(f[6])
    <2>1. "locktime" # "inputs" OBVIOUS
    <2> QED BY <1>5, <1>7, <1>12, <2>1, AtomField DEF HasInputs
  <1> QED BY <1>4, <1>13 DEF list

\* A transaction that was read has a list of inputs.
LEMMA TxRead ==
  ASSUME NEW s \in Str
  PROVE  Reading(ReadTx(s)) /\ (ReadTx(s).ok => Listing(ReadTx(s).val.inputs))
  <1> DEFINE segwit == Len(s) > 4 /\ s[5] = 0
             x == ReadFields(ReadList, TxFields(segwit), s)
  <1>1. HasInputs(x)
    <2>1. CASE segwit
      <3>1. TxFields(segwit) = TxFields(TRUE) BY <2>1 DEF TxFields
      <3> QED BY <3>1, MarkedTxRead
    <2>2. CASE ~segwit
      <3>1. TxFields(segwit) = TxFields(FALSE) BY <2>2 DEF TxFields
      <3> QED BY <3>1, BareTxRead
    <2> QED BY <2>1, <2>2
  <1>2. ReadTx(s) = Made(x, "tx") BY DEF ReadTx
  <1> HIDE DEF x
  <1>3. Reading(ReadTx(s)) BY <1>1, <1>2, MadeReads DEF HasInputs
  <1>4. ASSUME ReadTx(s).ok PROVE Listing(ReadTx(s).val.inputs)
    <2>1. x.ok /\ ReadTx(s).val = Convert("tx", x.val).val BY <1>1, <1>2, <1>4, MadeReads DEF HasInputs
    <2>2. Convert("tx", x.val).val.inputs = x.val.inputs BY DEF Convert
    <2>3. Listing(x.val.inputs) BY <1>1, <2>1 DEF HasInputs
    <2> QED BY <2>1, <2>2, <2>3
  <1> QED BY <1>3, <1>4

\* The transactions that can be read from some bytes.
TxsRead == {ReadTx(r).val : r \in {q \in Str : ReadTx(q).ok}}

LEMMA TxsListInputs == \A tx \in TxsRead : Listing(tx.inputs)
  BY TxRead DEF TxsRead

LEMMA TxLists ==
  ASSUME NEW s \in Str
  PROVE  LET x == ReadBody(Many(TxLayout, Unbounded), s)
         IN Reading(x) /\ (x.ok => x.val \in Seq(TxsRead))
  <1> DEFINE d == Many(TxLayout, Unbounded)
  <1>1. d.kind = "many" /\ d.how = "" /\ d.of = TxLayout BY DEF Many
  <1> HIDE DEF d
  <1>2. \A r : ReadGroup(d.of, r) = ReadTx(r)
    <2>1. TxLayout.kind = "tx" BY DEF TxLayout, Layout
    <2>2. \A r : ReadLeaf(TxLayout, r) = ReadTx(r) BY <2>1 DEF ReadLeaf
    <2>3. \A r : ReadGroup(TxLayout, r) = ReadLeaf(TxLayout, r) BY <2>1 DEF ReadGroup, ReadWith
    <2> QED BY <1>1, <2>2, <2>3
  <1>3. \A r \in Str : Reading(ReadGroup(d.of, r)) BY <1>2, TxRead
  <1>4. Reading(ReadBody(d, s)) BY <1>1, <1>3, ManyByReadBody
  <1>5. ReadBody(d, s).ok => ReadBody(d, s).val \in Seq({ReadGroup(d.of, r).val : r \in {q \in Str : ReadGroup(d.of, q).ok}})
    BY <1>1, <1>3, ManyByReadBody
  <1>6. {ReadGroup(d.of, r).val : r \in {q \in Str : ReadGroup(d.of, q).ok}} = TxsRead
    BY <1>2 DEF TxsRead
  <1> QED BY <1>4, <1>5, <1>6 DEF d

LEMMA HeaderRead ==
  ASSUME NEW s \in Str
  PROVE  Reading(ReadBody(HeaderLayout, s))
  <1> DEFINE list == << <<"version", Raw(4)>>, <<"prev_block", Hash>>, <<"merkle_root", Hash>>,
                        <<"timestamp", Raw(4)>>, <<"bits", Raw(4)>>, <<"nonce", Raw(4)>> >>
  <1>1. HeaderLayout.kind = "fields" /\ HeaderLayout.list = list /\ HeaderLayout.how = "header"
    BY DEF HeaderLayout, As, Fields
  <1>2. Len(list) = 6 OBVIOUS
  <1>3. /\ list[1][2] = Raw(4) /\ list[2][2] = Raw(32) /\ list[3][2] = Raw(32)
        /\ list[4][2] = Raw(4) /\ list[5][2] = Raw(4) /\ list[6][2] = Raw(4)
    BY DEF Hash
  <1> HIDE DEF list
  <1>4. \A k \in 1 .. 6 : IsAtom(list[k][2])
    <2>1. \A k \in 1 .. 6 : k = 1 \/ k = 2 \/ k = 3 \/ k = 4 \/ k = 5 \/ k = 6 OBVIOUS
    <2>2. IsAtom(Raw(4)) /\ IsAtom(Raw(32)) BY LayoutAtoms
    <2> QED BY <1>3, <2>1, <2>2
  <1>5. \A k \in 1 .. 6 : \A v : Resolved(list[k][2], v) = list[k][2] BY <1>4, AtomsPass
  <1>6. \A k \in 1 .. 6 : \A r \in Str : Reading(ReadGroup(list[k][2], r)) BY <1>4, AtomReads, AtomsPass
  <1>7. Reading(ReadFields(ReadGroup, list, s)) BY <1>2, <1>5, <1>6, SteadyByReadGroup
  <1>8. ReadBody(HeaderLayout, s) = Made(ReadFields(ReadGroup, list, s), "header")
    BY <1>1 DEF ReadBody, ReadWith
  <1> QED BY <1>7, <1>8, MadeReads

\* A block that was read has a list of transactions.
LEMMA BlockRead ==
  ASSUME NEW s \in Str, Read(BlockLayout, s).ok
  PROVE  Tail(Read(BlockLayout, s).val.txs) \in Seq(TxsRead)
  <1> DEFINE list == << <<"header", HeaderLayout>>, <<"txs", Many(TxLayout, Unbounded)>> >>
             x == ReadFields(ReadBody, list, s)
  <1>1. BlockLayout.kind = "fields" /\ BlockLayout.list = list /\ BlockLayout.how = "block"
    BY DEF BlockLayout, As, Fields
  <1>2. Len(list) = 2 /\ 2 \in Nat OBVIOUS
  <1>3. /\ list[1][1] = "header" /\ list[1][2] = HeaderLayout
        /\ list[2][1] = "txs" /\ list[2][2] = Many(TxLayout, Unbounded)
    OBVIOUS
  <1>4. Read(BlockLayout, s) = Made(x, "block")
    <2> HIDE DEF list
    <2> QED BY <1>1 DEF Read, ReadWith
  <1> HIDE DEF list
  <1>5. PICK f : FieldsByReadBody(f, list, 2, s) /\ x = f[2]
    <2>1. ASSUME NEW n \in Nat, Len(list) = n
          PROVE  \E f : FieldsByReadBody(f, list, n, s) /\ ReadFields(ReadBody, list, s) = f[n]
      BY <2>1, RecordByReadBody
    <2> QED BY <1>2, <2>1
  <1> HIDE DEF x
  <1>6. /\ f[0] = Got(<<>>, s)
        /\ f[1] = Named(f[0], "header", ReadBody(HeaderLayout, f[0].rest))
        /\ f[2] = Named(f[1], "txs", ReadBody(Many(TxLayout, Unbounded), f[1].rest))
    <2>1. \A k \in 1 .. 2 : f[k] = Named(f[k - 1], list[k][1], ReadBody(Resolved(list[k][2], f[k - 1].val), f[k - 1].rest))
      BY <1>5 DEF FieldsByReadBody
    <2>2. 1 \in 1 .. 2 /\ 2 \in 1 .. 2 /\ 1 - 1 = 0 /\ 2 - 1 = 1 OBVIOUS
    <2>3. f[0] = Got(<<>>, s) BY <1>5 DEF FieldsByReadBody
    <2>4. \A v : Resolved(HeaderLayout, v) = HeaderLayout
      <3>1. HeaderLayout.kind = "fields" BY DEF HeaderLayout, As, Fields
      <3> QED BY <3>1 DEF Resolved
    <2>5. \A v : Resolved(Many(TxLayout, Unbounded), v) = Many(TxLayout, Unbounded) BY DEF Resolved, Many
    <2> QED BY <1>3, <2>1, <2>2, <2>3, <2>4, <2>5
  <1>7. Reading(f[0]) BY <1>6 DEF Reading
  <1>8. Reading(f[1])
    <2>1. f[0].rest = s BY <1>6 DEF Got
    <2> QED BY <1>6, <1>7, <2>1, HeaderRead, NamedReads
  <1> DEFINE item == ReadBody(Many(TxLayout, Unbounded), f[1].rest)
  <1>9. f[1].ok => Reading(item) /\ (item.ok => item.val \in Seq(TxsRead))
    <2>1. f[1].ok => f[1].rest \in Str BY <1>8, ReadingCases
    <2> QED BY <2>1, TxLists
  <1>10. f[2] = Named(f[1], "txs", item) BY <1>6
  <1> HIDE DEF item
  <1>11. /\ Reading(f[2])
         /\ f[2].ok => /\ f[1].ok /\ item.ok
                       /\ DOMAIN f[2].val = {"txs"} \union DOMAIN f[1].val
                       /\ f[2].val["txs"] = item.val
    BY <1>8, <1>9, <1>10, NamedReads
  <1>12. f[2].ok /\ Read(BlockLayout, s).val = Convert("block", f[2].val).val /\ Convert("block", f[2].val).ok
    BY <1>4, <1>5, <1>11, MadeReads
  <1>13. f[2].val.txs \in Seq(TxsRead) /\ "txs" \in DOMAIN f[2].val BY <1>9, <1>11, <1>12
  <1> DEFINE v == f[2].val
  <1> HIDE DEF v
  <1>14. v.txs \in Seq(TxsRead) /\ "txs" \in DOMAIN v /\ Convert("block", v).ok BY <1>12, <1>13 DEF v
  <1>15. v.txs # <<>> BY <1>14 DEF Convert
  <1>16. Convert("block", v).val.txs = v.txs
    <2>1. Convert("block", v).val = [v EXCEPT !.header.merkle_root = <<>>] BY DEF Convert
    <2> QED BY <1>14, <2>1
  <1>17. Tail(v.txs) \in Seq(TxsRead) BY <1>14, <1>15
  <1> QED BY <1>12, <1>16, <1>17 DEF v

\* The letters of the commands are all different.
LEMMA LettersDiffer ==
  ASSUME NEW j \in 1 .. 34, NEW k \in 1 .. 34, Letters(j) = Letters(k)
  PROVE  j = k
  <1>1. 97 + (j \div 26) = 97 + (k \div 26) /\ 97 + (j % 26) = 97 + (k % 26) BY DEF Letters
  <1> QED BY <1>1

LEMMA CommandLetters ==
  /\ DOMAIN Commands = 1 .. 34
  /\ Commands[15] = "block" /\ Commands[28] = "tx"
  /\ CommandBytes("block") = Letters(15)
  /\ CommandBytes("tx") = Letters(28)
  <1>1. DOMAIN Commands = 1 .. 34 /\ Commands[15] = "block" /\ Commands[28] = "tx" BY DEF Commands
  <1>2. {k \in DOMAIN Commands : Commands[k] = "block"} = {15} BY DEF Commands
  <1>3. {k \in DOMAIN Commands : Commands[k] = "tx"} = {28} BY DEF Commands
  <1>4. (CHOOSE k \in {15} : TRUE) = 15 /\ (CHOOSE k \in {28} : TRUE) = 28 OBVIOUS
  <1>5. CommandBytes("block") = Letters(15) BY <1>2, <1>4 DEF CommandBytes
  <1>6. CommandBytes("tx") = Letters(28) BY <1>3, <1>4 DEF CommandBytes
  <1> QED BY <1>1, <1>5, <1>6

\* The reader that FromEnvelope takes for a command.
LEMMA ReaderOf ==
  ASSUME NEW h, NEW k \in 1 .. 34, h.command = Letters(k)
  PROVE  /\ {j \in DOMAIN Commands : Letters(j) = h.command} = {k}
         /\ (CHOOSE j \in {k} : TRUE) = k
  BY CommandLetters, LettersDiffer

\* The transactions that a message brings have been read.
LEMMA BroughtRead ==
  ASSUME NEW h, NEW payload \in Str, FromEnvelope(h, payload).ok
  PROVE  Brought(FromEnvelope(h, payload)) \in Seq(TxsRead)
  <1> DEFINE known == {k \in DOMAIN Commands : Letters(k) = h.command}
             item == IF known = {} THEN [ok |-> TRUE, val |-> payload]
                     ELSE Read(Registered[Commands[CHOOSE k \in known : TRUE]], payload)
             msg == FromEnvelope(h, payload)
  <1>1. item.ok /\ msg = [ok |-> TRUE, command |-> h.command, value |-> item.val]
    <2> DEFINE message(x) == IF x.ok THEN [ok |-> TRUE, command |-> h.command, value |-> x.val] ELSE None
    <2>1. msg = None \/ msg = message(item)
      <3> HIDE DEF item
      <3> QED BY DEF FromEnvelope, item
    <2> HIDE DEF item, msg
    <2>2. msg.ok BY DEF msg
    <2> QED BY <2>1, <2>2, NotOk
  <1>2. CASE h.command = CommandBytes("tx")
    <2>1. known = {28} /\ (CHOOSE j \in {28} : TRUE) = 28 BY <1>2, CommandLetters, ReaderOf
    <2>2. item = Read(Registered["tx"], payload) BY <2>1, CommandLetters
    <2>3. Registered["tx"] = TxLayout BY DEF Registered
    <2>4. TxLayout.kind = "tx" BY DEF TxLayout, Layout
    <2>5. Read(TxLayout, payload) = ReadTx(payload)
      <3>1. Read(TxLayout, payload) = ReadBody(TxLayout, payload) BY <2>4 DEF Read, ReadWith
      <3>2. ReadBody(TxLayout, payload) = ReadGroup(TxLayout, payload) BY <2>4 DEF ReadBody, ReadWith
      <3>3. ReadGroup(TxLayout, payload) = ReadLeaf(TxLayout, payload) BY <2>4 DEF ReadGroup, ReadWith
      <3>4. ReadLeaf(TxLayout, payload) = ReadTx(payload) BY <2>4 DEF ReadLeaf
      <3> QED BY <3>1, <3>2, <3>3, <3>4
    <2> HIDE DEF item, msg
    <2>6. item.val \in TxsRead BY <1>1, <2>2, <2>3, <2>5 DEF TxsRead
    <2>9. h.command # CommandBytes("block")
      <3>1. 28 \in 1 .. 34 /\ 15 \in 1 .. 34 /\ 28 # 15 OBVIOUS
      <3> QED BY <1>2, <3>1, CommandLetters, LettersDiffer
    <2>7. Brought(msg) = <<item.val>> BY <1>1, <1>2, <2>9 DEF Brought
    <2>8. Brought(msg) \in Seq(TxsRead) BY <2>6, <2>7
    <2> QED BY <2>8 DEF msg
  <1>3. CASE h.command # CommandBytes("tx") /\ h.command = CommandBytes("block")
    <2>1. known = {15} /\ (CHOOSE j \in {15} : TRUE) = 15 BY <1>3, CommandLetters, ReaderOf
    <2>2. item = Read(Registered["block"], payload) BY <2>1, CommandLetters
    <2>3. Registered["block"] = BlockLayout BY DEF Registered
    <2> HIDE DEF item, msg
    <2>4. Tail(item.val.txs) \in Seq(TxsRead) BY <1>1, <2>2, <2>3, BlockRead
    <2>5. Brought(msg) = Tail(item.val.txs) BY <1>1, <1>3 DEF Brought
    <2>6. Brought(msg) \in Seq(TxsRead) BY <2>4, <2>5
    <2> QED BY <2>6 DEF msg
  <1>4. CASE h.command # CommandBytes("tx") /\ h.command # CommandBytes("block")
    <2> HIDE DEF item, msg
    <2>1. Brought(msg) = <<>> BY <1>1, <1>4 DEF Brought
    <2>2. Brought(msg) \in Seq(TxsRead) BY <2>1
    <2> QED BY <2>2 DEF msg
  <1> QED BY <1>2, <1>3, <1>4

(*----------------------------- bytes on the wire -----------------------------*)

LEMMA JoinedBytes ==
  ASSUME NEW a \in Str, NEW b \in Str
  PROVE  a \o b \in Str
  BY ConcatProperties DEF Str

LEMMA OtherBytes == \A x \in Byte : 255 - x \in Byte /\ (x + 1) % 256 \in Byte
  BY DEF Byte

\* Whatever happens to a frame, it stays a string of bytes.
LEMMA DamageKeeps ==
  ASSUME NEW b \in Str, b # <<>>, NEW fault
  PROVE  Damage(b, fault) \in Str
  <1>0. Len(b) \in Nat /\ \A k \in 1 .. Len(b) : b[k] \in Byte
    BY ElementOfSeq DEF Str
  <1>1. ASSUME NEW k, NEW x \in Byte PROVE [b EXCEPT ![k] = x] \in Str
    <2>1. CASE k \in 1 .. Len(b) BY <2>1, ExceptSeq DEF Str
    <2>2. CASE k \notin 1 .. Len(b)
      <3>1. DOMAIN b = 1 .. Len(b) /\ b = [j \in DOMAIN b |-> b[j]] BY DEF Str
      <3>2. [b EXCEPT ![k] = x] = b BY <2>2, <3>1
      <3> QED BY <3>2
    <2> QED BY <2>1, <2>2
  <1>2. CASE fault = "magic"
    <2> DEFINE other == CHOOSE x \in AllowedMagic : x # Magic
    <2>1. other \in AllowedMagic BY MagicAssumption
    <2>2. other \in Str BY <2>1, MagicAssumption DEF Str
    <2> HIDE DEF other
    <2>3. Drop(b, 4) \in Str BY StrCut
    <2>4. other \o Drop(b, 4) \in Str BY <2>2, <2>3, JoinedBytes
    <2> QED BY <1>2, <2>4 DEF Damage, other
  <1>3. CASE fault = "unknown"
    <2>1. 1 \in 1 .. Len(b) BY <1>0
    <2>2. b[1] \in Byte BY <1>0, <2>1
    <2>3. 255 - b[1] \in Byte BY <2>2, OtherBytes, Zenon
    <2>4. [b EXCEPT ![1] = 255 - b[1]] \in Str BY <1>1, <2>3
    <2> QED BY <1>3, <2>4 DEF Damage
  <1>4. CASE fault = "padding"
    <2>1. 1 \in Byte BY DEF Byte
    <2>2. [b EXCEPT ![16] = 1] \in Str BY <1>1, <2>1
    <2> QED BY <1>4, <2>2 DEF Damage
  <1>5. CASE fault = "size"
    <2>1. CASE 17 \in 1 .. Len(b)
      <3>1. b[17] \in Byte BY <1>0, <2>1
      <3>2. (b[17] + 1) % 256 \in Byte BY <3>1, OtherBytes, Zenon
      <3>3. [b EXCEPT ![17] = (b[17] + 1) % 256] \in Str BY <1>1, <3>2
      <3> QED BY <1>5, <3>3 DEF Damage
    <2>2. CASE 17 \notin 1 .. Len(b)
      <3>1. DOMAIN b = 1 .. Len(b) /\ b = [j \in DOMAIN b |-> b[j]] BY DEF Str
      <3>2. [b EXCEPT ![17] = (b[17] + 1) % 256] = b BY <2>2, <3>1
      <3> QED BY <1>5, <3>2 DEF Damage
    <2> QED BY <2>1, <2>2
  <1>6. CASE fault = "payload"
    <2>1. Len(b) \in 1 .. Len(b) BY <1>0
    <2>2. b[Len(b)] \in Byte BY <1>0, <2>1
    <2>3. 255 - b[Len(b)] \in Byte BY <2>2, OtherBytes, Zenon
    <2>4. [b EXCEPT ![Len(b)] = 255 - b[Len(b)]] \in Str BY <1>1, <2>3
    <2> QED BY <1>6, <2>4 DEF Damage
  <1>7. CASE fault \notin {"magic", "unknown", "padding", "size", "payload"} BY <1>7 DEF Damage
  <1> QED BY <1>2, <1>3, <1>4, <1>5, <1>6, <1>7

\* The size of a header that was read is a number.
LEMMA HeaderSizeNat ==
  ASSUME NEW b \in Str, Len(b) = HeaderLength, ReadHeader(b).ok
  PROVE  ReadHeader(b).size \in Nat
  <1>0. 17 \in 1 .. Len(b) + 1 /\ 20 \in 0 .. Len(b) BY DEF HeaderLength
  <1>1. SubSeq(b, 17, 20) \in Str BY <1>0, SubSeqProperties DEF Str
  <1>2. FromLe(SubSeq(b, 17, 20)) \in Nat BY <1>1, FromLeNat
  <1>3. ReadHeader(b).size = FromLe(SubSeq(b, 17, 20)) BY NotOk DEF ReadHeader
  <1> QED BY <1>2, <1>3

LEMMA ListingAppend ==
  ASSUME NEW s, Listing(s), NEW x
  PROVE  Listing(Append(s, x)) /\ Last(Append(s, x)) = x
  <1>1. PICK V : s \in Seq(V) BY DEF Listing
  <1>2. s \in Seq(V \union {x}) BY <1>1
  <1>3. Append(s, x) \in Seq(V \union {x}) BY <1>2
  <1>4. Len(Append(s, x)) = Len(s) + 1 /\ Append(s, x)[Len(s) + 1] = x BY <1>2
  <1> QED BY <1>3, <1>4 DEF Listing, Last

(*------------------------------ the outputs spent ------------------------------*)

\* The outputs that a transaction leaves.
LeftPoints(tx) == {Txid(tx) \o ToLe(k - 1, 4) : k \in DOMAIN tx.outputs}
Leaves(txs, d) == UNION {LeftPoints(txs[e]) : e \in 1 .. d}

InPoints(tx) == {tx.inputs[k].outpoint : k \in DOMAIN tx.inputs}
Spends(txs, c) == UNION {InPoints(txs[t]) : t \in 1 .. c}

\* No two inputs of the first c transactions are of the same output.
Distinct(txs, c) ==
    \A t, u \in 1 .. c : \A k \in DOMAIN txs[t].inputs, l \in DOMAIN txs[u].inputs :
        txs[t].inputs[k].outpoint = txs[u].inputs[l].outpoint => t = u /\ k = l

\* Each is of the chain or of an earlier transaction.
Backed(txs, c, chain) ==
    \A t \in 1 .. c : \A k \in DOMAIN txs[t].inputs :
        \/ txs[t].inputs[k].outpoint \in chain
        \/ \E e \in 1 .. t - 1 : txs[t].inputs[k].outpoint \in LeftPoints(txs[e])

LEMMA CreatedLeft == \A tx : DOMAIN Created(tx) = LeftPoints(tx)
  BY DEF Created, Outputs, LeftPoints

LEMMA OneMoreLeft ==
  ASSUME NEW txs, NEW d \in Nat
  PROVE  Leaves(txs, d + 1) = Leaves(txs, d) \union LeftPoints(txs[d + 1])
  <1>1. 1 .. d + 1 = (1 .. d) \union {d + 1} OBVIOUS
  <1> HIDE DEF LeftPoints
  <1> QED BY <1>1 DEF Leaves

LEMMA OneMoreSpent ==
  ASSUME NEW txs, NEW d \in Nat
  PROVE  Spends(txs, d + 1) = Spends(txs, d) \union InPoints(txs[d + 1])
  <1>1. 1 .. d + 1 = (1 .. d) \union {d + 1} OBVIOUS
  <1> QED BY <1>1 DEF Spends

\* One more transaction whose inputs are apart from one another and from those before.
LEMMA OneMoreApart ==
  ASSUME NEW txs, NEW d \in Nat, Distinct(txs, d), Listing(txs[d + 1].inputs),
         \A j, k \in DOMAIN txs[d + 1].inputs :
             j < k => txs[d + 1].inputs[j].outpoint # txs[d + 1].inputs[k].outpoint,
         \A k \in DOMAIN txs[d + 1].inputs : txs[d + 1].inputs[k].outpoint \notin Spends(txs, d)
  PROVE  Distinct(txs, d + 1)
  <1> DEFINE point(t, k) == txs[t].inputs[k].outpoint
  <1>1. SUFFICES ASSUME NEW t \in 1 .. d + 1, NEW u \in 1 .. d + 1,
                        NEW k \in DOMAIN txs[t].inputs, NEW l \in DOMAIN txs[u].inputs,
                        point(t, k) = point(u, l)
                 PROVE  t = u /\ k = l
    BY DEF Distinct
  <1>2. CASE t # d + 1 /\ u # d + 1
    <2>1. t \in 1 .. d /\ u \in 1 .. d BY <1>2
    <2> QED BY <1>1, <2>1 DEF Distinct
  <1>3. CASE t = d + 1 /\ u # d + 1
    <2>1. u \in 1 .. d BY <1>3
    <2>2. point(u, l) \in Spends(txs, d) BY <2>1 DEF Spends, InPoints
    <2> QED BY <1>1, <1>3, <2>2
  <1>4. CASE t # d + 1 /\ u = d + 1
    <2>1. t \in 1 .. d BY <1>4
    <2>2. point(t, k) \in Spends(txs, d) BY <2>1 DEF Spends, InPoints
    <2> QED BY <1>1, <1>4, <2>2
  <1>5. CASE t = d + 1 /\ u = d + 1
    <2>1. k \in Nat /\ l \in Nat
      <3>1. DOMAIN txs[d + 1].inputs = 1 .. Len(txs[d + 1].inputs) /\ Len(txs[d + 1].inputs) \in Nat
        BY ListingLen
      <3> QED BY <1>5, <3>1
    <2>2. ~(k < l) /\ ~(l < k) BY <1>1, <1>5
    <2> QED BY <1>5, <2>1, <2>2
  <1> QED BY <1>2, <1>3, <1>4, <1>5

LEMMA OneMoreBacked ==
  ASSUME NEW txs, NEW d \in Nat, NEW chain, Backed(txs, d, chain),
         InPoints(txs[d + 1]) \subseteq chain \union Leaves(txs, d)
  PROVE  Backed(txs, d + 1, chain)
  <1>1. SUFFICES ASSUME NEW t \in 1 .. d + 1, NEW k \in DOMAIN txs[t].inputs
                 PROVE  \/ txs[t].inputs[k].outpoint \in chain
                        \/ \E e \in 1 .. t - 1 : txs[t].inputs[k].outpoint \in LeftPoints(txs[e])
    BY DEF Backed
  <1>2. CASE t # d + 1
    <2>1. t \in 1 .. d BY <1>2
    <2> QED BY <2>1 DEF Backed
  <1>3. CASE t = d + 1
    <2>1. txs[t].inputs[k].outpoint \in InPoints(txs[d + 1]) BY <1>3 DEF InPoints
    <2>2. CASE txs[t].inputs[k].outpoint \in chain BY <2>2
    <2>3. CASE txs[t].inputs[k].outpoint \in Leaves(txs, d)
      <3>1. PICK e \in 1 .. d : txs[t].inputs[k].outpoint \in LeftPoints(txs[e]) BY <2>3 DEF Leaves
      <3>2. e \in 1 .. t - 1 BY <1>3, <3>1
      <3> QED BY <3>1, <3>2
    <2> QED BY <2>1, <2>2, <2>3
  <1> QED BY <1>2, <1>3

(*------------------------------ an input's start ------------------------------*)

HasTx(c, tx) == "tx" \in DOMAIN c /\ c.tx = tx
\* A script that is run is run for the transaction tx.
RunsFor(r, tx) == r.verdict = "" => HasTx(r.ctx, tx)

LEMMA RunHasTx ==
  ASSUME NEW tx, NEW c, HasTx(c, tx), NEW m, NEW code, NEW name
  PROVE  RunsFor(Run(c, m, code, name), tx)
  BY DEF RunsFor, Run

LEMMA KnownHasTx ==
  ASSUME NEW tx, NEW v, v # ""
  PROVE  RunsFor(Known(v), tx)
  BY DEF RunsFor, Known

LEMMA JudgedHasTx ==
  ASSUME NEW tx, NEW v
  PROVE  RunsFor(Judged(v), tx)
  <1> DEFINE w == CASE v = "valid" -> "accepted" [] v = "invalid" -> "refused" [] OTHER -> "raised"
  <1>1. w # "" OBVIOUS
  <1>2. Judged(v) = Known(w) BY DEF Judged
  <1> QED BY <1>1, <1>2, KnownHasTx

LEMMA ChangedHasTx ==
  ASSUME NEW tx, NEW c, HasTx(c, tx), NEW x, NEW y, NEW z
  PROVE  /\ HasTx([c EXCEPT !.code = x], tx)
         /\ HasTx([c EXCEPT !.version = x], tx)
         /\ HasTx([c EXCEPT !.version = x, !.leaf = y], tx)
         /\ HasTx([c EXCEPT !.i = x, !.version = y, !.code = z, !.leaf = z], tx)
  BY DEF HasTx

LEMMA WitnessProgramHasTx ==
  ASSUME NEW tx, NEW c, HasTx(c, tx), NEW program
  PROVE  RunsFor(WitnessProgram(c, program), tx)
  <1>1. RunsFor(WitnessKeyHash(c, program), tx)
    <2>1. RunsFor(Known("raised"), tx) BY KnownHasTx
    <2> DEFINE d == [c EXCEPT !.code = Serialized(P2PKH(Drop(program, 2)))]
    <2>2. HasTx(d, tx) BY ChangedHasTx
    <2> HIDE DEF d
    <2>3. RunsFor(Run(d, [Engine EXCEPT !.main = Reverse(c.tx.witness[c.i])], P2PKH(Drop(program, 2)), "witness"), tx)
      BY <2>2, RunHasTx
    <2> QED BY <2>1, <2>3 DEF WitnessKeyHash, d
  <1>2. RunsFor(WitnessScriptHash(c, program), tx)
    <2>1. RunsFor(Known("raised"), tx) /\ RunsFor(Known("refused"), tx) BY KnownHasTx
    <2> DEFINE w == c.tx.witness[c.i]
               d == [c EXCEPT !.code = Serialized(Last(w))]
    <2>2. HasTx(d, tx) BY ChangedHasTx
    <2> HIDE DEF d
    <2>3. RunsFor(Run(d, PushList(Engine, Reverse(Front(w))), Last(w), "witness"), tx)
      BY <2>2, RunHasTx
    <2> QED BY <2>1, <2>3 DEF WitnessScriptHash, d
  <1>3. RunsFor(TaprootKey(c, program), tx)
    BY KnownHasTx, JudgedHasTx DEF TaprootKey
  <1>4. RunsFor(TaprootScript(c, program), tx)
    <2> DEFINE w == c.tx.witness[c.i]
               control == Last(w)
               code == w[Len(w) - 1]
               proof == ControlBlock(control, code, Drop(program, 2))
               m == PushList([Engine EXCEPT !.weight = Len(WitnessBytes(w)) + 50], Take(w, Len(w) - 2))
               d == [c EXCEPT !.version = "tapscript", !.leaf = TapLeaf(control[1] - (control[1] % 2), code)]
    <2>1. HasTx(d, tx) BY ChangedHasTx
    <2>2. TaprootScript(c, program) = IF proof # "valid" THEN Judged(proof) ELSE Run(d, m, code, "leaf")
      BY DEF TaprootScript
    <2> HIDE DEF d, m, code, proof
    <2>3. RunsFor(Run(d, m, code, "leaf"), tx) /\ RunsFor(Judged(proof), tx) BY <2>1, RunHasTx, JudgedHasTx
    <2> QED BY <2>2, <2>3
  <1>5. RunsFor(Known("raised"), tx) /\ RunsFor(Known("refused"), tx) BY KnownHasTx
  <1>6. WitnessProgram(c, program) \in {WitnessKeyHash(c, program), WitnessScriptHash(c, program),
          TaprootKey(c, program), TaprootScript(c, program), Known("raised"), Known("refused")}
    BY DEF WitnessProgram
  <1> QED BY <1>1, <1>2, <1>3, <1>4, <1>5, <1>6

LEMMA ScriptPairHasTx ==
  ASSUME NEW tx, NEW c, HasTx(c, tx), NEW kind, NEW scriptsig
  PROVE  RunsFor(ScriptPair(c, kind, scriptsig), tx)
  <1>1. RunsFor(Known("raised"), tx) /\ RunsFor(Known("refused"), tx) BY KnownHasTx
  <1>2. \A code, name : RunsFor(Run(c, Engine, code, name), tx) BY RunHasTx
  <1>3. ScriptPair(c, kind, scriptsig) \in {Known("raised"), Known("refused"),
          Run(c, Engine, scriptsig \o c.utxos[c.i].script, "combined"),
          Run(c, Engine, scriptsig \o c.utxos[c.i].script, "bare"),
          Run(c, Engine, scriptsig, "scriptsig")}
    BY DEF ScriptPair
  <1> QED BY <1>1, <1>2, <1>3

LEMMA InputStartHasTx ==
  ASSUME NEW tx, NEW c, HasTx(c, tx)
  PROVE  RunsFor(InputStart(c), tx)
  <1> DEFINE d == [c EXCEPT !.version = "v0"]
             script_ == c.utxos[c.i].script
             kind == ScriptPubKeyKind(script_)
             scriptsig == c.tx.inputs[c.i].scriptsig
  <1>1. HasTx(d, tx) BY ChangedHasTx
  <1>2. InputStart(c) \in {Known("raised"), Known("accepted"), WitnessProgram(d, script_),
                           ScriptPair(d, kind, scriptsig), ScriptPair(c, kind, scriptsig)}
    BY DEF InputStart
  <1> HIDE DEF d
  <1>3. RunsFor(Known("raised"), tx) /\ RunsFor(Known("accepted"), tx) BY KnownHasTx
  <1>4. RunsFor(WitnessProgram(d, script_), tx) BY <1>1, WitnessProgramHasTx
  <1>5. RunsFor(ScriptPair(d, kind, scriptsig), tx) BY <1>1, ScriptPairHasTx
  <1>6. RunsFor(ScriptPair(c, kind, scriptsig), tx) BY ScriptPairHasTx
  <1> QED BY <1>2, <1>3, <1>4, <1>5, <1>6

(*------------------------------ the invariant ------------------------------*)

\* The transactions being judged, or judged.
Txs == Brought(Last(got))

\* d of them are done: the others wait, and the outputs of the d may be spent.
Pending(d) ==
    /\ d \in Nat /\ d < Len(Txs) /\ Txs \in Seq(TxsRead)
    /\ todo = SubSeq(Txs, d + 1, Len(Txs))
    /\ DOMAIN coins = DOMAIN scen.coins \union Leaves(Txs, d)

\* The inputs of the first c spend outputs of their own.
Unshared(c) == Distinct(Txs, c) /\ Backed(Txs, c, DOMAIN scen.coins)

Before(d) == Pending(d) /\ Unshared(d) /\ seen = Spends(Txs, d)
Within(d) == Pending(d) /\ Unshared(d + 1) /\ seen = Spends(Txs, d + 1) /\ HasTx(ctx, Txs[d + 1])

ConnectionInv ==
    /\ \E k \in DOMAIN Scenarios : scen = Scenarios[k]
    /\ sent \in Nat /\ wire \in Str /\ Listing(got)
    /\ head.ok => head.size \in Nat

ProgressInv ==
    /\ stage \in {"wire", "tx", "input", "script", "done"}
    /\ stage # "done" => verdict = ""
    /\ stage = "wire" => seen = {} /\ coins = scen.coins
    /\ stage = "tx" => \E d \in Nat : Before(d)
    /\ stage \in {"input", "script"} => \E d \in Nat : Within(d)
    /\ verdict = "accepted" => Listing(Txs) /\ Unshared(Len(Txs))

IntakeInv == ConnectionInv /\ ProgressInv

\* Nothing that arrives changes while a transaction is judged.
Kept == UNCHANGED <<scen, connection>>

LEMMA KeptConnection ==
  ASSUME ConnectionInv, Kept
  PROVE  /\ ConnectionInv'
         /\ Txs' = Txs /\ scen' = scen
         /\ \A c : Unshared(c)' = Unshared(c)
  <1>1. scen' = scen /\ sent' = sent /\ wire' = wire /\ got' = got /\ head' = head BY DEF Kept, connection
  <1>2. ConnectionInv' BY <1>1 DEF ConnectionInv
  <1>3. Txs' = Txs BY <1>1 DEF Txs
  <1>4. \A c : Unshared(c)' = Unshared(c) BY <1>1, <1>3 DEF Unshared
  <1> QED BY <1>1, <1>2, <1>3, <1>4

\* Another script, or another input, of the same transaction.
LEMMA SameTx ==
  ASSUME IntakeInv, stage \in {"input", "script"}, Kept, UNCHANGED <<todo, seen, coins, verdict>>,
         stage' \in {"input", "script"}, \A tx : HasTx(ctx, tx) => HasTx(ctx', tx)
  PROVE  IntakeInv'
  <1>1. PICK d \in Nat : Within(d) BY DEF IntakeInv, ProgressInv
  <1>2. ConnectionInv' /\ Txs' = Txs /\ scen' = scen /\ Unshared(d + 1)' = Unshared(d + 1)
    BY KeptConnection DEF IntakeInv
  <1>3. Pending(d)' BY <1>1, <1>2 DEF Within, Pending
  <1>4. Within(d)' BY <1>1, <1>2, <1>3 DEF Within
  <1>5. verdict = "" BY DEF IntakeInv, ProgressInv
  <1>6. ProgressInv' BY <1>4, <1>5 DEF ProgressInv
  <1> QED BY <1>2, <1>6 DEF IntakeInv

LEMMA EndsOtherwise ==
  ASSUME IntakeInv, Kept, stage' = "done", verdict' # "accepted"
  PROVE  IntakeInv'
  <1>1. ConnectionInv' BY KeptConnection DEF IntakeInv
  <1>2. ProgressInv' BY DEF ProgressInv
  <1> QED BY <1>1, <1>2 DEF IntakeInv

LEMMA AdvanceKeeps ==
  ASSUME IntakeInv, stage \in {"input", "script"}, Kept, UNCHANGED seen, Advance
  PROVE  IntakeInv'
  <1>1. PICK d \in Nat : Within(d) BY DEF IntakeInv, ProgressInv
  <1>2. /\ ConnectionInv' /\ Txs' = Txs /\ scen' = scen
        /\ \A c : Unshared(c)' = Unshared(c)
    BY KeptConnection DEF IntakeInv
  <1>3. CASE ctx.i < Len(ctx.tx.inputs)
    <2>1. /\ ctx' = [ctx EXCEPT !.i = ctx.i + 1, !.version = "base", !.code = <<>>, !.leaf = <<>>]
          /\ stage' = "input" /\ UNCHANGED <<todo, coins, verdict>>
      BY <1>3 DEF Advance
    <2>2. \A tx : HasTx(ctx, tx) => HasTx(ctx', tx) BY <2>1, ChangedHasTx
    <2> QED BY <2>1, <2>2, SameTx
  <1>4. CASE ~(ctx.i < Len(ctx.tx.inputs))
    <2>1. /\ todo' = Tail(todo)
          /\ coins' = Over(Created(ctx.tx), coins)
          /\ IF Len(todo) > 1 THEN stage' = "tx" /\ UNCHANGED verdict ELSE Settle("accepted")
      BY <1>4 DEF Advance
    <2>2. /\ d \in Nat /\ d < Len(Txs) /\ Txs \in Seq(TxsRead)
          /\ todo = SubSeq(Txs, d + 1, Len(Txs))
          /\ DOMAIN coins = DOMAIN scen.coins \union Leaves(Txs, d)
      BY <1>1 DEF Within, Pending
    <2>3. Len(Txs) \in Nat BY <2>2
    <2>4. Len(todo) = Len(Txs) - d /\ Tail(todo) = SubSeq(Txs, d + 2, Len(Txs))
      BY <2>2, <2>3
    <2>5. ctx.tx = Txs[d + 1] BY <1>1 DEF Within, HasTx
    <2>6. DOMAIN coins' = DOMAIN scen.coins \union Leaves(Txs, d + 1)
      <3>1. DOMAIN coins' = LeftPoints(Txs[d + 1]) \union DOMAIN coins
        BY <2>1, <2>5, CreatedLeft DEF Over
      <3> QED BY <2>2, <3>1, OneMoreLeft
    <2>7. verdict = "" BY DEF IntakeInv, ProgressInv
    <2>8. CASE Len(todo) > 1
      <3>1. d + 1 \in Nat /\ d + 1 < Len(Txs) BY <2>3, <2>4, <2>8
      <3>2. d + 2 = (d + 1) + 1 OBVIOUS
      <3>3. Pending(d + 1)' BY <1>2, <2>1, <2>2, <2>4, <2>6, <3>1, <3>2 DEF Pending
      <3>4. Unshared(d + 1)' /\ seen' = Spends(Txs', d + 1) BY <1>1, <1>2 DEF Within
      <3>5. Before(d + 1)' BY <3>3, <3>4 DEF Before
      <3>6. stage' = "tx" /\ verdict' = "" BY <2>1, <2>7, <2>8
      <3>7. ProgressInv' BY <3>1, <3>5, <3>6 DEF ProgressInv
      <3> QED BY <1>2, <3>7 DEF IntakeInv
    <2>9. CASE ~(Len(todo) > 1)
      <3>1. d + 1 = Len(Txs) BY <2>2, <2>3, <2>4, <2>9
      <3>2. Unshared(Len(Txs))' /\ Len(Txs') = Len(Txs)
        <4>1. Unshared(d + 1)' BY <1>1, <1>2 DEF Within
        <4> QED BY <1>2, <3>1, <4>1
      <3>3. Listing(Txs') BY <1>2, <2>2 DEF Listing
      <3>4. stage' = "done" /\ verdict' = "accepted" BY <2>1, <2>9 DEF Settle
      <3>5. ProgressInv' BY <1>2, <3>2, <3>3, <3>4 DEF ProgressInv
      <3> QED BY <1>2, <3>5 DEF IntakeInv
    <2> QED BY <2>8, <2>9
  <1> QED BY <1>3, <1>4

LEMMA ConcludeKeeps ==
  ASSUME IntakeInv, stage \in {"input", "script"}, Kept, UNCHANGED seen, NEW v, Conclude(v)
  PROVE  IntakeInv'
  <1>1. CASE v = "accepted" BY <1>1, AdvanceKeeps DEF Conclude
  <1>2. CASE v # "accepted"
    <2>1. stage' = "done" /\ verdict' = v BY <1>2 DEF Conclude, Settle
    <2> QED BY <1>2, <2>1, EndsOtherwise
  <1> QED BY <1>1, <1>2

LEMMA StartKeeps ==
  ASSUME IntakeInv, stage \in {"input", "script"}, Kept, UNCHANGED seen, NEW r, Start(r),
         \A tx : HasTx(ctx, tx) => RunsFor(r, tx)
  PROVE  IntakeInv'
  <1>1. CASE r.verdict = "" /\ r.mach.ok = "go"
    <2>1. ctx' = r.ctx /\ stage' = "script" /\ UNCHANGED <<todo, coins, verdict>>
      BY <1>1 DEF Start
    <2>2. \A tx : HasTx(ctx, tx) => HasTx(ctx', tx) BY <1>1, <2>1 DEF RunsFor
    <2> QED BY <2>1, <2>2, SameTx
  <1>2. CASE ~(r.verdict = "" /\ r.mach.ok = "go")
    <2>1. Conclude(IF r.verdict = "" THEN "raised" ELSE r.verdict) BY <1>2 DEF Start
    <2> QED BY <2>1, ConcludeKeeps
  <1> QED BY <1>1, <1>2

LEMMA InitHolds == Init => IntakeInv
  <1> SUFFICES ASSUME Init PROVE IntakeInv OBVIOUS
  <1>1. /\ \E k \in DOMAIN Scenarios : scen = Scenarios[k]
        /\ sent = 0 /\ wire = <<>> /\ head = None /\ got = <<>>
        /\ stage = "wire" /\ seen = {} /\ coins = scen.coins /\ verdict = ""
    BY DEF Init
  <1>2. <<>> \in Str /\ Listing(<<>>)
    <2>1. <<>> \in Seq(Byte) OBVIOUS
    <2> QED BY <2>1 DEF Str, Listing
  <1>3. ConnectionInv BY <1>1, <1>2, NotOk DEF ConnectionInv
  <1>4. ProgressInv BY <1>1 DEF ProgressInv
  <1> QED BY <1>3, <1>4 DEF IntakeInv

(*--------------------------- what arrives on the wire ---------------------------*)

\* Nothing is judged while a message is awaited.
LEMMA StillWaiting ==
  ASSUME IntakeInv, ConnectionInv', stage = "wire", UNCHANGED <<scen, stage, seen, coins, verdict>>
  PROVE  IntakeInv'
  <1>1. verdict = "" /\ seen = {} /\ coins = scen.coins BY DEF IntakeInv, ProgressInv
  <1>2. ProgressInv' BY <1>1 DEF ProgressInv
  <1> QED BY <1>2 DEF IntakeInv

LEMMA FramesAreBytes ==
  ASSUME ConnectionInv, sent < Len(scen.frames)
  PROVE  Frame(scen.frames[sent + 1]) \in Str /\ Frame(scen.frames[sent + 1]) # <<>>
  <1>1. PICK k \in DOMAIN Scenarios : scen = Scenarios[k] BY DEF ConnectionInv
  <1>2. /\ Len(scen.frames) \in Nat
        /\ \A j \in 1 .. Len(scen.frames) : Frame(scen.frames[j]) \in Seq(Byte) \ {<<>>}
    BY <1>1, FramesAssumption
  <1>3. sent + 1 \in 1 .. Len(scen.frames) BY <1>2 DEF ConnectionInv
  <1> QED BY <1>2, <1>3 DEF Str

LEMMA SendKeeps == IntakeInv /\ Send => IntakeInv'
  <1> SUFFICES ASSUME IntakeInv, Send PROVE IntakeInv' OBVIOUS
  <1>1. /\ stage = "wire" /\ sent < Len(scen.frames) /\ sent' = sent + 1
        /\ UNCHANGED <<scen, open, head, got, stage, todo, seen, coins, script, verdict>>
    BY DEF Send
  <1>2. \E fault : wire' = wire \o Damage(Frame(scen.frames[sent + 1]), fault)
    BY DEF Send
  <1>3. ConnectionInv BY DEF IntakeInv
  <1>4. Frame(scen.frames[sent + 1]) \in Str /\ Frame(scen.frames[sent + 1]) # <<>>
    BY <1>1, <1>3, FramesAreBytes
  <1>5. PICK fault : wire' = wire \o Damage(Frame(scen.frames[sent + 1]), fault) BY <1>2
  <1>6. Damage(Frame(scen.frames[sent + 1]), fault) \in Str BY <1>4, DamageKeeps
  <1>7. wire' \in Str BY <1>3, <1>5, <1>6, JoinedBytes DEF ConnectionInv
  <1>8. ConnectionInv' BY <1>1, <1>3, <1>7 DEF ConnectionInv
  <1> QED BY <1>1, <1>8, StillWaiting

LEMMA CloseKeeps == IntakeInv /\ Close => IntakeInv'
  <1> SUFFICES ASSUME IntakeInv, Close PROVE IntakeInv' OBVIOUS
  <1>1. /\ stage = "wire"
        /\ UNCHANGED <<scen, sent, head, got, stage, todo, seen, coins, script, verdict>>
    BY DEF Close
  <1>2. ConnectionInv BY DEF IntakeInv
  <1>3. wire' \in Str
    <2>1. CASE wire' = wire BY <1>2, <2>1 DEF ConnectionInv
    <2>2. CASE wire' # wire
      <3> DEFINE b == Frame(scen.frames[sent + 1])
      <3>1. sent < Len(scen.frames) /\ wire' \in {wire \o Take(b, 1), wire \o Take(b, Len(b) - 1)}
        BY <2>2 DEF Close
      <3>2. b \in Str /\ b # <<>> BY <1>2, <3>1, FramesAreBytes
      <3> HIDE DEF b
      <3>3. Len(b) \in Nat /\ Len(b) > 0 BY <3>2 DEF Str
      <3>4. 1 \in Nat /\ 1 <= Len(b) /\ Len(b) - 1 \in Nat /\ Len(b) - 1 <= Len(b) BY <3>3
      <3>5. Take(b, 1) \in Str /\ Take(b, Len(b) - 1) \in Str BY <3>2, <3>4, StrCut
      <3>6. wire \in Str BY <1>2 DEF ConnectionInv
      <3> QED BY <3>1, <3>5, <3>6, JoinedBytes
    <2> QED BY <2>1, <2>2
  <1>4. ConnectionInv' BY <1>1, <1>2, <1>3 DEF ConnectionInv
  <1> QED BY <1>1, <1>4, StillWaiting

LEMMA ReceiveHeaderKeeps == IntakeInv /\ ReceiveHeader => IntakeInv'
  <1> SUFFICES ASSUME IntakeInv, ReceiveHeader PROVE IntakeInv' OBVIOUS
  <1> DEFINE b == Take(wire, HeaderLength)
  <1>1. /\ stage = "wire" /\ Len(wire) >= HeaderLength
        /\ ReadHeader(b).ok /\ head' = ReadHeader(b) /\ wire' = Drop(wire, HeaderLength)
        /\ UNCHANGED <<scen, sent, hurt, open, got, stage, todo, seen, coins, script, verdict>>
    BY DEF ReceiveHeader
  <1>2. ConnectionInv BY DEF IntakeInv
  <1>3. HeaderLength \in Nat BY DEF HeaderLength
  <1>4. wire \in Str /\ Len(wire) \in Nat BY <1>2 DEF ConnectionInv, Str
  <1>5. b \in Str /\ Len(b) = HeaderLength /\ wire' \in Str BY <1>1, <1>3, <1>4, StrCut
  <1> HIDE DEF b
  <1>6. head'.size \in Nat BY <1>1, <1>5, HeaderSizeNat
  <1>7. ConnectionInv' BY <1>1, <1>2, <1>5, <1>6 DEF ConnectionInv
  <1> QED BY <1>1, <1>7, StillWaiting

LEMMA NothingSpentYet == \A txs : Spends(txs, 0) = {} /\ Leaves(txs, 0) = {}
  <1>1. 1 .. 0 = {} OBVIOUS
  <1> QED BY <1>1 DEF Spends, Leaves

LEMMA ReceivePayloadKeeps == IntakeInv /\ ReceivePayload => IntakeInv'
  <1> SUFFICES ASSUME IntakeInv, ReceivePayload PROVE IntakeInv' OBVIOUS
  <1> DEFINE payload == Take(wire, head.size)
             msg == FromEnvelope(head, payload)
  <1>1. /\ stage = "wire" /\ head.ok /\ Len(wire) >= head.size
        /\ msg.ok
        /\ got' = Append(got, [command |-> msg.command, value |-> msg.value])
        /\ todo' = IF scen.validated THEN Brought(msg) ELSE <<>>
        /\ wire' = Drop(wire, head.size) /\ head' = None
        /\ stage' = IF todo' = <<>> THEN "wire" ELSE "tx"
        /\ UNCHANGED <<scen, sent, hurt, open, seen, coins, script, verdict>>
    BY DEF ReceivePayload
  <1>2. ConnectionInv /\ verdict = "" /\ seen = {} /\ coins = scen.coins
    BY <1>1 DEF IntakeInv, ProgressInv
  <1>3. head.size \in Nat /\ wire \in Str /\ Len(wire) \in Nat /\ Listing(got)
    <2>1. head.size \in Nat /\ wire \in Str /\ Listing(got) BY <1>1, <1>2 DEF ConnectionInv
    <2> QED BY <2>1 DEF Str
  <1>4. payload \in Str /\ wire' \in Str BY <1>1, <1>3, StrCut
  <1> HIDE DEF payload
  <1>5. Brought(msg) \in Seq(TxsRead) BY <1>1, <1>4, BroughtRead
  <1> HIDE DEF msg
  <1>6. Listing(got') /\ Last(got') = [command |-> msg.command, value |-> msg.value]
    BY <1>1, <1>3, ListingAppend
  <1>7. Txs' = Brought(msg) BY <1>6 DEF Txs, Brought
  <1>8. ConnectionInv' BY <1>1, <1>2, <1>4, <1>6, NotOk DEF ConnectionInv
  <1>9. CASE todo' = <<>>
    <2>1. ProgressInv' BY <1>1, <1>2, <1>9 DEF ProgressInv
    <2> QED BY <1>8, <2>1 DEF IntakeInv
  <1>10. CASE todo' # <<>>
    <2>1. todo' = Txs' /\ Txs' \in Seq(TxsRead) /\ Txs' # <<>> BY <1>1, <1>5, <1>7, <1>10
    <2>2. 0 \in Nat /\ 0 < Len(Txs') /\ Len(Txs') \in Nat BY <2>1
    <2>3. todo' = SubSeq(Txs', 0 + 1, Len(Txs')) BY <2>1
    <2>4. DOMAIN coins' = DOMAIN scen'.coins \union Leaves(Txs', 0) BY <1>1, <1>2, NothingSpentYet
    <2>5. Pending(0)' BY <2>1, <2>2, <2>3, <2>4 DEF Pending
    <2>6. Unshared(0)'
      <3>1. 1 .. 0 = {} OBVIOUS
      <3> QED BY <3>1 DEF Unshared, Distinct, Backed
    <2>7. seen' = Spends(Txs', 0) BY <1>1, <1>2, NothingSpentYet
    <2>8. Before(0)' BY <2>5, <2>6, <2>7 DEF Before
    <2>9. stage' = "tx" /\ verdict' = "" BY <1>1, <1>2, <1>10
    <2>10. ProgressInv' BY <2>2, <2>8, <2>9 DEF ProgressInv
    <2> QED BY <1>8, <2>10 DEF IntakeInv
  <1> QED BY <1>9, <1>10

LEMMA CheckTxKeeps == IntakeInv /\ CheckTx => IntakeInv'
  <1> SUFFICES ASSUME IntakeInv, CheckTx PROVE IntakeInv' OBVIOUS
  <1> DEFINE tx == todo[1]
             view == Over([seen |-> seen], scen.view)
  <1>1. /\ stage = "tx"
        /\ IF Available(tx) /\ Spendable(tx, Spent(tx), view)
           THEN /\ seen' = seen \union {tx.inputs[k].outpoint : k \in DOMAIN tx.inputs}
                /\ ctx' = [tx |-> tx, i |-> 1, utxos |-> Spent(tx), flags |-> scen.flags,
                           version |-> "base", code |-> <<>>, leaf |-> <<>>, signed |-> scen.signed]
                /\ stage' = "input"
                /\ UNCHANGED verdict
           ELSE Settle("refused") /\ UNCHANGED <<seen, ctx>>
        /\ UNCHANGED <<scen, connection, todo, coins, mach, frames, phase, redeem, began, forgiven>>
    BY DEF CheckTx
  <1>2. Kept BY <1>1 DEF Kept
  <1>3. CASE ~(Available(tx) /\ Spendable(tx, Spent(tx), view))
    <2>1. stage' = "done" /\ verdict' = "refused" BY <1>1, <1>3 DEF Settle
    <2> QED BY <1>2, <2>1, EndsOtherwise
  <1>4. CASE Available(tx) /\ Spendable(tx, Spent(tx), view)
    <2>1. PICK d \in Nat : Before(d) BY <1>1 DEF IntakeInv, ProgressInv
    <2>2. /\ d \in Nat /\ d < Len(Txs) /\ Txs \in Seq(TxsRead)
          /\ todo = SubSeq(Txs, d + 1, Len(Txs))
          /\ DOMAIN coins = DOMAIN scen.coins \union Leaves(Txs, d)
          /\ Unshared(d) /\ seen = Spends(Txs, d)
      BY <2>1 DEF Before, Pending
    <2>3. tx = Txs[d + 1] /\ Txs[d + 1] \in TxsRead
      <3>1. Len(Txs) \in Nat /\ d + 1 \in 1 .. Len(Txs) BY <2>2
      <3> QED BY <2>2, <3>1
    <2>4. Listing(tx.inputs) BY <2>3, TxsListInputs
    <2>5. view.seen = seen BY DEF Over
    <2> HIDE DEF view
    <2>6. /\ \A j, k \in DOMAIN tx.inputs : j < k => tx.inputs[j].outpoint # tx.inputs[k].outpoint
          /\ \A k \in DOMAIN tx.inputs : tx.inputs[k].outpoint \notin seen
      BY <1>4, <2>5 DEF Spendable, Unspent
    <2> HIDE DEF tx
    <2>7. Distinct(Txs, d + 1) BY <2>2, <2>3, <2>4, <2>6, OneMoreApart DEF Unshared
    <2>8. InPoints(tx) \subseteq DOMAIN coins BY <1>4 DEF Available, InPoints
    <2>9. Backed(Txs, d + 1, DOMAIN scen.coins) BY <2>2, <2>3, <2>8, OneMoreBacked DEF Unshared
    <2>10. seen' = Spends(Txs, d + 1)
      <3>1. seen' = seen \union InPoints(tx) BY <1>1, <1>4 DEF InPoints
      <3>2. Spends(Txs, d + 1) = Spends(Txs, d) \union InPoints(Txs[d + 1]) BY <2>2, OneMoreSpent
      <3> QED BY <2>2, <2>3, <3>1, <3>2
    <2>11. HasTx(ctx', tx) BY <1>1, <1>4 DEF HasTx
    <2>12. /\ ConnectionInv' /\ Txs' = Txs /\ scen' = scen BY <1>2, KeptConnection DEF IntakeInv
    <2>13. Within(d)'
      <3>1. Pending(d)' BY <1>1, <2>2, <2>12 DEF Pending
      <3>2. Unshared(d + 1)' BY <2>7, <2>9, <2>12 DEF Unshared
      <3> QED BY <2>3, <2>10, <2>11, <2>12, <3>1, <3>2 DEF Within
    <2>14. stage' = "input" /\ verdict' = "" BY <1>1, <1>4 DEF IntakeInv, ProgressInv
    <2>15. ProgressInv' BY <2>13, <2>14 DEF ProgressInv
    <2> QED BY <2>12, <2>15 DEF IntakeInv
  <1> QED BY <1>3, <1>4

(*------------------------------ running the scripts ------------------------------*)

LEMMA ReceiveFailsKeeps == IntakeInv /\ ReceiveFails => IntakeInv'
  <1> SUFFICES ASSUME IntakeInv, ReceiveFails PROVE IntakeInv' OBVIOUS
  <1>1. Kept /\ stage' = "done" /\ verdict' # "accepted" BY DEF ReceiveFails, Settle, Kept
  <1> QED BY <1>1, EndsOtherwise

LEMMA StartInputKeeps == IntakeInv /\ StartInput => IntakeInv'
  <1> SUFFICES ASSUME IntakeInv, StartInput PROVE IntakeInv' OBVIOUS
  <1>1. stage = "input" /\ Kept /\ UNCHANGED seen /\ Start(InputStart(ctx)) BY DEF StartInput, Kept
  <1>2. \A tx : HasTx(ctx, tx) => RunsFor(InputStart(ctx), tx) BY InputStartHasTx
  <1> QED BY <1>1, <1>2, StartKeeps

\* An instruction leaves the transaction alone, or the verdict is "raised".
LEMMA BecomeKeeps ==
  ASSUME IntakeInv, stage = "script", NEW m, NEW ahead, Become(m, ahead),
         Kept, UNCHANGED <<todo, seen, coins, ctx>>
  PROVE  IntakeInv'
  <1>1. (stage' = "done" /\ verdict' = "raised") \/ UNCHANGED <<stage, verdict>>
    BY DEF Become, Settle
  <1>2. CASE stage' = "done" /\ verdict' = "raised" BY <1>2, EndsOtherwise
  <1>3. CASE UNCHANGED <<stage, verdict>> BY <1>3, SameTx
  <1> QED BY <1>1, <1>2, <1>3

LEMMA StepKeeps == IntakeInv /\ Step => IntakeInv'
  <1> SUFFICES ASSUME IntakeInv, Step PROVE IntakeInv' OBVIOUS
  <1>1. stage = "script" /\ Kept /\ UNCHANGED <<todo, seen, coins, ctx>> BY DEF Step, Running, Kept
  <1>2. \E m, ahead : Become(m, ahead) BY DEF Step
  <1>3. PICK m, ahead : Become(m, ahead) BY <1>2
  <1> QED BY <1>1, <1>3, BecomeKeeps

LEMMA BranchKeeps == IntakeInv /\ Branch => IntakeInv'
  <1> SUFFICES ASSUME IntakeInv, Branch PROVE IntakeInv' OBVIOUS
  <1>1. stage = "script" /\ Kept /\ UNCHANGED <<todo, seen, coins, ctx>> BY DEF Branch, Running, Kept
  <1>2. \E m, ahead : Become(m, ahead) BY DEF Branch
  <1>3. PICK m, ahead : Become(m, ahead) BY <1>2
  <1> QED BY <1>1, <1>3, BecomeKeeps

LEMMA EndOfScriptKeeps == IntakeInv /\ EndOfScript => IntakeInv'
  <1> SUFFICES ASSUME IntakeInv, EndOfScript PROVE IntakeInv' OBVIOUS
  <1>1. /\ stage = "script" /\ Kept
        /\ UNCHANGED <<stage, todo, seen, coins, ctx, verdict>>
    BY DEF EndOfScript, Running, Kept
  <1> QED BY <1>1, SameTx

LEMMA DecideKeeps ==
  ASSUME IntakeInv, stage = "script", NEW clean, Decide(clean)
  PROVE  IntakeInv'
  <1>1. Kept /\ UNCHANGED seen BY DEF Decide, Kept
  <1>2. Conclude(IF mach.ok = "fail" THEN "refused" ELSE StackVerdict(mach, clean)) BY DEF Decide
  <1> QED BY <1>1, <1>2, ConcludeKeeps

LEMMA EndsKeep == IntakeInv /\ (EndCombined \/ EndBare \/ EndRedeem \/ EndLeaf) => IntakeInv'
  BY DecideKeeps DEF EndCombined, EndBare, EndRedeem, EndLeaf, Finished

LEMMA EndWitnessKeeps == IntakeInv /\ EndWitness => IntakeInv'
  <1> SUFFICES ASSUME IntakeInv, EndWitness PROVE IntakeInv' OBVIOUS
  <1>1. stage = "script" /\ Kept /\ UNCHANGED seen /\ Conclude(StackVerdict(mach, TRUE))
    BY DEF EndWitness, Finished, Kept
  <1> QED BY <1>1, ConcludeKeeps

LEMMA EndScriptSigKeeps == IntakeInv /\ EndScriptSig => IntakeInv'
  <1> SUFFICES ASSUME IntakeInv, EndScriptSig PROVE IntakeInv' OBVIOUS
  <1> DEFINE next == Run(ctx, mach, ctx.utxos[ctx.i].script, "hash")
  <1>1. stage = "script" /\ Kept /\ UNCHANGED seen BY DEF EndScriptSig, Finished, Kept
  <1>2. Start(Known("refused")) \/ Start(next) BY DEF EndScriptSig
  <1>3. \A tx : HasTx(ctx, tx) => RunsFor(next, tx) /\ RunsFor(Known("refused"), tx)
    BY RunHasTx, KnownHasTx
  <1> HIDE DEF next
  <1>4. CASE Start(Known("refused")) BY <1>1, <1>3, <1>4, StartKeeps
  <1>5. CASE Start(next) BY <1>1, <1>3, <1>5, StartKeeps
  <1> QED BY <1>2, <1>4, <1>5

LEMMA EndHashKeeps == IntakeInv /\ EndHash => IntakeInv'
  <1> SUFFICES ASSUME IntakeInv, EndHash PROVE IntakeInv' OBVIOUS
  <1> DEFINE m == op_verify([mach EXCEPT !.ok = "go"])
             nested == IsP2WPKH(redeem) \/ IsP2WSH(redeem)
             alone == ctx.tx.inputs[ctx.i].scriptsig = EncodePush(redeem)
             v0 == [ctx EXCEPT !.version = "v0"]
             coded == [ctx EXCEPT !.code = redeem]
             r == CASE m.ok = "raise" -> Known("raised")
                    [] m.ok = "fail" \/ (nested /\ ~alone) -> Known("refused")
                    [] m.ok = "go" /\ nested /\ alone -> WitnessProgram(v0, redeem)
                    [] OTHER -> Run(coded, m, redeem, "redeem")
  <1>1. stage = "script" /\ Kept /\ UNCHANGED seen BY DEF EndHash, Finished, Kept
  <1>2. Start(r)
    <2> HIDE DEF m, nested, alone, v0, coded
    <2> QED BY DEF EndHash, m, nested, alone, v0, coded
  <1>3. r \in {Known("raised"), Known("refused"), WitnessProgram(v0, redeem), Run(coded, m, redeem, "redeem")}
    <2> HIDE DEF m, nested, alone, v0, coded
    <2> QED OBVIOUS
  <1>4. ASSUME NEW tx, HasTx(ctx, tx) PROVE RunsFor(r, tx)
    <2>1. HasTx(v0, tx) /\ HasTx(coded, tx) BY <1>4, ChangedHasTx
    <2> HIDE DEF r, m, v0, coded
    <2>2. /\ RunsFor(Known("raised"), tx) /\ RunsFor(Known("refused"), tx)
          /\ RunsFor(WitnessProgram(v0, redeem), tx) /\ RunsFor(Run(coded, m, redeem, "redeem"), tx)
      BY <2>1, KnownHasTx, WitnessProgramHasTx, RunHasTx
    <2> QED BY <1>3, <2>2
  <1> HIDE DEF r
  <1> QED BY <1>1, <1>2, <1>4, StartKeeps

LEMMA StutterKeeps == IntakeInv /\ UNCHANGED vars => IntakeInv'
  <1> SUFFICES ASSUME IntakeInv, UNCHANGED vars PROVE IntakeInv' OBVIOUS
  <1>1. Kept /\ UNCHANGED <<stage, todo, seen, coins, ctx, verdict>> BY DEF vars, script, Kept
  <1>2. /\ ConnectionInv' /\ Txs' = Txs /\ scen' = scen /\ \A c : Unshared(c)' = Unshared(c)
    BY <1>1, KeptConnection DEF IntakeInv
  <1>3. ProgressInv BY DEF IntakeInv
  <1>4. \A d : Pending(d)' = Pending(d) BY <1>1, <1>2 DEF Pending
  <1>5. \A d : Before(d)' = Before(d) /\ Within(d)' = Within(d) BY <1>1, <1>2, <1>4 DEF Before, Within
  <1>6. ProgressInv' BY <1>1, <1>2, <1>3, <1>5 DEF ProgressInv
  <1> QED BY <1>2, <1>6 DEF IntakeInv

LEMMA NextKeeps == IntakeInv /\ [Next]_vars => IntakeInv'
  <1> SUFFICES ASSUME IntakeInv, [Next]_vars PROVE IntakeInv' OBVIOUS
  <1>1. CASE Send \/ Close \/ ReceiveHeader \/ ReceivePayload \/ ReceiveFails
    BY <1>1, SendKeeps, CloseKeeps, ReceiveHeaderKeeps, ReceivePayloadKeeps, ReceiveFailsKeeps
  <1>2. CASE CheckTx \/ StartInput BY <1>2, CheckTxKeeps, StartInputKeeps
  <1>3. CASE Step \/ Branch \/ EndOfScript BY <1>3, StepKeeps, BranchKeeps, EndOfScriptKeeps
  <1>4. CASE EndCombined \/ EndBare \/ EndScriptSig \/ EndHash \/ EndRedeem \/ EndWitness \/ EndLeaf
    BY <1>4, EndsKeep, EndScriptSigKeeps, EndHashKeeps, EndWitnessKeeps
  <1>5. CASE UNCHANGED vars BY <1>5, StutterKeeps
  <1> QED BY <1>1, <1>2, <1>3, <1>4, <1>5 DEF Next

\* The invariant of the connection and of the transactions being judged.
THEOREM Invariant == Spec => []IntakeInv
  BY InitHolds, NextKeeps, PTL DEF Spec

LEMMA ApartMeansUnspent == IntakeInv => NoOutputSpentTwice
  <1> SUFFICES ASSUME IntakeInv, verdict = "accepted" PROVE NoOutputSpentTwice
    BY DEF NoOutputSpentTwice
  <1>1. Listing(Txs) /\ Unshared(Len(Txs)) BY DEF IntakeInv, ProgressInv
  <1>2. DOMAIN Txs = 1 .. Len(Txs) BY <1>1, ListingLen
  <1>3. Distinct(Txs, Len(Txs)) /\ Backed(Txs, Len(Txs), DOMAIN scen.coins) BY <1>1 DEF Unshared
  <1> DEFINE point(t, k) == Txs[t].inputs[k].outpoint
  <1>4. ASSUME NEW t \in DOMAIN Txs, NEW u \in DOMAIN Txs,
               NEW k \in DOMAIN Txs[t].inputs, NEW l \in DOMAIN Txs[u].inputs
        PROVE  /\ point(t, k) = point(u, l) => t = u /\ k = l
               /\ \/ point(t, k) \in DOMAIN scen.coins
                  \/ \E e \in 1 .. t - 1 : point(t, k) \in DOMAIN Created(Txs[e])
    <2>1. point(t, k) = point(u, l) => t = u /\ k = l BY <1>2, <1>3 DEF Distinct
    <2>2. \/ point(t, k) \in DOMAIN scen.coins
          \/ \E e \in 1 .. t - 1 : point(t, k) \in LeftPoints(Txs[e])
      BY <1>2, <1>3 DEF Backed
    <2> QED BY <2>1, <2>2, CreatedLeft
  <1> QED BY <1>4 DEF NoOutputSpentTwice, Txs

\* NoOutputSpentTwice: validate_loaded_tx and the loop over a block never let an
\* output go twice, whatever was read from the wire and whatever the scripts do.
THEOREM OutputsSpentOnce == Spec => []NoOutputSpentTwice
  BY Invariant, ApartMeansUnspent, PTL

(*-------------------------------- the machine --------------------------------*)

\* The engine's state, whatever the items on its stacks.
Machine(m) ==
    /\ m = [x \in {"main", "alt", "weight", "ok"} |-> m[x]]
    /\ m.ok \in {"go", "fail", "raise"}

LEMMA FailRaise ==
  ASSUME NEW m, Machine(m)
  PROVE  /\ Machine(Fail(m)) /\ Fail(m).ok = "fail"
         /\ Machine(Raise(m)) /\ Raise(m).ok = "raise"
  BY DEF Machine, Fail, Raise

LEMMA StacksChange ==
  ASSUME NEW m, Machine(m), NEW x
  PROVE  /\ Machine([m EXCEPT !.main = x]) /\ [m EXCEPT !.main = x].ok = m.ok
         /\ Machine([m EXCEPT !.alt = x])
         /\ Machine([m EXCEPT !.weight = x])
  BY DEF Machine

LEMMA BothStacksChange ==
  ASSUME NEW m, Machine(m), NEW x, NEW y
  PROVE  Machine([m EXCEPT !.main = x, !.alt = y])
  BY DEF Machine

LEMMA PushListKeeps ==
  ASSUME NEW m, Machine(m), NEW items
  PROVE  Machine(PushList(m, items))
  BY FailRaise, StacksChange DEF PushList

LEMMA PushKeeps ==
  ASSUME NEW m, Machine(m), NEW x
  PROVE  Machine(Push(m, x)) /\ Machine(PushNum(m, x))
  BY FailRaise, PushListKeeps DEF Push, PushNum

LEMMA VerifiedKeeps ==
  ASSUME NEW m, Machine(m), NEW p
  PROVE  Machine(Verified(m, p))
  BY FailRaise DEF Verified

\* The shape of an opcode that pops n items and pushes some.
LEMMA ReplacedKeeps ==
  ASSUME NEW m, Machine(m), NEW p, NEW n, NEW items
  PROVE  Machine(IF p THEN Raise(m) ELSE PushList([m EXCEPT !.main = Drop(@, n)], items))
  BY FailRaise, StacksChange, PushListKeeps

LEMMA OneItemKeeps ==
  ASSUME NEW m, Machine(m), NEW p, NEW q, NEW r, NEW n, NEW item
  PROVE  Machine(IF p THEN Raise(m)
                 ELSE IF q THEN (IF r THEN Raise(m)
                                 ELSE PushList([m EXCEPT !.main = Drop(@, n)], <<item>>))
                 ELSE Raise(m))
  BY FailRaise, StacksChange, PushListKeeps

LEMMA ReplacingKeep ==
  ASSUME NEW m, Machine(m)
  PROVE  /\ Machine(op_2drop(m))
         /\ Machine(op_2dup(m))
         /\ Machine(op_3dup(m))
         /\ Machine(op_2over(m))
         /\ Machine(op_2rot(m))
         /\ Machine(op_2swap(m))
         /\ Machine(op_drop(m))
         /\ Machine(op_dup(m))
         /\ Machine(op_nip(m))
         /\ Machine(op_over(m))
         /\ Machine(op_rot(m))
         /\ Machine(op_swap(m))
         /\ Machine(op_tuck(m))
         /\ Machine(op_equal(m))
         /\ Machine(op_ripemd160(m))
         /\ Machine(op_sha1(m))
         /\ Machine(op_sha256(m))
         /\ Machine(op_hash160(m))
         /\ Machine(op_hash256(m))
  <1>1. Machine(op_2drop(m)) BY ReplacedKeeps DEF op_2drop, Replace
  <1>2. Machine(op_2dup(m)) BY ReplacedKeeps DEF op_2dup, Replace
  <1>3. Machine(op_3dup(m)) BY ReplacedKeeps DEF op_3dup, Replace
  <1>4. Machine(op_2over(m)) BY ReplacedKeeps DEF op_2over, Replace
  <1>5. Machine(op_2rot(m)) BY ReplacedKeeps DEF op_2rot, Replace
  <1>6. Machine(op_2swap(m)) BY ReplacedKeeps DEF op_2swap, Replace
  <1>7. Machine(op_drop(m)) BY ReplacedKeeps DEF op_drop, Replace
  <1>8. Machine(op_dup(m)) BY ReplacedKeeps DEF op_dup, Replace
  <1>9. Machine(op_nip(m)) BY ReplacedKeeps DEF op_nip, Replace
  <1>10. Machine(op_over(m)) BY ReplacedKeeps DEF op_over, Replace
  <1>11. Machine(op_rot(m)) BY ReplacedKeeps DEF op_rot, Replace
  <1>12. Machine(op_swap(m)) BY ReplacedKeeps DEF op_swap, Replace
  <1>13. Machine(op_tuck(m)) BY ReplacedKeeps DEF op_tuck, Replace
  <1>14. Machine(op_equal(m)) BY ReplacedKeeps DEF op_equal, Replace
  <1>15. Machine(op_ripemd160(m)) BY ReplacedKeeps DEF op_ripemd160, Replace
  <1>16. Machine(op_sha1(m)) BY ReplacedKeeps DEF op_sha1, Replace
  <1>17. Machine(op_sha256(m)) BY ReplacedKeeps DEF op_sha256, Replace
  <1>18. Machine(op_hash160(m)) BY ReplacedKeeps DEF op_hash160, Replace
  <1>19. Machine(op_hash256(m)) BY ReplacedKeeps DEF op_hash256, Replace
  <1> QED BY <1>1, <1>2, <1>3, <1>4, <1>5, <1>6, <1>7, <1>8, <1>9, <1>10, <1>11, <1>12,
      <1>13, <1>14, <1>15, <1>16, <1>17, <1>18, <1>19

LEMMA NumericKeep ==
  ASSUME NEW m, Machine(m)
  PROVE  /\ Machine(op_1add(m))
         /\ Machine(op_1sub(m))
         /\ Machine(op_negate(m))
         /\ Machine(op_abs(m))
         /\ Machine(op_not(m))
         /\ Machine(op_0notequal(m))
         /\ Machine(op_add(m))
         /\ Machine(op_sub(m))
         /\ Machine(op_booland(m))
         /\ Machine(op_boolor(m))
         /\ Machine(op_numequal(m))
         /\ Machine(op_numnotequal(m))
         /\ Machine(op_lessthan(m))
         /\ Machine(op_greaterthan(m))
         /\ Machine(op_lessthanorequal(m))
         /\ Machine(op_greaterthanorequal(m))
         /\ Machine(op_min(m))
         /\ Machine(op_max(m))
         /\ Machine(op_within(m))
  <1>1. Machine(op_1add(m)) BY FailRaise, OneItemKeeps DEF op_1add, Numeric, Replace
  <1>2. Machine(op_1sub(m)) BY FailRaise, OneItemKeeps DEF op_1sub, Numeric, Replace
  <1>3. Machine(op_negate(m)) BY FailRaise, OneItemKeeps DEF op_negate, Numeric, Replace
  <1>4. Machine(op_abs(m)) BY FailRaise, OneItemKeeps DEF op_abs, Numeric, Replace
  <1>5. Machine(op_not(m)) BY FailRaise, OneItemKeeps DEF op_not, Numeric, Replace
  <1>6. Machine(op_0notequal(m)) BY FailRaise, OneItemKeeps DEF op_0notequal, Numeric, Replace
  <1>7. Machine(op_add(m)) BY FailRaise, OneItemKeeps DEF op_add, Numeric, Replace
  <1>8. Machine(op_sub(m)) BY FailRaise, OneItemKeeps DEF op_sub, Numeric, Replace
  <1>9. Machine(op_booland(m)) BY FailRaise, OneItemKeeps DEF op_booland, Numeric, Replace
  <1>10. Machine(op_boolor(m)) BY FailRaise, OneItemKeeps DEF op_boolor, Numeric, Replace
  <1>11. Machine(op_numequal(m)) BY FailRaise, OneItemKeeps DEF op_numequal, Numeric, Replace
  <1>12. Machine(op_numnotequal(m)) BY FailRaise, OneItemKeeps DEF op_numnotequal, Numeric,
      Replace
  <1>13. Machine(op_lessthan(m)) BY FailRaise, OneItemKeeps DEF op_lessthan, Numeric, Replace
  <1>14. Machine(op_greaterthan(m)) BY FailRaise, OneItemKeeps DEF op_greaterthan, Numeric,
      Replace
  <1>15. Machine(op_lessthanorequal(m)) BY FailRaise, OneItemKeeps DEF op_lessthanorequal,
      Numeric, Replace
  <1>16. Machine(op_greaterthanorequal(m)) BY FailRaise, OneItemKeeps DEF
      op_greaterthanorequal, Numeric, Replace
  <1>17. Machine(op_min(m)) BY FailRaise, OneItemKeeps DEF op_min, Numeric, Replace
  <1>18. Machine(op_max(m)) BY FailRaise, OneItemKeeps DEF op_max, Numeric, Replace
  <1>19. Machine(op_within(m)) BY FailRaise, OneItemKeeps DEF op_within, Numeric, Replace
  <1> QED BY <1>1, <1>2, <1>3, <1>4, <1>5, <1>6, <1>7, <1>8, <1>9, <1>10, <1>11, <1>12,
      <1>13, <1>14, <1>15, <1>16, <1>17, <1>18, <1>19

LEMMA OtherKeep ==
  ASSUME NEW m, Machine(m)
  PROVE  /\ Machine(op_toaltstack(m))
         /\ Machine(op_fromaltstack(m))
         /\ Machine(op_ifdup(m))
         /\ Machine(op_depth(m))
         /\ Machine(op_pick(m))
         /\ Machine(op_roll(m))
         /\ Machine(op_size(m))
         /\ Machine(op_1negate(m))
  <1>1. Machine(op_toaltstack(m)) BY FailRaise, BothStacksChange DEF op_toaltstack
  <1>2. Machine(op_fromaltstack(m)) BY FailRaise, StacksChange, PushKeeps DEF op_fromaltstack
  <1>3. Machine(op_ifdup(m)) BY FailRaise, PushKeeps DEF op_ifdup
  <1>4. Machine(op_depth(m)) BY PushKeeps DEF op_depth
  <1>5. Machine(op_pick(m)) BY FailRaise, StacksChange, PushKeeps DEF op_pick
  <1>6. Machine(op_roll(m)) BY FailRaise, StacksChange, PushListKeeps DEF op_roll, Replace
  <1>7. Machine(op_size(m)) BY FailRaise, PushKeeps DEF op_size
  <1>8. Machine(op_1negate(m)) BY PushKeeps DEF op_1negate
  <1> QED BY <1>1, <1>2, <1>3, <1>4, <1>5, <1>6, <1>7, <1>8

LEMMA VerifyKeeps ==
  ASSUME NEW m, Machine(m)
  PROVE  Machine(op_verify(m)) /\ Machine(ThenVerify(m))
  BY FailRaise, ReplacingKeep, VerifiedKeeps DEF op_verify, ThenVerify

LEMMA VerifyingKeep ==
  ASSUME NEW m, Machine(m)
  PROVE  Machine(op_equalverify(m)) /\ Machine(op_numequalverify(m))
  BY ReplacingKeep, NumericKeep, VerifyKeeps DEF op_equalverify, op_numequalverify

LEMMA ConsumeKeeps ==
  ASSUME NEW m, Machine(m)
  PROVE  Machine(Consume(m))
  BY FailRaise, StacksChange DEF Consume

LEMMA VerdictKeeps ==
  ASSUME NEW m, Machine(m), NEW v
  PROVE  Machine(PushVerdict(m, v))
  BY FailRaise, PushKeeps DEF PushVerdict

LEMMA TapscriptSigOk == \A sig : TapscriptSig(sig).ok \in BOOLEAN
  BY DEF TapscriptSig, None

LEMMA ChecksigKeeps ==
  ASSUME NEW m, Machine(m), NEW c
  PROVE  Machine(op_checksig(m, c))
  BY FailRaise, PushKeeps, ReplacingKeep, ConsumeKeeps, VerdictKeeps, TapscriptSigOk DEF op_checksig

LEMMA ChecksigaddKeeps ==
  ASSUME NEW m, Machine(m), NEW c
  PROVE  Machine(op_checksigadd(m, c))
  BY FailRaise, StacksChange, PushKeeps, ConsumeKeeps DEF op_checksigadd

LEMMA CheckmultisigKeeps ==
  ASSUME NEW m, Machine(m), NEW c
  PROVE  Machine(op_checkmultisig(m, c))
  BY FailRaise, StacksChange, PushKeeps DEF op_checkmultisig, WithKeys, WithSigs, PushWalk

LEMMA ChecklocktimeKeeps ==
  ASSUME NEW m, Machine(m), NEW c
  PROVE  Machine(op_checklocktime(m, c))
  BY FailRaise, VerifiedKeeps DEF op_checklocktime

LEMMA OpcodeKeeps ==
  ASSUME NEW m, Machine(m), NEW op
  PROVE  Machine(Opcode(m, op))
  BY FailRaise, ReplacingKeep, NumericKeep, OtherKeep, VerifyKeeps, VerifyingKeep DEF Opcode

LEMMA ExecuteKeeps ==
  ASSUME NEW m, Machine(m), NEW c, NEW ins
  PROVE  Machine(Execute(m, c, ins))
  BY FailRaise, PushKeeps, ChecksigKeeps, ChecksigaddKeeps, CheckmultisigKeeps,
     ChecklocktimeKeeps, VerifyKeeps, OpcodeKeeps DEF Execute

(*----------------------------- the loops of a script -----------------------------*)

\* Counting up from 0.
LEMMA CountUp ==
  ASSUME NEW n \in Nat, NEW H, 0 \in H, \A k \in 1 .. n : k - 1 \in H => k \in H
  PROVE  \A k \in 0 .. n : k \in H
  <1> DEFINE f == [k \in 0 .. n |-> k]
  <1>1. f[0] \in H /\ \A k \in 1 .. n : f[k - 1] \in H => f[k] \in H OBVIOUS
  <1>2. \A k \in 0 .. n : f[k] \in H
    <2> HIDE DEF f
    <2> QED BY <1>1, RoundsKeep
  <1> QED BY <1>2

\* The machine that an interpreter with flags makes of a list of instructions.
Outcome(c, m, list, flags) ==
    Rounds(Len(list), [m |-> m, list |-> list, flags |-> flags], LAMBDA s : FlaggedNext(c, s)).m

\* f holds the states of n rounds.
FlaggedStates(f, n, c, s) ==
    /\ f = [k \in 0 .. n |-> f[k]]
    /\ f[0] = s
    /\ \A k \in 1 .. n : f[k] = FlaggedNext(c, f[k - 1])

LEMMA FlaggedRounds ==
  ASSUME NEW n \in Nat, NEW c, NEW m, NEW list, Len(list) = n, NEW flags,
         NEW s, s = [m |-> m, list |-> list, flags |-> flags]
  PROVE  \E f : FlaggedStates(f, n, c, s) /\ Outcome(c, m, list, flags) = f[n].m
  <1> DEFINE Bad == {q \in Nat : q \in 0 .. n /\ (~ \E f : FlaggedStates(f, q, c, s))}
             F == CHOOSE f : f = [k \in 0 .. n |-> IF k = 0 THEN s ELSE FlaggedNext(c, f[k - 1])]
  <1>1. ASSUME Bad # {} PROVE FALSE
    <2>1. PICK q \in Bad : \A j \in Bad : q <= j
      <3> HIDE DEF Bad
      <3>1. Bad \subseteq Nat BY DEF Bad
      <3> QED BY <1>1, <3>1, LeastNatural
    <2>2. q \in Nat /\ q \in 0 .. n /\ (~ \E f : FlaggedStates(f, q, c, s)) BY <2>1
    <2>3. CASE q = 0
      <3> DEFINE g == [k \in 0 .. 0 |-> s]
      <3>1. g = [k \in 0 .. 0 |-> g[k]] /\ g[0] = s OBVIOUS
      <3>2. 1 .. 0 = {} OBVIOUS
      <3> HIDE DEF g
      <3>3. FlaggedStates(g, 0, c, s) BY <3>1, <3>2 DEF FlaggedStates
      <3> QED BY <2>2, <2>3, <3>3
    <2>4. CASE q # 0
      <3>1. q - 1 \in Nat /\ q - 1 \in 0 .. n /\ ~ (q <= q - 1) BY <2>2, <2>4
      <3>2. q - 1 \notin Bad BY <2>1, <3>1
      <3>3. PICK f : FlaggedStates(f, q - 1, c, s) BY <3>1, <3>2
      <3> DEFINE next == FlaggedNext(c, f[q - 1])
                 g == [k \in 0 .. q |-> IF k = q THEN next ELSE f[k]]
      <3>4. (\A k \in 0 .. q - 1 : g[k] = f[k]) /\ g[q] = next /\ g = [k \in 0 .. q |-> g[k]]
        BY <3>1
      <3>8. f[0] = s /\ 0 \in 0 .. q - 1 BY <3>1, <3>3 DEF FlaggedStates
      <3> HIDE DEF g
      <3>5. g[0] = s BY <3>4, <3>8
      <3>6. ASSUME NEW k \in 1 .. q PROVE g[k] = FlaggedNext(c, g[k - 1])
        <4>1. k - 1 \in 0 .. q - 1 BY <3>1
        <4>2. g[k - 1] = f[k - 1] BY <3>4, <4>1
        <4>3. CASE k = q BY <3>4, <4>2, <4>3
        <4>4. CASE k # q
          <5>1. k \in 1 .. q - 1 /\ k \in 0 .. q - 1 BY <3>1, <4>4
          <5>2. f[k] = FlaggedNext(c, f[k - 1]) BY <3>3, <5>1 DEF FlaggedStates
          <5> QED BY <3>4, <4>2, <5>1, <5>2
        <4> QED BY <4>3, <4>4
      <3>7. FlaggedStates(g, q, c, s) BY <3>4, <3>5, <3>6 DEF FlaggedStates
      <3> QED BY <2>2, <3>7
    <2> QED BY <2>3, <2>4
  <1>2. PICK f : FlaggedStates(f, n, c, s)
    <2>1. n \notin Bad
      <3> HIDE DEF Bad
      <3> QED BY <1>1
    <2>2. n \in 0 .. n OBVIOUS
    <2> QED BY <2>1, <2>2
  <1>3. ASSUME NEW k \in 0 .. n
        PROVE  f[k] = IF k = 0 THEN s ELSE FlaggedNext(c, f[k - 1])
    <2>1. CASE k = 0 BY <1>2, <2>1 DEF FlaggedStates
    <2>2. CASE k # 0
      <3>1. k \in 1 .. n BY <2>2
      <3> QED BY <1>2, <2>2, <3>1 DEF FlaggedStates
    <2> QED BY <2>1, <2>2
  <1>4. f = [k \in 0 .. n |-> IF k = 0 THEN s ELSE FlaggedNext(c, f[k - 1])]
    <2>1. f = [k \in 0 .. n |-> f[k]] BY <1>2 DEF FlaggedStates
    <2> QED BY <1>3, <2>1, Zenon
  <1>5. F = [k \in 0 .. n |-> IF k = 0 THEN s ELSE FlaggedNext(c, F[k - 1])]
    BY <1>4, Zenon
  <1>6. Outcome(c, m, list, flags) = F[n].m BY DEF Outcome, Rounds
  <1> HIDE DEF F
  <1>7. FlaggedStates(F, n, c, s) BY <1>5 DEF FlaggedStates
  <1> QED BY <1>6, <1>7

\* f holds the states of n rounds.
ReadStates(f, n, code, s) ==
    /\ f = [k \in 0 .. n |-> f[k]]
    /\ f[0] = s
    /\ \A k \in 1 .. n : f[k] = ReadOn(code, f[k - 1])

LEMMA ReadRounds ==
  ASSUME NEW n \in Nat, NEW code, Len(code) = n, NEW at,
         NEW s, s = [ok |-> TRUE, list |-> <<>>, at |-> at]
  PROVE  \E f : ReadStates(f, n, code, s) /\ Instructions(code, at) = f[n]
  <1> DEFINE Bad == {m \in Nat : m \in 0 .. n /\ (~ \E f : ReadStates(f, m, code, s))}
             F == CHOOSE f : f = [k \in 0 .. n |-> IF k = 0 THEN s ELSE ReadOn(code, f[k - 1])]
  <1>1. ASSUME Bad # {} PROVE FALSE
    <2>1. PICK m \in Bad : \A j \in Bad : m <= j
      <3> HIDE DEF Bad
      <3>1. Bad \subseteq Nat BY DEF Bad
      <3> QED BY <1>1, <3>1, LeastNatural
    <2>2. m \in Nat /\ m \in 0 .. n /\ (~ \E f : ReadStates(f, m, code, s)) BY <2>1
    <2>3. CASE m = 0
      <3> DEFINE g == [k \in 0 .. 0 |-> s]
      <3>1. g = [k \in 0 .. 0 |-> g[k]] /\ g[0] = s OBVIOUS
      <3>2. 1 .. 0 = {} OBVIOUS
      <3> HIDE DEF g
      <3>3. ReadStates(g, 0, code, s) BY <3>1, <3>2 DEF ReadStates
      <3> QED BY <2>2, <2>3, <3>3
    <2>4. CASE m # 0
      <3>1. m - 1 \in Nat /\ m - 1 \in 0 .. n /\ ~ (m <= m - 1) BY <2>2, <2>4
      <3>2. m - 1 \notin Bad BY <2>1, <3>1
      <3>3. PICK f : ReadStates(f, m - 1, code, s) BY <3>1, <3>2
      <3> DEFINE next == ReadOn(code, f[m - 1])
                 g == [k \in 0 .. m |-> IF k = m THEN next ELSE f[k]]
      <3>4. (\A k \in 0 .. m - 1 : g[k] = f[k]) /\ g[m] = next /\ g = [k \in 0 .. m |-> g[k]]
        BY <3>1
      <3>8. f[0] = s /\ 0 \in 0 .. m - 1 BY <3>1, <3>3 DEF ReadStates
      <3> HIDE DEF g
      <3>5. g[0] = s BY <3>4, <3>8
      <3>6. ASSUME NEW k \in 1 .. m PROVE g[k] = ReadOn(code, g[k - 1])
        <4>1. k - 1 \in 0 .. m - 1 BY <3>1
        <4>2. g[k - 1] = f[k - 1] BY <3>4, <4>1
        <4>3. CASE k = m BY <3>4, <4>2, <4>3
        <4>4. CASE k # m
          <5>1. k \in 1 .. m - 1 /\ k \in 0 .. m - 1 BY <3>1, <4>4
          <5>2. f[k] = ReadOn(code, f[k - 1]) BY <3>3, <5>1 DEF ReadStates
          <5> QED BY <3>4, <4>2, <5>1, <5>2
        <4> QED BY <4>3, <4>4
      <3>7. ReadStates(g, m, code, s) BY <3>4, <3>5, <3>6 DEF ReadStates
      <3> QED BY <2>2, <3>7
    <2> QED BY <2>3, <2>4
  <1>2. PICK f : ReadStates(f, n, code, s)
    <2>1. n \notin Bad
      <3> HIDE DEF Bad
      <3> QED BY <1>1
    <2>2. n \in 0 .. n OBVIOUS
    <2> QED BY <2>1, <2>2
  <1>3. ASSUME NEW k \in 0 .. n
        PROVE  f[k] = IF k = 0 THEN s ELSE ReadOn(code, f[k - 1])
    <2>1. CASE k = 0 BY <1>2, <2>1 DEF ReadStates
    <2>2. CASE k # 0
      <3>1. k \in 1 .. n BY <2>2
      <3> QED BY <1>2, <2>2, <3>1 DEF ReadStates
    <2> QED BY <2>1, <2>2
  <1>4. f = [k \in 0 .. n |-> IF k = 0 THEN s ELSE ReadOn(code, f[k - 1])]
    <2>1. f = [k \in 0 .. n |-> f[k]] BY <1>2 DEF ReadStates
    <2> QED BY <1>3, <2>1, Zenon
  <1>5. F = [k \in 0 .. n |-> IF k = 0 THEN s ELSE ReadOn(code, F[k - 1])]
    BY <1>4, Zenon
  <1>6. Instructions(code, at) = F[n] BY DEF Instructions, Rounds
  <1> HIDE DEF F
  <1>7. ReadStates(F, n, code, s) BY <1>5 DEF ReadStates
  <1> QED BY <1>6, <1>7

\* f holds the states of n rounds.
BlockStates(f, n, code, s) ==
    /\ f = [k \in 0 .. n |-> f[k]]
    /\ f[0] = s
    /\ \A k \in 1 .. n : f[k] = BlockNext(code, f[k - 1])

LEMMA BlockRounds ==
  ASSUME NEW n \in Nat, NEW code, Len(code) = n, NEW at, NEW s, s = BlockStart(at)
  PROVE  \E f : BlockStates(f, n, code, s) /\ Block(code, at) = f[n]
  <1> DEFINE Bad == {m \in Nat : m \in 0 .. n /\ (~ \E f : BlockStates(f, m, code, s))}
             F == CHOOSE f : f = [k \in 0 .. n |-> IF k = 0 THEN s ELSE BlockNext(code, f[k - 1])]
  <1>1. ASSUME Bad # {} PROVE FALSE
    <2>1. PICK m \in Bad : \A j \in Bad : m <= j
      <3> HIDE DEF Bad
      <3>1. Bad \subseteq Nat BY DEF Bad
      <3> QED BY <1>1, <3>1, LeastNatural
    <2>2. m \in Nat /\ m \in 0 .. n /\ (~ \E f : BlockStates(f, m, code, s)) BY <2>1
    <2>3. CASE m = 0
      <3> DEFINE g == [k \in 0 .. 0 |-> s]
      <3>1. g = [k \in 0 .. 0 |-> g[k]] /\ g[0] = s OBVIOUS
      <3>2. 1 .. 0 = {} OBVIOUS
      <3> HIDE DEF g
      <3>3. BlockStates(g, 0, code, s) BY <3>1, <3>2 DEF BlockStates
      <3> QED BY <2>2, <2>3, <3>3
    <2>4. CASE m # 0
      <3>1. m - 1 \in Nat /\ m - 1 \in 0 .. n /\ ~ (m <= m - 1) BY <2>2, <2>4
      <3>2. m - 1 \notin Bad BY <2>1, <3>1
      <3>3. PICK f : BlockStates(f, m - 1, code, s) BY <3>1, <3>2
      <3> DEFINE next == BlockNext(code, f[m - 1])
                 g == [k \in 0 .. m |-> IF k = m THEN next ELSE f[k]]
      <3>4. (\A k \in 0 .. m - 1 : g[k] = f[k]) /\ g[m] = next /\ g = [k \in 0 .. m |-> g[k]]
        BY <3>1
      <3>8. f[0] = s /\ 0 \in 0 .. m - 1 BY <3>1, <3>3 DEF BlockStates
      <3> HIDE DEF g
      <3>5. g[0] = s BY <3>4, <3>8
      <3>6. ASSUME NEW k \in 1 .. m PROVE g[k] = BlockNext(code, g[k - 1])
        <4>1. k - 1 \in 0 .. m - 1 BY <3>1
        <4>2. g[k - 1] = f[k - 1] BY <3>4, <4>1
        <4>3. CASE k = m BY <3>4, <4>2, <4>3
        <4>4. CASE k # m
          <5>1. k \in 1 .. m - 1 /\ k \in 0 .. m - 1 BY <3>1, <4>4
          <5>2. f[k] = BlockNext(code, f[k - 1]) BY <3>3, <5>1 DEF BlockStates
          <5> QED BY <3>4, <4>2, <5>1, <5>2
        <4> QED BY <4>3, <4>4
      <3>7. BlockStates(g, m, code, s) BY <3>4, <3>5, <3>6 DEF BlockStates
      <3> QED BY <2>2, <3>7
    <2> QED BY <2>3, <2>4
  <1>2. PICK f : BlockStates(f, n, code, s)
    <2>1. n \notin Bad
      <3> HIDE DEF Bad
      <3> QED BY <1>1
    <2>2. n \in 0 .. n OBVIOUS
    <2> QED BY <2>1, <2>2
  <1>3. ASSUME NEW k \in 0 .. n
        PROVE  f[k] = IF k = 0 THEN s ELSE BlockNext(code, f[k - 1])
    <2>1. CASE k = 0 BY <1>2, <2>1 DEF BlockStates
    <2>2. CASE k # 0
      <3>1. k \in 1 .. n BY <2>2
      <3> QED BY <1>2, <2>2, <3>1 DEF BlockStates
    <2> QED BY <2>1, <2>2
  <1>4. f = [k \in 0 .. n |-> IF k = 0 THEN s ELSE BlockNext(code, f[k - 1])]
    <2>1. f = [k \in 0 .. n |-> f[k]] BY <1>2 DEF BlockStates
    <2> QED BY <1>3, <2>1, Zenon
  <1>5. F = [k \in 0 .. n |-> IF k = 0 THEN s ELSE BlockNext(code, F[k - 1])]
    BY <1>4, Zenon
  <1>6. Block(code, at) = F[n] BY DEF Block, Rounds
  <1> HIDE DEF F
  <1>7. BlockStates(F, n, code, s) BY <1>5 DEF BlockStates
  <1> QED BY <1>6, <1>7

\* f holds the states of n rounds.
ShapeStates(f, n, list) ==
    /\ f = [k \in 0 .. n |-> f[k]]
    /\ f[0] = <<>>
    /\ \A k \in 1 .. n : f[k] = ShapeNext(f[k - 1], list[k].op)

LEMMA ShapeRounds ==
  ASSUME NEW n \in Nat, NEW list, Len(list) = n
  PROVE  \E f : ShapeStates(f, n, list) /\ Shape(list) = f[n]
  <1> DEFINE Bad == {m \in Nat : m \in 0 .. n /\ (~ \E f : ShapeStates(f, m, list))}
             F == CHOOSE f : f = [k \in 0 .. n |-> IF k = 0 THEN <<>> ELSE ShapeNext(f[k - 1], list[k].op)]
  <1>1. ASSUME Bad # {} PROVE FALSE
    <2>1. PICK m \in Bad : \A j \in Bad : m <= j
      <3> HIDE DEF Bad
      <3>1. Bad \subseteq Nat BY DEF Bad
      <3> QED BY <1>1, <3>1, LeastNatural
    <2>2. m \in Nat /\ m \in 0 .. n /\ (~ \E f : ShapeStates(f, m, list)) BY <2>1
    <2>3. CASE m = 0
      <3> DEFINE g == [k \in 0 .. 0 |-> <<>>]
      <3>1. g = [k \in 0 .. 0 |-> g[k]] /\ g[0] = <<>> OBVIOUS
      <3>2. 1 .. 0 = {} OBVIOUS
      <3> HIDE DEF g
      <3>3. ShapeStates(g, 0, list) BY <3>1, <3>2 DEF ShapeStates
      <3> QED BY <2>2, <2>3, <3>3
    <2>4. CASE m # 0
      <3>1. m - 1 \in Nat /\ m - 1 \in 0 .. n /\ ~ (m <= m - 1) BY <2>2, <2>4
      <3>2. m - 1 \notin Bad BY <2>1, <3>1
      <3>3. PICK f : ShapeStates(f, m - 1, list) BY <3>1, <3>2
      <3> DEFINE next == ShapeNext(f[m - 1], list[m].op)
                 g == [k \in 0 .. m |-> IF k = m THEN next ELSE f[k]]
      <3>4. (\A k \in 0 .. m - 1 : g[k] = f[k]) /\ g[m] = next /\ g = [k \in 0 .. m |-> g[k]]
        BY <3>1
      <3>8. f[0] = <<>> /\ 0 \in 0 .. m - 1 BY <3>1, <3>3 DEF ShapeStates
      <3> HIDE DEF g
      <3>5. g[0] = <<>> BY <3>4, <3>8
      <3>6. ASSUME NEW k \in 1 .. m PROVE g[k] = ShapeNext(g[k - 1], list[k].op)
        <4>1. k - 1 \in 0 .. m - 1 BY <3>1
        <4>2. g[k - 1] = f[k - 1] BY <3>4, <4>1
        <4>3. CASE k = m BY <3>4, <4>2, <4>3
        <4>4. CASE k # m
          <5>1. k \in 1 .. m - 1 /\ k \in 0 .. m - 1 BY <3>1, <4>4
          <5>2. f[k] = ShapeNext(f[k - 1], list[k].op) BY <3>3, <5>1 DEF ShapeStates
          <5> QED BY <3>4, <4>2, <5>1, <5>2
        <4> QED BY <4>3, <4>4
      <3>7. ShapeStates(g, m, list) BY <3>4, <3>5, <3>6 DEF ShapeStates
      <3> QED BY <2>2, <3>7
    <2> QED BY <2>3, <2>4
  <1>2. PICK f : ShapeStates(f, n, list)
    <2>1. n \notin Bad
      <3> HIDE DEF Bad
      <3> QED BY <1>1
    <2>2. n \in 0 .. n OBVIOUS
    <2> QED BY <2>1, <2>2
  <1>3. ASSUME NEW k \in 0 .. n
        PROVE  f[k] = IF k = 0 THEN <<>> ELSE ShapeNext(f[k - 1], list[k].op)
    <2>1. CASE k = 0 BY <1>2, <2>1 DEF ShapeStates
    <2>2. CASE k # 0
      <3>1. k \in 1 .. n BY <2>2
      <3> QED BY <1>2, <2>2, <3>1 DEF ShapeStates
    <2> QED BY <2>1, <2>2
  <1>4. f = [k \in 0 .. n |-> IF k = 0 THEN <<>> ELSE ShapeNext(f[k - 1], list[k].op)]
    <2>1. f = [k \in 0 .. n |-> f[k]] BY <1>2 DEF ShapeStates
    <2> QED BY <1>3, <2>1, Zenon
  <1>5. F = [k \in 0 .. n |-> IF k = 0 THEN <<>> ELSE ShapeNext(F[k - 1], list[k].op)]
    BY <1>4, Zenon
  <1>6. Shape(list) = F[n] BY DEF Shape
  <1> HIDE DEF F
  <1>7. ShapeStates(F, n, list) BY <1>5 DEF ShapeStates
  <1> QED BY <1>6, <1>7

(*------------------------- the instructions of a script -------------------------*)

\* The count of an opcode whose length bytes are b.
Operand(op, b) ==
    CASE op \in 1 .. 75 -> op
      [] IsPush(op) /\ LengthBytes(op) > 0 -> FromLe(b)
      [] OTHER -> 0

\* An opcode with the data it pushes.
Ins == [op : Byte, data : Str]

LEMMA Widths == \A op : LengthBytes(op) \in {0, 1, 2, 4}
  BY DEF LengthBytes

LEMMA InstructionIs ==
  ASSUME NEW code, NEW at
  PROVE  LET op == code[at]
             w == LengthBytes(op)
             n == Operand(op, SubSeq(code, at + 1, at + w))
         IN Instruction(code, at) =
              IF at + w > Len(code) \/ at + w + n > Len(code) THEN None
              ELSE [ok |-> TRUE, op |-> op, next |-> at + w + n + 1,
                    data |-> SubSeq(code, at + w + 1, at + w + n)]
  <1> DEFINE op == code[at]
             w == LengthBytes(op)
  <1>1. (CASE op \in 1 .. \h4b -> op
           [] IsPush(op) /\ w > 0 -> FromLe(SubSeq(code, at + 1, at + w))
           [] OTHER -> 0) = Operand(op, SubSeq(code, at + 1, at + w))
    BY DEF Operand
  <1> QED BY <1>1 DEF Instruction

LEMMA SliceIn ==
  ASSUME NEW b \in Str, NEW i \in Nat \ {0}, NEW j \in Nat, j <= Len(b)
  PROVE  SubSeq(b, i, j) \in Str
  <1>1. \A k \in i .. j : b[k] \in Byte
    <2>1. \A k \in i .. j : k \in 1 .. Len(b) BY DEF Str
    <2> QED BY <2>1, ElementOfSeq DEF Str
  <1> QED BY <1>1, SubSeqProperties DEF Str

\* Two strings that agree on m places have the same slice there.
LEMMA SameSlice ==
  ASSUME NEW a \in Str, NEW b \in Str, NEW i \in Nat \ {0}, NEW j \in Nat \ {0}, NEW m \in Nat,
         i + m - 1 <= Len(a), j + m - 1 <= Len(b), \A k \in 0 .. m - 1 : a[i + k] = b[j + k]
  PROVE  SubSeq(a, i, i + m - 1) = SubSeq(b, j, j + m - 1)
  <1> DEFINE s == SubSeq(a, i, i + m - 1)
             t == SubSeq(b, j, j + m - 1)
  <1>0. Len(a) \in Nat /\ Len(b) \in Nat BY DEF Str
  <1>1. s \in Str /\ t \in Str BY <1>0, SliceIn
  <1>2. \A k \in i .. i + m - 1 : a[k] \in Byte
    <2>1. \A k \in i .. i + m - 1 : k \in 1 .. Len(a) BY <1>0
    <2> QED BY <2>1, ElementOfSeq DEF Str
  <1>3. \A k \in j .. j + m - 1 : b[k] \in Byte
    <2>1. \A k \in j .. j + m - 1 : k \in 1 .. Len(b) BY <1>0
    <2> QED BY <2>1, ElementOfSeq DEF Str
  <1>4. Len(s) = m /\ \A k \in 1 .. m : s[k] = a[i + k - 1]
    BY <1>2, SubSeqProperties
  <1>5. Len(t) = m /\ \A k \in 1 .. m : t[k] = b[j + k - 1]
    BY <1>3, SubSeqProperties
  <1>6. ASSUME NEW k \in 1 .. m PROVE s[k] = t[k]
    <2>1. k - 1 \in 0 .. m - 1 BY <1>6
    <2>2. a[i + (k - 1)] = b[j + (k - 1)] BY <2>1
    <2>3. i + (k - 1) = i + k - 1 /\ j + (k - 1) = j + k - 1 OBVIOUS
    <2> HIDE DEF s, t
    <2> QED BY <1>4, <1>5, <2>2, <2>3
  <1> HIDE DEF s, t
  <1>7. s = t BY <1>1, <1>4, <1>5, <1>6, SeqEqual DEF Str
  <1> QED BY <1>7 DEF s, t

\* The instruction at a position has w bytes of length and pushes n bytes.
Measures(code, at, w, n) ==
    /\ w = LengthBytes(code[at])
    /\ n = Operand(code[at], SubSeq(code, at + 1, at + w))
    /\ at + w + n <= Len(code)
    /\ Instruction(code, at).op = code[at]
    /\ Instruction(code, at).next = at + w + n + 1
    /\ Instruction(code, at).data = SubSeq(code, at + w + 1, at + w + n)

LEMMA OperandNat ==
  ASSUME NEW op \in Byte, NEW b \in Str
  PROVE  Operand(op, b) \in Nat
  <1>1. op \in Nat BY ByteIsNat, Zenon
  <1>2. FromLe(b) \in Nat BY FromLeNat
  <1> QED BY <1>1, <1>2 DEF Operand

LEMMA Measured ==
  ASSUME NEW code \in Str, NEW at \in 1 .. Len(code), Instruction(code, at).ok
  PROVE  \E w \in {0, 1, 2, 4}, n \in Nat : Measures(code, at, w, n)
  <1> DEFINE w == LengthBytes(code[at])
             n == Operand(code[at], SubSeq(code, at + 1, at + w))
             made == [ok |-> TRUE, op |-> code[at], next |-> at + w + n + 1, data |-> SubSeq(code, at + w + 1, at + w + n)]
  <1>1. Instruction(code, at) = IF at + w > Len(code) \/ at + w + n > Len(code) THEN None ELSE made
    BY InstructionIs
  <1>2. ~ (at + w > Len(code)) /\ ~ (at + w + n > Len(code)) /\ Instruction(code, at) = made
    BY <1>1, NotOk
  <1>3. /\ Instruction(code, at).op = code[at]
        /\ Instruction(code, at).next = at + w + n + 1
        /\ Instruction(code, at).data = SubSeq(code, at + w + 1, at + w + n)
    <2>1. Instruction(code, at) = made BY <1>2, Zenon
    <2> HIDE DEF w, n
    <2>2. Instruction(code, at) = [ok |-> TRUE, op |-> code[at], next |-> at + w + n + 1,
                                   data |-> SubSeq(code, at + w + 1, at + w + n)]
      BY <2>1, Zenon
    <2> HIDE DEF made
    <2>3. Instruction(code, at).op = code[at] BY <2>2
    <2>4. Instruction(code, at).next = at + w + n + 1 BY <2>2
    <2>5. PICK data : data = SubSeq(code, at + w + 1, at + w + n) OBVIOUS
    <2>6. Instruction(code, at) = [ok |-> TRUE, op |-> code[at], next |-> at + w + n + 1, data |-> data]
      BY <2>2, <2>5, Zenon
    <2>7. Instruction(code, at).data = data BY <2>6
    <2> QED BY <2>3, <2>4, <2>5, <2>7
  <1>4. w \in {0, 1, 2, 4} BY Widths
  <1>11. ~ (at + w > Len(code)) /\ ~ (at + w + n > Len(code)) BY <1>2
  <1>5. code[at] \in Byte /\ Len(code) \in Nat /\ at \in Nat BY ElementOfSeq DEF Str
  <1> HIDE DEF w, n, made
  <1>6. at + 1 \in Nat \ {0} /\ at + w \in Nat /\ at + w <= Len(code) BY <1>4, <1>5, <1>11
  <1>7. SubSeq(code, at + 1, at + w) \in Str BY <1>6, SliceIn
  <1>8. n \in Nat BY <1>5, <1>7, OperandNat DEF n
  <1>9. at + w + n <= Len(code) BY <1>4, <1>5, <1>8, <1>11
  <1>10. Measures(code, at, w, n) BY <1>3, <1>9 DEF Measures, w, n
  <1> QED BY <1>4, <1>8, <1>10

LEMMA InstructionReads ==
  ASSUME NEW code \in Str, NEW at \in 1 .. Len(code), Instruction(code, at).ok
  PROVE  LET ins == Instruction(code, at)
         IN /\ ins.op = code[at] /\ ins.op \in Byte
            /\ ins.next \in at + 1 .. Len(code) + 1
            /\ Content(ins) \in Ins
            /\ Content(ins).op = ins.op
            /\ SubSeq(code, at, ins.next - 1) \in Str
            /\ Len(SubSeq(code, at, ins.next - 1)) = ins.next - at
            /\ \A k \in 1 .. ins.next - at : SubSeq(code, at, ins.next - 1)[k] = code[at + k - 1]
  <1> DEFINE ins == Instruction(code, at)
  <1>0. Len(code) \in Nat /\ code[at] \in Byte /\ at \in Nat BY ElementOfSeq DEF Str
  <1>1. PICK w \in {0, 1, 2, 4}, n \in Nat : Measures(code, at, w, n) BY Measured
  <1>2. /\ ins.op = code[at] /\ ins.next = at + w + n + 1
        /\ ins.data = SubSeq(code, at + w + 1, at + w + n) /\ at + w + n <= Len(code)
    BY <1>1 DEF Measures
  <1> HIDE DEF ins
  <1>3. at + w + 1 \in Nat \ {0} /\ at + w + n \in Nat BY <1>0
  <1>4. ins.data \in Str BY <1>2, <1>3, SliceIn
  <1>5. Content(ins) \in Ins BY <1>0, <1>2, <1>4 DEF Content, Ins
  <1>6. Content(ins).op = ins.op BY DEF Content
  <1>7. ins.next \in at + 1 .. Len(code) + 1
    <2>1. ins.next = at + w + n + 1 /\ at + w + n <= Len(code) BY <1>2
    <2> QED BY <1>0, <2>1
  <1>8. \A k \in at .. ins.next - 1 : code[k] \in Byte
    <2>1. \A k \in at .. ins.next - 1 : k \in 1 .. Len(code) BY <1>0, <1>7
    <2> QED BY <2>1, ElementOfSeq DEF Str
  <1>9. /\ SubSeq(code, at, ins.next - 1) \in Str
        /\ Len(SubSeq(code, at, ins.next - 1)) = ins.next - at
        /\ \A k \in 1 .. ins.next - at : SubSeq(code, at, ins.next - 1)[k] = code[at + k - 1]
    <2>1. /\ ins.next - 1 \in Int /\ at \in Int /\ at <= ins.next - 1
          /\ ins.next - 1 - at + 1 = ins.next - at
      BY <1>0, <1>7
    <2> QED BY <1>8, <2>1, SubSeqProperties DEF Str
  <1> QED BY <1>0, <1>2, <1>5, <1>6, <1>7, <1>9 DEF ins

\* An instruction is read from its own bytes alone.
LEMMA SameInstruction ==
  ASSUME NEW code \in Str, NEW at \in 1 .. Len(code), Instruction(code, at).ok,
         NEW other \in Str, NEW there \in 1 .. Len(other),
         there + (Instruction(code, at).next - at) <= Len(other) + 1,
         \A k \in 0 .. Instruction(code, at).next - at - 1 : code[at + k] = other[there + k]
  PROVE  /\ Instruction(other, there).ok
         /\ Instruction(other, there).next = there + (Instruction(code, at).next - at)
         /\ Content(Instruction(other, there)) = Content(Instruction(code, at))
  <1>0. Len(code) \in Nat /\ Len(other) \in Nat /\ at \in Nat /\ there \in Nat
        /\ at # 0 /\ there # 0
    BY DEF Str
  <1>1. PICK w \in {0, 1, 2, 4}, n \in Nat : Measures(code, at, w, n) BY Measured
  <1>2. Instruction(code, at).next = at + w + n + 1 /\ at + w + n <= Len(code)
    BY <1>1 DEF Measures
  <1>3. Instruction(code, at).next - at = w + n + 1 /\ w \in Nat BY <1>0, <1>2
  <1>4. \A k \in 0 .. w + n : code[at + k] = other[there + k]
    <2>1. Instruction(code, at).next - at - 1 = w + n BY <1>0, <1>2
    <2> QED BY <2>1
  <1>5. there + w + n <= Len(other) BY <1>0, <1>3
  <1>6. other[there] = code[at]
    <2>1. 0 \in 0 .. w + n BY <1>3
    <2>2. code[at + 0] = other[there + 0] BY <1>4, <2>1
    <2> QED BY <1>0, <2>2
  <1>7. \A i \in 1 .. w + n + 1 : \A m \in 0 .. w + n + 1 - i :
          SubSeq(code, at + i, at + i + m - 1) = SubSeq(other, there + i, there + i + m - 1)
    <2> SUFFICES ASSUME NEW i \in 1 .. w + n + 1, NEW m \in 0 .. w + n + 1 - i
                 PROVE  SubSeq(code, at + i, at + i + m - 1)
                          = SubSeq(other, there + i, there + i + m - 1)
      OBVIOUS
    <2>1. at + i \in Nat \ {0} /\ there + i \in Nat \ {0} /\ m \in Nat BY <1>0, <1>3
    <2>2. (at + i) + m - 1 <= Len(code) /\ (there + i) + m - 1 <= Len(other)
      BY <1>0, <1>2, <1>3, <1>5
    <2>3. ASSUME NEW k \in 0 .. m - 1 PROVE code[(at + i) + k] = other[(there + i) + k]
      <3>1. i + k \in 0 .. w + n BY <1>3
      <3>2. code[at + (i + k)] = other[there + (i + k)] BY <1>4, <3>1
      <3>3. at + (i + k) = (at + i) + k /\ there + (i + k) = (there + i) + k BY <1>0
      <3> QED BY <3>2, <3>3
    <2> QED BY <2>1, <2>2, <2>3, SameSlice
  <1>8. SubSeq(code, at + 1, at + w) = SubSeq(other, there + 1, there + w)
    <2>1. 1 \in 1 .. w + n + 1 /\ w \in 0 .. w + n + 1 - 1 BY <1>3
    <2>2. at + 1 + w - 1 = at + w /\ there + 1 + w - 1 = there + w BY <1>0, <1>3
    <2> QED BY <1>7, <2>1, <2>2
  <1>9. SubSeq(code, at + w + 1, at + w + n) = SubSeq(other, there + w + 1, there + w + n)
    <2>1. w + 1 \in 1 .. w + n + 1 /\ n \in 0 .. w + n + 1 - (w + 1) BY <1>3
    <2>2. at + (w + 1) + n - 1 = at + w + n /\ there + (w + 1) + n - 1 = there + w + n
          /\ at + (w + 1) = at + w + 1 /\ there + (w + 1) = there + w + 1
      BY <1>0, <1>3
    <2>3. SubSeq(code, at + (w + 1), at + (w + 1) + n - 1)
            = SubSeq(other, there + (w + 1), there + (w + 1) + n - 1)
      BY <1>7, <2>1
    <2> QED BY <2>2, <2>3
  <1>10. w = LengthBytes(code[at]) /\ n = Operand(code[at], SubSeq(code, at + 1, at + w))
    BY <1>1 DEF Measures
  <1>11. Instruction(other, there) =
           IF there + w > Len(other) \/ there + w + n > Len(other) THEN None
           ELSE [ok |-> TRUE, op |-> code[at],
                 next |-> there + w + n + 1, data |-> SubSeq(other, there + w + 1, there + w + n)]
    BY <1>6, <1>8, <1>10, InstructionIs
  <1>12. ~ (there + w > Len(other)) /\ ~ (there + w + n > Len(other)) BY <1>0, <1>3, <1>5
  <1>13. Instruction(other, there) =
           [ok |-> TRUE, op |-> code[at],
            next |-> there + w + n + 1, data |-> SubSeq(code, at + w + 1, at + w + n)]
    BY <1>9, <1>11, <1>12
  <1>14. Content(Instruction(other, there)) = Content(Instruction(code, at))
    BY <1>1, <1>13 DEF Content, Measures
  <1>15. there + w + n + 1 = there + (w + n + 1) BY <1>0, <1>3
  <1> QED BY <1>3, <1>13, <1>14, <1>15

\* p holds where the instructions of the list start, and where the last one ends.
Places(code, list, p) ==
    \A k \in 1 .. Len(list) :
        /\ p[k - 1] \in 1 .. Len(code)
        /\ Instruction(code, p[k - 1]).ok
        /\ p[k] = Instruction(code, p[k - 1]).next
        /\ list[k] = Content(Instruction(code, p[k - 1]))

\* The bytes of the code from one position up to another are these instructions.
Cuts(code, at, list, end) ==
    /\ code \in Str /\ list \in Seq(Ins)
    /\ \E p \in [0 .. Len(list) -> 1 .. Len(code) + 1] :
         Places(code, list, p) /\ p[0] = at /\ p[Len(list)] = end

LEMMA CutsTyped ==
  ASSUME NEW code, NEW at, NEW list, NEW end, Cuts(code, at, list, end)
  PROVE  /\ code \in Str /\ list \in Seq(Ins) /\ Len(code) \in Nat /\ Len(list) \in Nat
         /\ at \in 1 .. Len(code) + 1 /\ end \in 1 .. Len(code) + 1
         /\ list = <<>> => at = end
  <1>1. code \in Str /\ list \in Seq(Ins) /\ Len(code) \in Nat /\ Len(list) \in Nat
    BY LenProperties DEF Cuts, Str
  <1>2. PICK p \in [0 .. Len(list) -> 1 .. Len(code) + 1] :
          Places(code, list, p) /\ p[0] = at /\ p[Len(list)] = end
    BY DEF Cuts
  <1>3. 0 \in 0 .. Len(list) /\ Len(list) \in 0 .. Len(list) BY <1>1
  <1> QED BY <1>1, <1>2, <1>3

LEMMA NoCut ==
  ASSUME NEW code \in Str, NEW at \in 1 .. Len(code) + 1
  PROVE  Cuts(code, at, <<>>, at)
  <1> DEFINE p == [k \in 0 .. 0 |-> at]
  <1>1. p \in [0 .. 0 -> 1 .. Len(code) + 1] /\ p[0] = at OBVIOUS
  <1>2. <<>> \in Seq(Ins) /\ Len(<<>>) = 0 OBVIOUS
  <1> HIDE DEF p
  <1>3. Places(code, <<>>, p) BY <1>2 DEF Places
  <1> QED BY <1>1, <1>2, <1>3 DEF Cuts

\* The first instruction and those behind it.
LEMMA CutsHead ==
  ASSUME NEW code, NEW at, NEW list, NEW end, Cuts(code, at, list, end), list # <<>>
  PROVE  /\ at \in 1 .. Len(code)
         /\ Instruction(code, at).ok
         /\ list[1] = Content(Instruction(code, at))
         /\ Cuts(code, Instruction(code, at).next, Tail(list), end)
  <1>0. code \in Str /\ list \in Seq(Ins) /\ Len(code) \in Nat /\ Len(list) \in Nat
    BY CutsTyped
  <1>1. Len(list) # 0 BY <1>0
  <1>2. PICK p \in [0 .. Len(list) -> 1 .. Len(code) + 1] :
          Places(code, list, p) /\ p[0] = at /\ p[Len(list)] = end
    BY DEF Cuts
  <1> DEFINE n == Len(list) - 1
             q == [k \in 0 .. n |-> p[k + 1]]
             rest == Tail(list)
  <1>3. rest \in Seq(Ins) /\ Len(rest) = n /\ \A k \in 1 .. n : rest[k] = list[k + 1]
    BY <1>0, <1>1, HeadTailProperties
  <1>4. /\ at \in 1 .. Len(code) /\ Instruction(code, at).ok
        /\ p[1] = Instruction(code, at).next
        /\ list[1] = Content(Instruction(code, at))
    <2>1. 1 \in 1 .. Len(list) /\ 1 - 1 = 0 BY <1>0, <1>1
    <2> QED BY <1>2, <2>1 DEF Places
  <1>5. n \in Nat /\ n + 1 = Len(list) BY <1>0, <1>1
  <1>6. q \in [0 .. n -> 1 .. Len(code) + 1] BY <1>2, <1>5
  <1>7. q[0] = p[1] /\ q[n] = end
    <2>1. 0 \in 0 .. n /\ n \in 0 .. n BY <1>5
    <2> QED BY <1>2, <1>5, <2>1
  <1>8. \A k \in 0 .. n : q[k] = p[k + 1] OBVIOUS
  <1> HIDE DEF n, q, rest
  <1>9. Places(code, rest, q)
    <2> SUFFICES ASSUME NEW k \in 1 .. n
                 PROVE  /\ q[k - 1] \in 1 .. Len(code)
                        /\ Instruction(code, q[k - 1]).ok
                        /\ q[k] = Instruction(code, q[k - 1]).next
                        /\ rest[k] = Content(Instruction(code, q[k - 1]))
      BY <1>3 DEF Places
    <2>1. k - 1 \in 0 .. n /\ k \in 0 .. n /\ k + 1 \in 1 .. Len(list) /\ (k - 1) + 1 = k
          /\ (k + 1) - 1 = k
      BY <1>5
    <2>2. q[k - 1] = p[k] /\ q[k] = p[k + 1] BY <1>8, <2>1
    <2>3. /\ p[(k + 1) - 1] \in 1 .. Len(code)
          /\ Instruction(code, p[(k + 1) - 1]).ok
          /\ p[k + 1] = Instruction(code, p[(k + 1) - 1]).next
          /\ list[k + 1] = Content(Instruction(code, p[(k + 1) - 1]))
      BY <1>2, <2>1 DEF Places
    <2> QED BY <1>3, <2>1, <2>2, <2>3
  <1>10. Cuts(code, Instruction(code, at).next, rest, end)
    BY <1>0, <1>3, <1>4, <1>6, <1>7, <1>9 DEF Cuts
  <1> QED BY <1>4, <1>10 DEF rest

\* One more instruction.
LEMMA CutsOneMore ==
  ASSUME NEW code, NEW at, NEW list, NEW end, Cuts(code, at, list, end),
         end <= Len(code), Instruction(code, end).ok
  PROVE  Cuts(code, at, Append(list, Content(Instruction(code, end))), Instruction(code, end).next)
  <1> DEFINE ins == Instruction(code, end)
             more == Append(list, Content(ins))
             n == Len(list)
  <1>0. code \in Str /\ list \in Seq(Ins) /\ Len(code) \in Nat /\ n \in Nat
        /\ end \in 1 .. Len(code)
    BY CutsTyped
  <1>1. PICK p \in [0 .. n -> 1 .. Len(code) + 1] :
          Places(code, list, p) /\ p[0] = at /\ p[n] = end
    BY DEF Cuts
  <1>2. ins.next \in 1 .. Len(code) + 1 /\ Content(ins) \in Ins
    <2>1. ins.next \in end + 1 .. Len(code) + 1 /\ Content(ins) \in Ins BY <1>0, InstructionReads
    <2> HIDE DEF ins
    <2> QED BY <1>0, <2>1
  <1> HIDE DEF ins
  <1>3. more \in Seq(Ins) /\ Len(more) = n + 1 /\ (\A k \in 1 .. n : more[k] = list[k])
        /\ more[n + 1] = Content(ins)
    BY <1>0, <1>2, AppendProperties
  <1> DEFINE q == [k \in 0 .. n + 1 |-> IF k <= n THEN p[k] ELSE ins.next]
  <1>4. q \in [0 .. n + 1 -> 1 .. Len(code) + 1]
    <2> HIDE DEF n
    <2> QED BY <1>0, <1>1, <1>2
  <1>5. (\A k \in 0 .. n : q[k] = p[k]) /\ q[n + 1] = ins.next
    <2> HIDE DEF n
    <2> QED BY <1>0
  <1> HIDE DEF n, q, more
  <1>6. q[0] = at
    <2>1. 0 \in 0 .. n BY <1>0
    <2> QED BY <1>1, <1>5, <2>1
  <1>7. Places(code, more, q)
    <2> SUFFICES ASSUME NEW k \in 1 .. n + 1
                 PROVE  /\ q[k - 1] \in 1 .. Len(code)
                        /\ Instruction(code, q[k - 1]).ok
                        /\ q[k] = Instruction(code, q[k - 1]).next
                        /\ more[k] = Content(Instruction(code, q[k - 1]))
      BY <1>3 DEF Places
    <2>1. CASE k <= n
      <3>1. k \in 1 .. n /\ k - 1 \in 0 .. n /\ k \in 0 .. n BY <1>0, <2>1
      <3>2. q[k - 1] = p[k - 1] /\ q[k] = p[k] BY <1>5, <3>1
      <3>3. more[k] = list[k] BY <1>3, <3>1
      <3>4. /\ p[k - 1] \in 1 .. Len(code)
            /\ Instruction(code, p[k - 1]).ok
            /\ p[k] = Instruction(code, p[k - 1]).next
            /\ list[k] = Content(Instruction(code, p[k - 1]))
        BY <1>1, <3>1 DEF Places, n
      <3> QED BY <3>2, <3>3, <3>4
    <2>2. CASE ~ (k <= n)
      <3>1. k = n + 1 /\ k - 1 = n /\ n \in 0 .. n BY <1>0, <2>2
      <3>2. q[k - 1] = end /\ q[k] = ins.next /\ more[k] = Content(ins) BY <1>1, <1>3, <1>5, <3>1
      <3> QED BY <1>0, <3>2 DEF ins
    <2> QED BY <2>1, <2>2
  <1>8. Cuts(code, at, more, ins.next) BY <1>0, <1>3, <1>4, <1>5, <1>6, <1>7 DEF Cuts
  <1> QED BY <1>8 DEF more, ins

\* They are the same with more bytes behind them.
LEMMA CutsWithMore ==
  ASSUME NEW code, NEW at, NEW list, NEW end, Cuts(code, at, list, end), NEW more \in Str
  PROVE  Cuts(code \o more, at, list, end)
  <1> DEFINE all == code \o more
  <1>0. code \in Str /\ list \in Seq(Ins) /\ Len(code) \in Nat /\ Len(list) \in Nat
        /\ Len(more) \in Nat
    BY CutsTyped, LenProperties DEF Str
  <1>1. PICK p \in [0 .. Len(list) -> 1 .. Len(code) + 1] :
          Places(code, list, p) /\ p[0] = at /\ p[Len(list)] = end
    BY DEF Cuts
  <1>2. all \in Str /\ Len(all) = Len(code) + Len(more) /\ \A k \in 1 .. Len(code) : all[k] = code[k]
    BY <1>0, ConcatProperties DEF Str
  <1> HIDE DEF all
  <1>3. p \in [0 .. Len(list) -> 1 .. Len(all) + 1] BY <1>0, <1>2
  <1>4. Places(all, list, p)
    <2> SUFFICES ASSUME NEW k \in 1 .. Len(list)
                 PROVE  /\ p[k - 1] \in 1 .. Len(all)
                        /\ Instruction(all, p[k - 1]).ok
                        /\ p[k] = Instruction(all, p[k - 1]).next
                        /\ list[k] = Content(Instruction(all, p[k - 1]))
      BY DEF Places
    <2>1. /\ p[k - 1] \in 1 .. Len(code)
          /\ Instruction(code, p[k - 1]).ok
          /\ p[k] = Instruction(code, p[k - 1]).next
          /\ list[k] = Content(Instruction(code, p[k - 1]))
      BY <1>1 DEF Places
    <2>2. PICK x \in 1 .. Len(code) : x = p[k - 1] BY <2>1
    <2>3. PICK next : next = Instruction(code, x).next OBVIOUS
    <2>4. next \in x + 1 .. Len(code) + 1 BY <1>0, <2>1, <2>2, <2>3, InstructionReads
    <2>5. x \in 1 .. Len(all) /\ x + (next - x) <= Len(all) + 1 /\ x + (next - x) = next
      BY <1>0, <1>2, <2>4
    <2>6. ASSUME NEW j \in 0 .. next - x - 1 PROVE code[x + j] = all[x + j]
      <3>1. x + j \in 1 .. Len(code) BY <1>0, <2>4
      <3> QED BY <1>2, <3>1
    <2>7. /\ Instruction(all, x).ok
          /\ Instruction(all, x).next = x + (next - x)
          /\ Content(Instruction(all, x)) = Content(Instruction(code, x))
      <3>1. x + (Instruction(code, x).next - x) <= Len(all) + 1 BY <2>3, <2>5
      <3>2. \A j \in 0 .. Instruction(code, x).next - x - 1 : code[x + j] = all[x + j]
        BY <2>3, <2>6
      <3>3. Instruction(code, x).ok BY <2>1, <2>2
      <3> QED BY <1>0, <1>2, <2>3, <2>5, <3>1, <3>2, <3>3, SameInstruction
    <2> QED BY <2>1, <2>2, <2>3, <2>5, <2>7
  <1>5. Cuts(all, at, list, end) BY <1>0, <1>1, <1>2, <1>3, <1>4 DEF Cuts
  <1> QED BY <1>5 DEF all

\* All instructions of a script from a position on.
Parses(code, at, list) == Cuts(code, at, list, Len(code) + 1)

\* An instruction is copied to the end of a script with its bytes.
LEMMA ParsesCopied ==
  ASSUME NEW code, NEW list, Parses(code, 1, list),
         NEW other \in Str, NEW at \in 1 .. Len(other), Instruction(other, at).ok
  PROVE  Parses(code \o SubSeq(other, at, Instruction(other, at).next - 1), 1,
                Append(list, Content(Instruction(other, at))))
  <1> DEFINE ins == Instruction(other, at)
             raw == SubSeq(other, at, ins.next - 1)
             all == code \o raw
             here == Len(code) + 1
             m == ins.next - at
  <1>0. code \in Str /\ list \in Seq(Ins) /\ Len(code) \in Nat /\ Len(other) \in Nat
    BY CutsTyped DEF Parses, Str
  <1>1. /\ raw \in Str /\ Len(raw) = m /\ ins.next \in at + 1 .. Len(other) + 1
        /\ \A k \in 1 .. m : raw[k] = other[at + k - 1]
    BY InstructionReads
  <1>2. m \in Nat /\ m > 0 /\ ins.next = at + m
    <2> HIDE DEF ins
    <2> QED BY <1>0, <1>1
  <1> HIDE DEF ins, raw
  <1>3. all \in Str /\ Len(all) = Len(code) + m /\ \A k \in 1 .. m : all[Len(code) + k] = raw[k]
    <2> HIDE DEF m
    <2>1. all \in Str /\ Len(all) = Len(code) + m BY <1>0, <1>1, ConcatProperties DEF Str
    <2>2. ASSUME NEW k \in 1 .. m PROVE all[Len(code) + k] = raw[k]
      <3>1. /\ Len(code) + k \in 1 .. Len(code) + Len(raw) /\ ~ (Len(code) + k <= Len(code))
            /\ (Len(code) + k) - Len(code) = k
        BY <1>0, <1>1, <1>2
      <3> QED BY <1>0, <1>1, <3>1, ConcatProperties DEF Str
    <2> QED BY <2>1, <2>2
  <1>4. Cuts(all, 1, list, here) BY <1>1, CutsWithMore DEF Parses
  <1> HIDE DEF m, all
  <1>5. here \in 1 .. Len(all) /\ here + m = Len(all) + 1 BY <1>0, <1>2, <1>3
  <1>6. ASSUME NEW k \in 0 .. m - 1 PROVE other[at + k] = all[here + k]
    <2>1. k + 1 \in 1 .. m BY <1>2
    <2>2. all[Len(code) + (k + 1)] = raw[k + 1] /\ raw[k + 1] = other[at + (k + 1) - 1]
      BY <1>1, <1>3, <2>1
    <2>3. Len(code) + (k + 1) = here + k /\ at + (k + 1) - 1 = at + k BY <1>0
    <2> QED BY <2>2, <2>3
  <1>7. /\ Instruction(all, here).ok
        /\ Instruction(all, here).next = here + m
        /\ Content(Instruction(all, here)) = Content(ins)
    <2>1. ins.next - at = m BY DEF m
    <2>2. here + (ins.next - at) <= Len(all) + 1 BY <1>0, <1>2, <1>3, <2>1
    <2> HIDE DEF here
    <2> QED BY <1>3, <1>5, <1>6, <2>1, <2>2, SameInstruction DEF ins
  <1>8. Cuts(all, 1, Append(list, Content(ins)), here + m)
    <2>1. here <= Len(all) BY <1>5
    <2> HIDE DEF here
    <2> QED BY <1>4, <1>7, <2>1, CutsOneMore
  <1>9. Parses(all, 1, Append(list, Content(ins))) BY <1>5, <1>8 DEF Parses
  <1> QED BY <1>9 DEF all, raw, ins

LEMMA ParsesEnd ==
  ASSUME NEW code, NEW at, NEW list, Parses(code, at, list)
  PROVE  list = <<>> <=> at > Len(code)
  <1>1. Len(code) \in Nat /\ at \in 1 .. Len(code) + 1 /\ (list = <<>> => at = Len(code) + 1)
    BY CutsTyped DEF Parses
  <1>2. list # <<>> => at \in 1 .. Len(code) BY CutsHead DEF Parses
  <1> QED BY <1>1, <1>2

\* The states of the reader of a script: all well so far, or it was cut short.
ReadWell(list, at) == [ok |-> TRUE, list |-> list, at |-> at]
ReadShort(list, at) == [ok |-> FALSE, list |-> list, at |-> at]

LEMMA ReadOnAtEnd ==
  ASSUME NEW code, NEW list, NEW at, NEW s,
         s = ReadShort(list, at) \/ (at > Len(code) /\ s = ReadWell(list, at))
  PROVE  ReadOn(code, s) = s
  BY DEF ReadOn, ReadWell, ReadShort

LEMMA RecordChanges ==
  ASSUME NEW ok, NEW list, NEW at, NEW s, s = [ok |-> ok, list |-> list, at |-> at], NEW x
  PROVE  /\ [s EXCEPT !.ok = x] = [ok |-> x, list |-> list, at |-> at]
         /\ [s EXCEPT !.at = x] = [ok |-> ok, list |-> list, at |-> x]
         /\ [s EXCEPT !.list = x] = [ok |-> ok, list |-> x, at |-> at]
  <1>1. [s EXCEPT !.ok = x] = [ok |-> x, list |-> list, at |-> at] OBVIOUS
  <1>2. [s EXCEPT !.at = x] = [ok |-> ok, list |-> list, at |-> x] OBVIOUS
  <1>3. [s EXCEPT !.list = x] = [ok |-> ok, list |-> x, at |-> at] OBVIOUS
  <1> QED BY <1>1, <1>2, <1>3

LEMMA ReadOnReads ==
  ASSUME NEW code, NEW list, NEW at, ~ (at > Len(code)), NEW s, s = ReadWell(list, at)
  PROVE  ReadOn(code, s) =
           IF Instruction(code, at).ok
           THEN ReadWell(Append(list, Content(Instruction(code, at))), Instruction(code, at).next)
           ELSE ReadShort(list, at)
  <1>1. s.ok /\ s.at = at /\ s.list = list BY DEF ReadWell
  <1>2. PICK next : next = Instruction(code, at).next OBVIOUS
  <1>3. PICK more : more = Append(list, Content(Instruction(code, at))) OBVIOUS
  <1>4. PICK ok : ok = TRUE OBVIOUS
  <1>5. PICK short : short = FALSE OBVIOUS
  <1>6. ReadOn(code, s) =
          IF Instruction(code, at).ok THEN [s EXCEPT !.at = next, !.list = more]
          ELSE [s EXCEPT !.ok = short]
    BY <1>1, <1>2, <1>3, <1>5 DEF ReadOn
  <1>7. s = [ok |-> ok, list |-> list, at |-> at] BY <1>4, Zenon DEF ReadWell
  <1>8. /\ ReadShort(list, at) = [ok |-> short, list |-> list, at |-> at]
        /\ ReadWell(more, next) = [ok |-> ok, list |-> more, at |-> next]
    BY <1>4, <1>5, Zenon DEF ReadShort, ReadWell
  <1>9. [s EXCEPT !.ok = short] = [ok |-> short, list |-> list, at |-> at] BY <1>7, RecordChanges
  <1>10. PICK t : t = [s EXCEPT !.at = next] OBVIOUS
  <1>11. t = [ok |-> ok, list |-> list, at |-> next] BY <1>7, <1>10, RecordChanges
  <1>12. [t EXCEPT !.list = more] = [ok |-> ok, list |-> more, at |-> next] BY <1>11, RecordChanges
  <1>13. [s EXCEPT !.at = next, !.list = more] = [[s EXCEPT !.at = next] EXCEPT !.list = more]
    OBVIOUS
  <1>14. [s EXCEPT !.at = next, !.list = more] = ReadWell(more, next)
    BY <1>8, <1>10, <1>12, <1>13, Zenon
  <1>15. [s EXCEPT !.ok = short] = ReadShort(list, at) BY <1>8, <1>9
  <1> QED BY <1>2, <1>3, <1>6, <1>14, <1>15

\* What k rounds have read, if the script was not cut short.
ReadSoFar(code, s, k) ==
    \/ \E list, at : s = ReadShort(list, at)
    \/ \E list, at : /\ s = ReadWell(list, at)
                     /\ Cuts(code, 1, list, at)
                     /\ at > k \/ at = Len(code) + 1

LEMMA ReadOnKeeps ==
  ASSUME NEW code \in Str, NEW k \in Nat \ {0}, NEW s, ReadSoFar(code, s, k - 1)
  PROVE  ReadSoFar(code, ReadOn(code, s), k)
  <1>1. CASE \E list, at : s = ReadShort(list, at)
    <2>1. PICK list, at : s = ReadShort(list, at) BY <1>1
    <2>2. ReadOn(code, s) = s BY <2>1, ReadOnAtEnd
    <2> QED BY <2>1, <2>2 DEF ReadSoFar
  <1>2. CASE \E list, at : /\ s = ReadWell(list, at)
                           /\ Cuts(code, 1, list, at)
                           /\ at > k - 1 \/ at = Len(code) + 1
    <2>1. PICK list, at : /\ s = ReadWell(list, at)
                          /\ Cuts(code, 1, list, at)
                          /\ at > k - 1 \/ at = Len(code) + 1
      BY <1>2
    <2>2. Len(code) \in Nat /\ at \in 1 .. Len(code) + 1 BY <2>1, CutsTyped
    <2>3. CASE at > Len(code)
      <3>1. at = Len(code) + 1 BY <2>2, <2>3
      <3>2. ReadOn(code, s) = s BY <2>1, <2>3, ReadOnAtEnd
      <3> QED BY <2>1, <3>1, <3>2 DEF ReadSoFar
    <2>4. CASE ~ (at > Len(code)) /\ Instruction(code, at).ok
      <3> DEFINE next == Instruction(code, at).next
                 more == Append(list, Content(Instruction(code, at)))
      <3>1. at \in 1 .. Len(code) /\ at <= Len(code) BY <2>2, <2>4
      <3>2. Cuts(code, 1, more, next) BY <2>1, <2>4, <3>1, CutsOneMore
      <3>3. next \in at + 1 .. Len(code) + 1 BY <2>4, <3>1, InstructionReads
      <3>4. ReadOn(code, s) = ReadWell(more, next) BY <2>1, <2>4, ReadOnReads
      <3> HIDE DEF next, more
      <3>5. next > k BY <2>1, <2>2, <2>4, <3>3
      <3> QED BY <3>2, <3>4, <3>5 DEF ReadSoFar
    <2>5. CASE ~ (at > Len(code)) /\ ~Instruction(code, at).ok
      <3>1. ReadOn(code, s) = ReadShort(list, at) BY <2>1, <2>5, ReadOnReads
      <3> QED BY <3>1 DEF ReadSoFar
    <2> QED BY <2>3, <2>4, <2>5
  <1> QED BY <1>1, <1>2 DEF ReadSoFar

LEMMA ReadToTheEnd ==
  ASSUME NEW code \in Str
  PROVE  ReadSoFar(code, Instructions(code, 1), Len(code))
  <1> DEFINE n == Len(code)
             first == ReadWell(<<>>, 1)
  <1>0. n \in Nat BY DEF Str
  <1>1. first = [ok |-> TRUE, list |-> <<>>, at |-> 1] BY DEF ReadWell
  <1> HIDE DEF first
  <1>2. PICK f : ReadStates(f, n, code, first) /\ Instructions(code, 1) = f[n]
    BY <1>0, <1>1, ReadRounds
  <1> HIDE DEF n
  <1> DEFINE H == {k \in 0 .. n : ReadSoFar(code, f[k], k)}
  <1>3. 0 \in H
    <2>1. Cuts(code, 1, <<>>, 1)
      <3>1. 1 \in 1 .. Len(code) + 1 BY <1>0 DEF n
      <3> QED BY <3>1, NoCut
    <2>2. f[0] = ReadWell(<<>>, 1) BY <1>2 DEF ReadStates, first
    <2>3. ReadSoFar(code, f[0], 0)
      <3>1. 1 > 0 OBVIOUS
      <3> QED BY <2>1, <2>2, <3>1 DEF ReadSoFar
    <2> QED BY <1>0, <2>3
  <1>4. ASSUME NEW k \in 1 .. n, k - 1 \in H PROVE k \in H
    <2>1. f[k] = ReadOn(code, f[k - 1]) BY <1>2 DEF ReadStates
    <2>2. k \in Nat \ {0} /\ k \in 0 .. n /\ ReadSoFar(code, f[k - 1], k - 1) BY <1>4
    <2>3. ReadSoFar(code, ReadOn(code, f[k - 1]), k) BY <2>2, ReadOnKeeps
    <2> QED BY <2>1, <2>2, <2>3
  <1>5. n \in H
    <2>1. n \in 0 .. n BY <1>0
    <2> HIDE DEF H
    <2> QED BY <1>0, <1>3, <1>4, <2>1, CountUp
  <1>6. ReadSoFar(code, f[n], n) BY <1>5
  <1> QED BY <1>2, <1>6 DEF n

\* What is read of a script that is not cut short is all of it.
LEMMA InstructionsParse ==
  ASSUME NEW code \in Str, Instructions(code, 1).ok
  PROVE  Parses(code, 1, Instructions(code, 1).list)
  <1> DEFINE all == Instructions(code, 1)
  <1>1. ReadSoFar(code, all, Len(code)) BY ReadToTheEnd
  <1> HIDE DEF all
  <1>2. ~ \E list, at : all = ReadShort(list, at) BY DEF ReadShort, all
  <1>3. PICK list, at : /\ all = ReadWell(list, at)
                        /\ Cuts(code, 1, list, at)
                        /\ at > Len(code) \/ at = Len(code) + 1
    BY <1>1, <1>2 DEF ReadSoFar
  <1>4. Len(code) \in Nat /\ at \in 1 .. Len(code) + 1 BY <1>3, CutsTyped
  <1>5. at = Len(code) + 1 BY <1>3, <1>4
  <1>6. all.list = list BY <1>3 DEF ReadWell
  <1> QED BY <1>3, <1>5, <1>6 DEF Parses, all

\* A script that parses is read to its end, and its instructions are those read.
LEMMA ParsedAreRead ==
  ASSUME NEW code, NEW list, Parses(code, 1, list)
  PROVE  Instructions(code, 1).ok /\ Instructions(code, 1).list = list
  <1> DEFINE n == Len(code)
             first == ReadWell(<<>>, 1)
             Left(k, s) == \E l, at, rest : /\ s = ReadWell(l, at)
                                            /\ l \in Seq(Ins)
                                            /\ Parses(code, at, rest)
                                            /\ l \o rest = list
                                            /\ at > k \/ at = Len(code) + 1
  <1>0. n \in Nat /\ code \in Str /\ list \in Seq(Ins) BY CutsTyped DEF Parses
  <1>1. first = [ok |-> TRUE, list |-> <<>>, at |-> 1] BY DEF ReadWell
  <1> HIDE DEF first
  <1>2. PICK f : ReadStates(f, n, code, first) /\ Instructions(code, 1) = f[n]
    BY <1>0, <1>1, ReadRounds
  <1> HIDE DEF n
  <1> DEFINE H == {k \in 0 .. n : Left(k, f[k])}
  <1>3. 0 \in H
    <2>1. f[0] = ReadWell(<<>>, 1) BY <1>2 DEF ReadStates, first
    <2>2. <<>> \in Seq(Ins) /\ <<>> \o list = list BY <1>0, ConcatEmptySeq
    <2>3. 1 > 0 OBVIOUS
    <2>4. Left(0, f[0]) BY <2>1, <2>2, <2>3
    <2> HIDE DEF Left
    <2> QED BY <1>0, <2>4
  <1>4. ASSUME NEW k \in 1 .. n, k - 1 \in H PROVE k \in H
    <2>1. f[k] = ReadOn(code, f[k - 1]) BY <1>2 DEF ReadStates
    <2>2. k \in Nat \ {0} /\ k \in 0 .. n BY <1>0
    <2>3. Left(k - 1, f[k - 1])
      <3> HIDE DEF Left
      <3> QED BY <1>4
    <2>4. PICK l, at, rest : /\ f[k - 1] = ReadWell(l, at)
                             /\ l \in Seq(Ins)
                             /\ Parses(code, at, rest)
                             /\ l \o rest = list
                             /\ at > k - 1 \/ at = Len(code) + 1
      BY <2>3
    <2>5. Len(code) \in Nat /\ at \in 1 .. Len(code) + 1 /\ rest \in Seq(Ins)
      BY <2>4, CutsTyped DEF Parses
    <2>6. CASE at > Len(code)
      <3>1. at = Len(code) + 1 BY <2>5, <2>6
      <3>2. f[k] = f[k - 1] BY <2>1, <2>4, <2>6, ReadOnAtEnd
      <3>3. Left(k, f[k]) BY <2>4, <3>1, <3>2
      <3> HIDE DEF Left
      <3> QED BY <2>2, <3>3
    <2>7. CASE ~ (at > Len(code))
      <3> DEFINE next == Instruction(code, at).next
                 ins == Content(Instruction(code, at))
      <3>1. rest # <<>> BY <2>4, <2>7, ParsesEnd
      <3>2. /\ at \in 1 .. Len(code) /\ Instruction(code, at).ok /\ rest[1] = ins
            /\ Parses(code, next, Tail(rest))
        BY <2>4, <3>1, CutsHead DEF Parses
      <3>3. next \in at + 1 .. Len(code) + 1 /\ ins \in Ins BY <1>0, <3>2, InstructionReads
      <3>4. f[k] = ReadWell(Append(l, ins), next) BY <2>1, <2>4, <2>7, <3>2, ReadOnReads
      <3> HIDE DEF next, ins
      <3>5. next > k BY <2>2, <2>4, <2>5, <2>7, <3>3
      <3>6. Append(l, ins) \in Seq(Ins) BY <2>4, <3>3
      <3>7. Append(l, ins) \o Tail(rest) = list
        <4>1. Append(l, ins) = l \o <<ins>> BY <2>4, <3>3, AppendIsConcat
        <4>2. Tail(rest) \in Seq(Ins) /\ <<ins>> \in Seq(Ins)
          BY <2>5, <3>1, <3>3, HeadTailProperties
        <4>3. <<ins>> \o Tail(rest) = rest BY <2>5, <3>1, <3>2
        <4>4. (l \o <<ins>>) \o Tail(rest) = l \o (<<ins>> \o Tail(rest))
          BY <2>4, <4>2, ConcatAssociative
        <4> QED BY <2>4, <4>1, <4>3, <4>4
      <3>8. Left(k, f[k]) BY <3>2, <3>4, <3>5, <3>6, <3>7
      <3> HIDE DEF Left
      <3> QED BY <2>2, <3>8
    <2> QED BY <2>6, <2>7
  <1>5. n \in H
    <2>1. n \in 0 .. n BY <1>0
    <2> HIDE DEF H
    <2> QED BY <1>0, <1>3, <1>4, <2>1, CountUp
  <1>6. Left(n, f[n])
    <2> HIDE DEF Left
    <2> QED BY <1>5
  <1>7. PICK l, at, rest : /\ f[n] = ReadWell(l, at)
                           /\ l \in Seq(Ins)
                           /\ Parses(code, at, rest)
                           /\ l \o rest = list
                           /\ at > n \/ at = Len(code) + 1
    BY <1>6
  <1>8. rest = <<>>
    <2>1. at > Len(code) BY <1>0, <1>7 DEF n
    <2> QED BY <1>7, <2>1, ParsesEnd
  <1>9. l = list BY <1>7, <1>8, ConcatEmptySeq
  <1> QED BY <1>2, <1>7, <1>9 DEF ReadWell

(*------------------------- one element before a sequence -------------------------*)

LEMMA HeadAndTail ==
  ASSUME NEW V, NEW s \in Seq(V), s # <<>>
  PROVE  s[1] \in V /\ Tail(s) \in Seq(V) /\ Len(Tail(s)) = Len(s) - 1 /\ s = <<s[1]>> \o Tail(s)
         /\ Len(s) \in Nat \ {0}
  BY HeadTailProperties

LEMMA Before1 ==
  ASSUME NEW V, NEW x \in V, NEW s \in Seq(V)
  PROVE  /\ <<x>> \o s \in Seq(V) /\ Len(<<x>> \o s) = Len(s) + 1 /\ <<x>> \o s # <<>>
         /\ (<<x>> \o s)[1] = x
         /\ \A k \in 1 .. Len(s) : (<<x>> \o s)[k + 1] = s[k]
         /\ Tail(<<x>> \o s) = s
  <1>1. PICK t : t = <<x>> \o s OBVIOUS
  <1>2. <<x>> \in Seq(V) /\ Len(<<x>>) = 1 /\ <<x>>[1] = x OBVIOUS
  <1>3. /\ t \in Seq(V) /\ Len(t) = 1 + Len(s)
        /\ \A i \in 1 .. 1 + Len(s) : t[i] = IF i <= 1 THEN <<x>>[i] ELSE s[i - 1]
    BY <1>1, <1>2, ConcatProperties
  <1>4. Len(s) \in Nat OBVIOUS
  <1>5. t[1] = x
    <2>1. 1 \in 1 .. 1 + Len(s) BY <1>4
    <2> QED BY <1>2, <1>3, <2>1
  <1>6. ASSUME NEW k \in 1 .. Len(s) PROVE t[k + 1] = s[k]
    <2>1. k + 1 \in 1 .. 1 + Len(s) /\ ~ (k + 1 <= 1) /\ k + 1 - 1 = k BY <1>4
    <2> QED BY <1>3, <2>1
  <1>7. t # <<>> BY <1>3, <1>4
  <1>8. Tail(t) = s
    <2>1. Tail(t) \in Seq(V) /\ Len(Tail(t)) = Len(s) /\ \A k \in 1 .. Len(s) : Tail(t)[k] = t[k + 1]
      BY <1>3, <1>4, <1>7, HeadTailProperties
    <2>2. \A k \in 1 .. Len(Tail(t)) : Tail(t)[k] = s[k] BY <1>6, <2>1
    <2> QED BY <2>1, <2>2, SeqEqual
  <1>9. Len(t) = Len(s) + 1 BY <1>3, <1>4
  <1> QED BY <1>1, <1>3, <1>5, <1>6, <1>7, <1>8, <1>9

LEMMA FrontAndLast ==
  ASSUME NEW V, NEW s \in Seq(V), s # <<>>
  PROVE  Front(s) \in Seq(V) /\ Len(Front(s)) = Len(s) - 1 /\ Last(s) \in V
         /\ (\A k \in 1 .. Len(s) - 1 : Front(s)[k] = s[k])
         /\ s = Append(Front(s), Last(s))
  <1>1. Len(s) \in Nat \ {0} /\ \A k \in 1 .. Len(s) : s[k] \in V BY EmptySeq, ElementOfSeq
  <1>2. Front(s) \in Seq(V) /\ Len(Front(s)) = Len(s) - 1 /\ \A k \in 1 .. Len(s) - 1 : Front(s)[k] = s[k]
    <2>1. PICK n \in Nat : n = Len(s) - 1 BY <1>1
    <2>2. \A k \in 1 .. n : s[k] \in V BY <1>1, <2>1
    <2>3. PICK f : f = SubSeq(s, 1, n) OBVIOUS
    <2>4. /\ f \in Seq(V) /\ Len(f) = (IF 1 <= n THEN n - 1 + 1 ELSE 0)
          /\ \A i \in 1 .. n - 1 + 1 : f[i] = s[1 + i - 1]
      BY <2>2, <2>3, SubSeqProperties
    <2>5. Len(f) = n BY <2>4
    <2>6. \A i \in 1 .. n : f[i] = s[i]
      <3>1. \A i \in 1 .. n : i \in 1 .. n - 1 + 1 /\ 1 + i - 1 = i OBVIOUS
      <3> QED BY <2>4, <3>1
    <2>7. Front(s) = f BY <2>1, <2>3 DEF Front
    <2> QED BY <2>1, <2>4, <2>5, <2>6, <2>7
  <1>3. Last(s) \in V /\ Last(s) = s[Len(s)] BY <1>1 DEF Last
  <1>4. PICK f : f = Front(s) OBVIOUS
  <1>5. PICK t : t = Append(f, Last(s)) OBVIOUS
  <1>6. t \in Seq(V) /\ Len(t) = Len(f) + 1 /\ (\A i \in 1 .. Len(f) : t[i] = f[i]) /\ t[Len(f) + 1] = Last(s)
    BY <1>2, <1>3, <1>4, <1>5, AppendProperties
  <1>7. Len(t) = Len(s) BY <1>1, <1>2, <1>4, <1>6
  <1>8. ASSUME NEW k \in 1 .. Len(s) PROVE s[k] = t[k]
    <2>1. CASE k = Len(s) BY <1>1, <1>2, <1>3, <1>4, <1>6, <2>1
    <2>2. CASE k # Len(s)
      <3>1. k \in 1 .. Len(s) - 1 BY <1>1, <2>2
      <3> QED BY <1>2, <1>4, <1>6, <3>1
    <2> QED BY <2>1, <2>2
  <1>9. s = t BY <1>6, <1>7, <1>8, SeqEqual
  <1> QED BY <1>2, <1>3, <1>4, <1>5, <1>9

LEMMA FrontOfAppend ==
  ASSUME NEW V, NEW s \in Seq(V), NEW y \in V
  PROVE  Front(Append(s, y)) = s /\ Last(Append(s, y)) = y
  <1>1. PICK t : t = Append(s, y) OBVIOUS
  <1>2. t \in Seq(V) /\ t # <<>> BY <1>1, AppendProperties
  <1>3. Front(t) \in Seq(V) /\ Last(t) \in V /\ Append(s, y) = Append(Front(t), Last(t))
    BY <1>1, <1>2, FrontAndLast
  <1>4. s = Front(t) /\ y = Last(t)
    <2>1. PICK f \in Seq(V) : f = Front(t) BY <1>3
    <2>2. PICK l \in V : l = Last(t) BY <1>3
    <2>3. Append(s, y) = Append(f, l) BY <1>3, <2>1, <2>2
    <2> QED BY <2>1, <2>2, <2>3, AppendInjective
  <1> QED BY <1>1, <1>4

LEMMA AppendBehind ==
  ASSUME NEW V, NEW x \in V, NEW s \in Seq(V), NEW y \in V
  PROVE  Append(<<x>> \o s, y) = <<x>> \o Append(s, y)
  <1>1. <<x>> \in Seq(V) /\ <<y>> \in Seq(V) OBVIOUS
  <1>2. PICK t : t = <<x>> \o s OBVIOUS
  <1>3. t \in Seq(V) BY <1>2, Before1
  <1>4. Append(t, y) = t \o <<y>> /\ Append(s, y) = s \o <<y>> BY <1>3, AppendIsConcat
  <1>5. (<<x>> \o s) \o <<y>> = <<x>> \o (s \o <<y>>) BY <1>1, ConcatAssociative
  <1> QED BY <1>2, <1>4, <1>5

LEMMA FrontBehind ==
  ASSUME NEW V, NEW x \in V, NEW s \in Seq(V), s # <<>>
  PROVE  Front(<<x>> \o s) = <<x>> \o Front(s) /\ Last(<<x>> \o s) = Last(s)
  <1>1. PICK f : f = Front(s) OBVIOUS
  <1>2. PICK l : l = Last(s) OBVIOUS
  <1>3. f \in Seq(V) /\ l \in V /\ s = Append(f, l) BY <1>1, <1>2, FrontAndLast
  <1>4. <<x>> \o s = Append(<<x>> \o f, l) BY <1>3, AppendBehind
  <1>5. PICK t : t = <<x>> \o f OBVIOUS
  <1>6. t \in Seq(V) BY <1>3, <1>5, Before1
  <1>7. Front(Append(t, l)) = t /\ Last(Append(t, l)) = l BY <1>3, <1>6, FrontOfAppend
  <1> QED BY <1>1, <1>2, <1>4, <1>5, <1>7

LEMMA Single ==
  ASSUME NEW V, NEW x \in V
  PROVE  /\ <<x>> \in Seq(V) /\ <<x>> \o <<>> = <<x>> /\ Append(<<>>, x) = <<x>> /\ <<x>> # <<>>
         /\ Front(<<x>>) = <<>> /\ Last(<<x>>) = x /\ Tail(<<x>>) = <<>> /\ Len(<<x>>) = 1
  <1>1. <<x>> \in Seq(V) /\ <<>> \in Seq(V) /\ <<x>> # <<>> /\ Len(<<x>>) = 1 OBVIOUS
  <1>2. <<x>> \o <<>> = <<x>> BY <1>1, ConcatEmptySeq
  <1>3. Append(<<>>, x) = <<x>> OBVIOUS
  <1>4. Front(Append(<<>>, x)) = <<>> /\ Last(Append(<<>>, x)) = x BY <1>1, FrontOfAppend
  <1>5. Tail(<<x>>) = <<>> OBVIOUS
  <1> QED BY <1>1, <1>2, <1>3, <1>4, <1>5

(*-------------------------------- balanced levels --------------------------------*)

\* A list of instructions leads from one state of the levels to another.
Shaped(levels, list, end) ==
    \E g : /\ g[0] = levels
           /\ \A k \in 1 .. Len(list) : g[k] = ShapeNext(g[k - 1], list[k].op)
           /\ g[Len(list)] = end

LEMMA ShapedNone ==
  ASSUME NEW levels, NEW end
  PROVE  Shaped(levels, <<>>, end) <=> levels = end
  <1>1. Len(<<>>) = 0 /\ 1 .. 0 = {} OBVIOUS
  <1>2. Shaped(levels, <<>>, end) => levels = end BY <1>1 DEF Shaped
  <1>3. ASSUME levels = end PROVE Shaped(levels, <<>>, end)
    <2> DEFINE g == [k \in 0 .. 0 |-> levels]
    <2>1. g[0] = levels OBVIOUS
    <2> HIDE DEF g
    <2>2. /\ g[0] = levels /\ g[Len(<<>>)] = end
          /\ \A k \in 1 .. Len(<<>>) : g[k] = ShapeNext(g[k - 1], <<>>[k].op)
      BY <1>1, <1>3, <2>1
    <2> QED BY <2>2 DEF Shaped
  <1> QED BY <1>2, <1>3

LEMMA ShapedHead ==
  ASSUME NEW V, NEW list \in Seq(V), list # <<>>, NEW levels, NEW end, Shaped(levels, list, end)
  PROVE  Shaped(ShapeNext(levels, list[1].op), Tail(list), end)
  <1>1. PICK g : /\ g[0] = levels
                 /\ \A k \in 1 .. Len(list) : g[k] = ShapeNext(g[k - 1], list[k].op)
                 /\ g[Len(list)] = end
    BY DEF Shaped
  <1>2. PICK n \in Nat : n + 1 = Len(list)
    <2>1. Len(list) \in Nat \ {0} BY HeadAndTail
    <2>2. Len(list) - 1 \in Nat /\ (Len(list) - 1) + 1 = Len(list) BY <2>1
    <2> QED BY <2>2
  <1>3. PICK rest : rest = Tail(list) OBVIOUS
  <1>4. Len(rest) = n /\ \A k \in 1 .. n : rest[k] = list[k + 1]
    BY <1>2, <1>3, HeadTailProperties
  <1> DEFINE h == [k \in 0 .. n |-> g[k + 1]]
  <1>5. \A k \in 0 .. n : h[k] = g[k + 1] OBVIOUS
  <1> HIDE DEF h
  <1>6. h[0] = ShapeNext(levels, list[1].op)
    <2>1. 0 \in 0 .. n /\ 1 \in 1 .. Len(list) /\ 0 + 1 = 1 /\ 1 - 1 = 0 BY <1>2
    <2> QED BY <1>1, <1>5, <2>1
  <1>7. h[n] = end
    <2>1. n \in 0 .. n OBVIOUS
    <2> QED BY <1>1, <1>2, <1>5, <2>1
  <1>8. ASSUME NEW k \in 1 .. n PROVE h[k] = ShapeNext(h[k - 1], rest[k].op)
    <2>1. /\ k \in 0 .. n /\ k - 1 \in 0 .. n /\ k + 1 \in 1 .. Len(list)
          /\ (k - 1) + 1 = k /\ (k + 1) - 1 = k
      BY <1>2
    <2>2. g[k + 1] = ShapeNext(g[(k + 1) - 1], list[k + 1].op) BY <1>1, <2>1
    <2>3. h[k] = g[k + 1] /\ h[k - 1] = g[k] BY <1>5, <2>1
    <2> QED BY <1>4, <2>1, <2>2, <2>3
  <1> QED BY <1>3, <1>4, <1>6, <1>7, <1>8 DEF Shaped

LEMMA ShapedMore ==
  ASSUME NEW V, NEW list \in Seq(V), NEW i \in V, NEW levels, NEW end, Shaped(levels, list, end)
  PROVE  Shaped(levels, Append(list, i), ShapeNext(end, i.op))
  <1>1. PICK n \in Nat : n = Len(list) BY EmptySeq, LenProperties
  <1>2. PICK g : /\ g[0] = levels
                 /\ \A k \in 1 .. n : g[k] = ShapeNext(g[k - 1], list[k].op)
                 /\ g[n] = end
    BY <1>1 DEF Shaped
  <1>3. PICK more : more = Append(list, i) OBVIOUS
  <1>4. Len(more) = n + 1 /\ (\A k \in 1 .. n : more[k] = list[k]) /\ more[n + 1] = i
    BY <1>1, <1>3, AppendProperties
  <1>5. PICK next : next = ShapeNext(end, i.op) OBVIOUS
  <1> DEFINE h == [k \in 0 .. n + 1 |-> IF k = n + 1 THEN next ELSE g[k]]
  <1>6. (\A k \in 0 .. n : h[k] = g[k]) /\ h[n + 1] = next OBVIOUS
  <1> HIDE DEF h
  <1>7. h[0] = levels
    <2>1. 0 \in 0 .. n OBVIOUS
    <2> QED BY <1>2, <1>6, <2>1
  <1>8. ASSUME NEW k \in 1 .. n + 1 PROVE h[k] = ShapeNext(h[k - 1], more[k].op)
    <2>1. CASE k = n + 1
      <3>1. k - 1 = n /\ n \in 0 .. n BY <2>1
      <3> QED BY <1>2, <1>4, <1>5, <1>6, <2>1, <3>1
    <2>2. CASE k # n + 1
      <3>1. k \in 1 .. n /\ k \in 0 .. n /\ k - 1 \in 0 .. n BY <2>2
      <3> QED BY <1>2, <1>4, <1>6, <3>1
    <2> QED BY <2>1, <2>2
  <1> QED BY <1>3, <1>4, <1>5, <1>6, <1>7, <1>8 DEF Shaped

LEMMA UnbalancedStays ==
  ASSUME NEW list, Len(list) \in Nat, NEW end, Shaped(Unbalanced, list, end)
  PROVE  end = Unbalanced
  <1>1. PICK n \in Nat : n = Len(list) OBVIOUS
  <1>2. PICK g : /\ g[0] = Unbalanced
                 /\ \A k \in 1 .. n : g[k] = ShapeNext(g[k - 1], list[k].op)
                 /\ g[n] = end
    BY <1>1 DEF Shaped
  <1> DEFINE H == {k \in 0 .. n : g[k] = Unbalanced}
  <1>3. 0 \in H BY <1>2
  <1>4. ASSUME NEW k \in 1 .. n, k - 1 \in H PROVE k \in H
    <2>1. k \in 0 .. n /\ g[k - 1] = Unbalanced BY <1>4
    <2>2. g[k] = ShapeNext(Unbalanced, list[k].op) BY <1>2, <2>1
    <2>3. g[k] = Unbalanced BY <2>2 DEF ShapeNext
    <2> QED BY <2>1, <2>3
  <1>5. n \in 0 .. n OBVIOUS
  <1>6. n \in H
    <2> HIDE DEF H
    <2> QED BY <1>3, <1>4, <1>5, CountUp
  <1> QED BY <1>2, <1>6

LEMMA BalancedList ==
  ASSUME NEW list, Len(list) \in Nat, Shape(list) = <<>>
  PROVE  Shaped(<<>>, list, <<>>)
  <1>1. PICK n \in Nat : n = Len(list) OBVIOUS
  <1>2. PICK f : ShapeStates(f, n, list) /\ Shape(list) = f[n] BY <1>1, ShapeRounds
  <1> QED BY <1>1, <1>2 DEF ShapeStates, Shaped

\* The levels of a list that can still be balanced.
Levels == Seq({0, 1})

LEMMA LevelsBalanced == ASSUME NEW levels \in Levels PROVE levels # Unbalanced
  <1>1. SUFFICES ASSUME levels = Unbalanced PROVE FALSE OBVIOUS
  <1>2. Len(levels) = 1 /\ levels[1] = 9 BY <1>1 DEF Unbalanced
  <1>3. 1 \in 1 .. Len(levels) BY <1>2
  <1>4. levels[1] \in {0, 1} BY <1>3, ElementOfSeq DEF Levels
  <1> QED BY <1>2, <1>4

Turning == {OP_ELSE, OP_ENDIF}

LEMMA Opcodes ==
  /\ OP_IF # OP_ELSE /\ OP_IF # OP_ENDIF /\ OP_NOTIF # OP_ELSE /\ OP_NOTIF # OP_ENDIF
  /\ OP_ELSE # OP_ENDIF
  /\ \A op : op \in Conditional => op \notin Turning
  BY DEF OP_IF, OP_NOTIF, OP_ELSE, OP_ENDIF, Conditional, Turning

LEMMA ShapeCases ==
  ASSUME NEW levels \in Levels, NEW op
  PROVE  /\ op \in Conditional => ShapeNext(levels, op) = Append(levels, 0)
         /\ op \in Turning /\ levels = <<>> => ShapeNext(levels, op) = Unbalanced
         /\ op = OP_ELSE /\ levels # <<>> =>
              ShapeNext(levels, op) = IF Last(levels) = 1 THEN Unbalanced ELSE Append(Front(levels), 1)
         /\ op = OP_ENDIF /\ levels # <<>> => ShapeNext(levels, op) = Front(levels)
         /\ op \notin Conditional /\ op \notin Turning => ShapeNext(levels, op) = levels
  <1>1. levels # Unbalanced BY LevelsBalanced
  <1>2. op \in Conditional => op # OP_ELSE /\ op # OP_ENDIF BY Opcodes DEF Turning
  <1>3. OP_ELSE # OP_ENDIF /\ OP_ELSE \notin Conditional /\ OP_ENDIF \notin Conditional
    BY Opcodes DEF Turning
  <1>4. CASE op \in Conditional BY <1>1, <1>2, <1>4 DEF ShapeNext, Turning
  <1>5. CASE op = OP_ELSE
    <2>1. CASE levels = <<>> BY <1>1, <1>3, <1>5, <2>1 DEF ShapeNext, Turning
    <2>2. CASE levels # <<>> BY <1>1, <1>3, <1>5, <2>2 DEF ShapeNext, Turning
    <2> QED BY <2>1, <2>2
  <1>6. CASE op = OP_ENDIF
    <2>1. CASE levels = <<>> BY <1>1, <1>3, <1>6, <2>1 DEF ShapeNext, Turning
    <2>2. CASE levels # <<>> BY <1>1, <1>3, <1>6, <2>2 DEF ShapeNext, Turning
    <2> QED BY <2>1, <2>2
  <1>7. CASE op \notin Conditional /\ op \notin Turning BY <1>1, <1>7 DEF ShapeNext, Turning
  <1> QED BY <1>4, <1>5, <1>6, <1>7 DEF Turning

\* What an instruction makes of the levels does not depend on those further out.
LEMMA ShapeBehind ==
  ASSUME NEW e \in {0, 1}, NEW levels \in Levels, NEW op, op \notin Turning \/ levels # <<>>
  PROVE  \/ ShapeNext(<<e>> \o levels, op) = Unbalanced
         \/ /\ ShapeNext(levels, op) \in Levels
            /\ ShapeNext(<<e>> \o levels, op) = <<e>> \o ShapeNext(levels, op)
  <1>1. PICK all : all = <<e>> \o levels OBVIOUS
  <1>2. all \in Levels /\ all # <<>> BY <1>1, Before1 DEF Levels
  <1>3. CASE op \in Conditional
    <2>1. ShapeNext(levels, op) = Append(levels, 0) /\ ShapeNext(all, op) = Append(all, 0)
      BY <1>2, <1>3, ShapeCases
    <2>2. 0 \in {0, 1} OBVIOUS
    <2>3. Append(levels, 0) \in Levels BY <2>2, AppendProperties DEF Levels
    <2>4. Append(all, 0) = <<e>> \o Append(levels, 0) BY <1>1, <2>2, AppendBehind DEF Levels
    <2> QED BY <1>1, <2>1, <2>3, <2>4
  <1>4. CASE op = OP_ELSE
    <2>1. levels # <<>> BY <1>4 DEF Turning
    <2>2. Front(all) = <<e>> \o Front(levels) /\ Last(all) = Last(levels) /\ Front(levels) \in Levels
      BY <1>1, <2>1, FrontBehind, FrontAndLast DEF Levels
    <2>3. /\ ShapeNext(levels, op) = IF Last(levels) = 1 THEN Unbalanced ELSE Append(Front(levels), 1)
          /\ ShapeNext(all, op) = IF Last(all) = 1 THEN Unbalanced ELSE Append(Front(all), 1)
      BY <1>2, <1>4, <2>1, ShapeCases
    <2>4. PICK f \in Levels : f = Front(levels) BY <2>2
    <2>5. 1 \in {0, 1} OBVIOUS
    <2>6. Append(f, 1) \in Levels /\ Append(<<e>> \o f, 1) = <<e>> \o Append(f, 1)
      BY <2>5, AppendProperties, AppendBehind DEF Levels
    <2> QED BY <1>1, <2>2, <2>3, <2>4, <2>6
  <1>5. CASE op = OP_ENDIF
    <2>1. levels # <<>> BY <1>5 DEF Turning
    <2>2. Front(all) = <<e>> \o Front(levels) /\ Front(levels) \in Levels
      BY <1>1, <2>1, FrontBehind, FrontAndLast DEF Levels
    <2>3. ShapeNext(levels, op) = Front(levels) /\ ShapeNext(all, op) = Front(all)
      BY <1>2, <1>5, <2>1, ShapeCases
    <2> QED BY <1>1, <2>2, <2>3
  <1>6. CASE op \notin Conditional /\ op \notin Turning
    <2>1. ShapeNext(levels, op) = levels /\ ShapeNext(all, op) = all BY <1>2, <1>6, ShapeCases
    <2> QED BY <1>1, <2>1
  <1> QED BY <1>3, <1>4, <1>5, <1>6 DEF Turning

(*--------------------- the interpreter that reads a script once ---------------------*)

\* The state that the interpreter starts in.
Reader(m, list, flags) == [m |-> m, list |-> list, flags |-> flags]

LEMMA ReaderIs ==
  ASSUME NEW m, NEW list, NEW flags
  PROVE  /\ Reader(m, list, flags).m = m /\ Reader(m, list, flags).list = list
         /\ Reader(m, list, flags).flags = flags
  BY DEF Reader

\* An engine that stopped, or a list at its end.
LEMMA OutcomeStops ==
  ASSUME NEW c, NEW m, NEW list, Len(list) \in Nat, NEW flags, m.ok # "go" \/ list = <<>>
  PROVE  Outcome(c, m, list, flags) = m
  <1>1. PICK n \in Nat : n = Len(list) OBVIOUS
  <1>2. PICK s : s = [m |-> m, list |-> list, flags |-> flags] OBVIOUS
  <1>3. PICK f : FlaggedStates(f, n, c, s) /\ Outcome(c, m, list, flags) = f[n].m
    BY <1>1, <1>2, FlaggedRounds
  <1>4. s.m = m /\ s.list = list BY <1>2
  <1>5. FlaggedNext(c, s) = s BY <1>4 DEF FlaggedNext
  <1> DEFINE H == {k \in 0 .. n : f[k] = s}
  <1>6. 0 \in H BY <1>3 DEF FlaggedStates
  <1>7. ASSUME NEW k \in 1 .. n, k - 1 \in H PROVE k \in H
    <2>1. f[k] = FlaggedNext(c, f[k - 1]) BY <1>3 DEF FlaggedStates
    <2>2. f[k - 1] = s /\ k \in 0 .. n BY <1>7
    <2> QED BY <1>5, <2>1, <2>2
  <1>8. n \in 0 .. n OBVIOUS
  <1>9. n \in H
    <2> HIDE DEF H
    <2> QED BY <1>6, <1>7, <1>8, CountUp
  <1> QED BY <1>3, <1>4, <1>9

\* The first round done.
LEMMA OutcomeSteps ==
  ASSUME NEW V, NEW c, NEW m, NEW list \in Seq(V), list # <<>>, NEW flags, NEW n, NEW then,
         FlaggedNext(c, Reader(m, list, flags)) = Reader(n, Tail(list), then)
  PROVE  Outcome(c, m, list, flags) = Outcome(c, n, Tail(list), then)
  <1>1. PICK rest : rest = Tail(list) OBVIOUS
  <1>2. PICK N \in Nat : N = Len(rest) /\ Len(list) = N + 1
    <2>1. Len(list) \in Nat \ {0} /\ Len(rest) = Len(list) - 1 BY <1>1, HeadAndTail
    <2>2. Len(rest) \in Nat /\ Len(list) = Len(rest) + 1 BY <2>1
    <2> QED BY <2>2
  <1>3. PICK s : s = [m |-> m, list |-> list, flags |-> flags] OBVIOUS
  <1>4. PICK t : t = [m |-> n, list |-> rest, flags |-> then] OBVIOUS
  <1>5. PICK f : FlaggedStates(f, N + 1, c, s) /\ Outcome(c, m, list, flags) = f[N + 1].m
    <2>1. N + 1 \in Nat OBVIOUS
    <2> QED BY <1>2, <1>3, <2>1, FlaggedRounds
  <1>6. PICK g : FlaggedStates(g, N, c, t) /\ Outcome(c, n, rest, then) = g[N].m
    BY <1>2, <1>4, FlaggedRounds
  <1>7. FlaggedNext(c, s) = t BY <1>1, <1>3, <1>4 DEF Reader
  <1> DEFINE H == {k \in 0 .. N : g[k] = f[k + 1]}
  <1>8. 0 \in H
    <2>1. 1 \in 1 .. N + 1 /\ 1 - 1 = 0 /\ 0 + 1 = 1 /\ 0 \in 0 .. N OBVIOUS
    <2>2. f[0 + 1] = t BY <1>5, <1>7, <2>1 DEF FlaggedStates
    <2> QED BY <1>6, <2>1, <2>2 DEF FlaggedStates
  <1>9. ASSUME NEW k \in 1 .. N, k - 1 \in H PROVE k \in H
    <2>1. k \in 0 .. N /\ k + 1 \in 1 .. N + 1 /\ (k + 1) - 1 = k /\ (k - 1) + 1 = k OBVIOUS
    <2>2. g[k - 1] = f[k] BY <1>9, <2>1
    <2>3. g[k] = FlaggedNext(c, g[k - 1]) BY <1>6 DEF FlaggedStates
    <2>4. f[k + 1] = FlaggedNext(c, f[k]) BY <1>5, <2>1 DEF FlaggedStates
    <2> QED BY <2>1, <2>2, <2>3, <2>4
  <1>10. N \in 0 .. N OBVIOUS
  <1>11. N \in H
    <2> HIDE DEF H
    <2> QED BY <1>8, <1>9, <1>10, CountUp
  <1> QED BY <1>1, <1>5, <1>6, <1>11

\* The first round raised.
LEMMA OutcomeRaises ==
  ASSUME NEW V, NEW c, NEW m, NEW list \in Seq(V), list # <<>>, NEW flags, NEW n, n.ok # "go",
         FlaggedNext(c, Reader(m, list, flags)) = Reader(n, list, flags)
  PROVE  Outcome(c, m, list, flags) = n
  <1>2. PICK N \in Nat : Len(list) = N /\ N # 0 BY HeadAndTail
  <1>3. PICK s : s = [m |-> m, list |-> list, flags |-> flags] OBVIOUS
  <1>4. PICK t : t = [m |-> n, list |-> list, flags |-> flags] OBVIOUS
  <1>5. PICK f : FlaggedStates(f, N, c, s) /\ Outcome(c, m, list, flags) = f[N].m
    BY <1>2, <1>3, FlaggedRounds
  <1>6. FlaggedNext(c, s) = t BY <1>3, <1>4 DEF Reader
  <1>7. t.m = n BY <1>4
  <1>8. FlaggedNext(c, t) = t BY <1>7 DEF FlaggedNext
  <1> DEFINE H == {k \in 0 .. N : k = 0 \/ f[k] = t}
  <1>9. 0 \in H OBVIOUS
  <1>10. ASSUME NEW k \in 1 .. N, k - 1 \in H PROVE k \in H
    <2>1. f[k] = FlaggedNext(c, f[k - 1]) BY <1>5 DEF FlaggedStates
    <2>2. CASE k - 1 = 0 BY <1>5, <1>6, <2>1, <2>2 DEF FlaggedStates
    <2>3. CASE k - 1 # 0 BY <1>8, <1>10, <2>1, <2>3
    <2> QED BY <2>2, <2>3
  <1>11. N \in 0 .. N OBVIOUS
  <1>12. N \in H
    <2> HIDE DEF H
    <2> QED BY <1>9, <1>10, <1>11, CountUp
  <1> QED BY <1>2, <1>5, <1>7, <1>12

\* Every open conditional lets instructions run.
On(flags) == \A k \in DOMAIN flags : flags[k]

Unfit(m) == m.main = <<>> \/ ~IsNum(m.main[1])
Met(m, i) == IsTrue(m.main[1]) = (i.op = OP_IF)

\* What an instruction makes of the engine and of the flags.
EngineNext(c, m, i, flags) ==
    IF m.ok # "go" \/ ~On(flags) THEN m
    ELSE IF i.op \in Conditional THEN IF Unfit(m) THEN Raise(m) ELSE op_drop(m)
    ELSE IF i.op \in Turning THEN m ELSE Execute(m, c, i)
Entered(m, i, flags) == IF On(flags) THEN Met(m, i) ELSE FALSE
FlagsNext(m, i, flags) ==
    IF i.op \in Conditional THEN Append(flags, Entered(m, i, flags))
    ELSE IF i.op = OP_ELSE THEN Append(Front(flags), ~Last(flags))
    ELSE IF i.op = OP_ENDIF THEN Front(flags) ELSE flags

LEMMA NextAtConditional ==
  ASSUME NEW c, NEW m, m.ok = "go", NEW list, list # <<>>, list[1].op \in Conditional,
         NEW flags, NEW fs, fs = FlagsNext(m, list[1], flags), ~On(flags)
  PROVE  FlaggedNext(c, Reader(m, list, flags)) = Reader(m, Tail(list), fs)
  <1>1. PICK s : s = Reader(m, list, flags) OBVIOUS
  <1>2. s.m = m /\ s.list = list /\ s.flags = flags BY <1>1, ReaderIs
  <1>3. list[1].op # OP_ELSE /\ list[1].op # OP_ENDIF BY Opcodes DEF Turning
  <1>5. fs = Append(flags, FALSE) BY Zenon DEF FlagsNext, Entered
  <1>4. FlaggedNext(c, s) = [m |-> m, list |-> Tail(list), flags |-> fs]
    BY <1>2, <1>3, <1>5 DEF FlaggedNext, On
  <1> QED BY <1>1, <1>4 DEF Reader

LEMMA NextUnfit ==
  ASSUME NEW c, NEW m, m.ok = "go", NEW list, list # <<>>, list[1].op \in Conditional,
         NEW flags, On(flags), Unfit(m)
  PROVE  FlaggedNext(c, Reader(m, list, flags)) = Reader(Raise(m), list, flags)
  <1>1. PICK s : s = Reader(m, list, flags) OBVIOUS
  <1>2. s.m = m /\ s.list = list /\ s.flags = flags BY <1>1, ReaderIs
  <1>3. list[1].op # OP_ELSE /\ list[1].op # OP_ENDIF BY Opcodes DEF Turning
  <1>4. PICK raised : raised = Raise(m) OBVIOUS
  <1>5. FlaggedNext(c, s) = [s EXCEPT !.m = raised] BY <1>2, <1>3, <1>4 DEF FlaggedNext, On, Unfit
  <1>6. [s EXCEPT !.m = raised] = Reader(raised, list, flags) BY <1>1 DEF Reader
  <1> QED BY <1>1, <1>4, <1>5, <1>6

LEMMA NextEnters ==
  ASSUME NEW c, NEW m, m.ok = "go", NEW list, list # <<>>, list[1].op \in Conditional,
         NEW flags, NEW fs, fs = FlagsNext(m, list[1], flags), On(flags), ~Unfit(m)
  PROVE  FlaggedNext(c, Reader(m, list, flags)) = Reader(op_drop(m), Tail(list), fs)
  <1>1. PICK s : s = Reader(m, list, flags) OBVIOUS
  <1>2. s.m = m /\ s.list = list /\ s.flags = flags BY <1>1, ReaderIs
  <1>3. list[1].op # OP_ELSE /\ list[1].op # OP_ENDIF BY Opcodes DEF Turning
  <1>4. PICK dropped : dropped = op_drop(m) OBVIOUS
  <1>6. fs = Append(flags, Met(m, list[1])) BY Zenon DEF FlagsNext, Entered
  <1>5. FlaggedNext(c, s) = [m |-> dropped, list |-> Tail(list), flags |-> fs]
    BY <1>2, <1>3, <1>4, <1>6 DEF FlaggedNext, On, Unfit, Met
  <1> QED BY <1>1, <1>4, <1>5 DEF Reader

LEMMA NextElsewhere ==
  ASSUME NEW c, NEW m, m.ok = "go", NEW list, list # <<>>, NEW flags
  PROVE  LET s == Reader(m, list, flags)
         IN /\ list[1].op = OP_ELSE =>
                  FlaggedNext(c, s) = Reader(m, Tail(list), Append(Front(flags), ~Last(flags)))
            /\ list[1].op = OP_ENDIF => FlaggedNext(c, s) = Reader(m, Tail(list), Front(flags))
            /\ list[1].op \notin Conditional /\ list[1].op \notin Turning =>
                 /\ On(flags) => FlaggedNext(c, s) = Reader(Execute(m, c, list[1]), Tail(list), flags)
                 /\ ~On(flags) => FlaggedNext(c, s) = Reader(m, Tail(list), flags)
  <1>1. PICK s : s = Reader(m, list, flags) OBVIOUS
  <1>2. s.m = m /\ s.list = list /\ s.flags = flags BY <1>1, ReaderIs
  <1>3. OP_ELSE # OP_ENDIF /\ OP_ELSE \notin Conditional /\ OP_ENDIF \notin Conditional
    BY Opcodes DEF Turning
  <1>4. ASSUME list[1].op = OP_ELSE
        PROVE  FlaggedNext(c, s) = Reader(m, Tail(list), Append(Front(flags), ~Last(flags)))
    BY <1>2, <1>3, <1>4, Zenon DEF FlaggedNext, Reader
  <1>5. ASSUME list[1].op = OP_ENDIF
        PROVE  FlaggedNext(c, s) = Reader(m, Tail(list), Front(flags))
    BY <1>2, <1>3, <1>5 DEF FlaggedNext, Reader
  <1>6. ASSUME list[1].op \notin Conditional, list[1].op \notin Turning, On(flags)
        PROVE  FlaggedNext(c, s) = Reader(Execute(m, c, list[1]), Tail(list), flags)
    BY <1>2, <1>6 DEF FlaggedNext, Reader, On, Turning
  <1>7. ASSUME list[1].op \notin Conditional, list[1].op \notin Turning, ~On(flags)
        PROVE  FlaggedNext(c, s) = Reader(m, Tail(list), flags)
    BY <1>2, <1>7 DEF FlaggedNext, Reader, On, Turning
  <1> QED BY <1>1, <1>4, <1>5, <1>6, <1>7

Flags == Seq(BOOLEAN)

LEMMA EngineNextKeeps ==
  ASSUME NEW c, NEW m, Machine(m), NEW i, NEW flags
  PROVE  Machine(EngineNext(c, m, i, flags))
  BY FailRaise, ReplacingKeep, ExecuteKeeps DEF EngineNext

LEMMA OneInstruction ==
  ASSUME NEW c, NEW m, Machine(m), NEW i \in Ins, NEW Z \in Seq(Ins), NEW flags
  PROVE  Outcome(c, m, <<i>> \o Z, flags)
           = Outcome(c, EngineNext(c, m, i, flags), Z, FlagsNext(m, i, flags))
  <1>1. PICK list : list = <<i>> \o Z OBVIOUS
  <1>2. list \in Seq(Ins) /\ list # <<>> /\ list[1] = i /\ Tail(list) = Z /\ Len(list) \in Nat
    BY <1>1, Before1
  <1>3. Len(Z) \in Nat OBVIOUS
  <1>4. PICK n : n = EngineNext(c, m, i, flags) OBVIOUS
  <1>5. PICK fs : fs = FlagsNext(m, i, flags) OBVIOUS
  <1>6. CASE m.ok # "go"
    <2>1. n = m BY <1>4, <1>6 DEF EngineNext
    <2>2. Outcome(c, m, list, flags) = m BY <1>2, <1>6, OutcomeStops
    <2>3. Outcome(c, n, Z, fs) = n BY <1>3, <1>6, <2>1, OutcomeStops
    <2> QED BY <1>1, <1>4, <1>5, <2>1, <2>2, <2>3
  <1>7. CASE m.ok = "go" /\ i.op \in Conditional /\ On(flags) /\ Unfit(m)
    <2>1. n = Raise(m) /\ n.ok # "go" BY <1>4, <1>7, FailRaise DEF EngineNext
    <2>2. FlaggedNext(c, Reader(m, list, flags)) = Reader(Raise(m), list, flags)
      BY <1>2, <1>7, NextUnfit
    <2>3. Outcome(c, m, list, flags) = n BY <1>2, <2>1, <2>2, OutcomeRaises
    <2>4. Outcome(c, n, Z, fs) = n BY <1>3, <2>1, OutcomeStops
    <2> QED BY <1>1, <1>4, <1>5, <2>3, <2>4
  <1>8. ASSUME FlaggedNext(c, Reader(m, list, flags)) = Reader(n, Tail(list), fs)
        PROVE  Outcome(c, m, list, flags) = Outcome(c, n, Z, fs)
    <2>1. list \in Seq(Ins) /\ list # <<>> BY <1>2
    <2>2. Outcome(c, m, list, flags) = Outcome(c, n, Tail(list), fs)
      BY <1>8, <2>1, OutcomeSteps
    <2> QED BY <1>2, <2>2
  <1>9. CASE m.ok = "go" /\ i.op \in Conditional /\ On(flags) /\ ~Unfit(m)
    <2>1. n = op_drop(m) BY <1>4, <1>9 DEF EngineNext
    <2>2. fs = FlagsNext(m, list[1], flags) BY <1>2, <1>5
    <2>3. FlaggedNext(c, Reader(m, list, flags)) = Reader(op_drop(m), Tail(list), fs)
      <3>1. m.ok = "go" /\ list # <<>> /\ list[1].op \in Conditional /\ On(flags) /\ ~Unfit(m)
        BY <1>2, <1>9
      <3> QED BY <2>2, <3>1, NextEnters
    <2>4. FlaggedNext(c, Reader(m, list, flags)) = Reader(n, Tail(list), fs) BY <2>1, <2>3
    <2> QED BY <1>1, <1>4, <1>5, <1>8, <2>4
  <1>10. CASE m.ok = "go" /\ i.op \in Conditional /\ ~On(flags)
    <2>1. n = m BY <1>4, <1>10 DEF EngineNext
    <2>2. fs = FlagsNext(m, list[1], flags) BY <1>2, <1>5
    <2>3. FlaggedNext(c, Reader(m, list, flags)) = Reader(m, Tail(list), fs)
      <3>1. m.ok = "go" /\ list # <<>> /\ list[1].op \in Conditional /\ ~On(flags)
        BY <1>2, <1>10
      <3> QED BY <2>2, <3>1, NextAtConditional
    <2>4. FlaggedNext(c, Reader(m, list, flags)) = Reader(n, Tail(list), fs) BY <2>1, <2>3
    <2> QED BY <1>1, <1>4, <1>5, <1>8, <2>4
  <1>11. CASE m.ok = "go" /\ i.op \in Turning
    <2>1. i.op \notin Conditional BY <1>11, Opcodes
    <2>2. n = m BY <1>4, <1>11, <2>1 DEF EngineNext
    <2>3. CASE i.op = OP_ELSE
      <3>1. fs = Append(Front(flags), ~Last(flags)) BY <1>5, <2>1, <2>3, Zenon DEF FlagsNext
      <3>2. FlaggedNext(c, Reader(m, list, flags))
              = Reader(m, Tail(list), Append(Front(flags), ~Last(flags)))
        BY <1>2, <1>11, <2>3, NextElsewhere
      <3>3. FlaggedNext(c, Reader(m, list, flags)) = Reader(n, Tail(list), fs)
        BY <2>2, <3>1, <3>2, Zenon
      <3> QED BY <1>1, <1>4, <1>5, <1>8, <3>3
    <2>4. CASE i.op = OP_ENDIF
      <3>1. fs = Front(flags) BY <1>5, <2>1, <2>4, Opcodes DEF FlagsNext
      <3>2. FlaggedNext(c, Reader(m, list, flags)) = Reader(m, Tail(list), Front(flags))
        BY <1>2, <1>11, <2>4, NextElsewhere
      <3> QED BY <1>1, <1>4, <1>5, <1>8, <2>2, <3>1, <3>2
    <2> QED BY <1>11, <2>3, <2>4 DEF Turning
  <1>12. CASE m.ok = "go" /\ i.op \notin Conditional /\ i.op \notin Turning
    <2>1. n = IF On(flags) THEN Execute(m, c, i) ELSE m BY <1>4, <1>12 DEF EngineNext
    <2>2. fs = flags BY <1>5, <1>12 DEF FlagsNext, Turning
    <2>3. FlaggedNext(c, Reader(m, list, flags)) = Reader(n, Tail(list), fs)
      BY <1>2, <1>12, <2>1, <2>2, NextElsewhere
    <2> QED BY <1>1, <1>4, <1>5, <1>8, <2>3
  <1> QED BY <1>6, <1>7, <1>9, <1>10, <1>11, <1>12

\* How many conditionals are open after an instruction.
DeeperBy(i) == IF i.op \in Conditional THEN 1 ELSE IF i.op = OP_ENDIF THEN 0 - 1 ELSE 0

LEMMA EnteredIs == ASSUME NEW m, NEW i, NEW flags PROVE Entered(m, i, flags) \in BOOLEAN
  BY Zenon DEF Entered, Met

LEMMA NegationIs == ASSUME NEW x PROVE (~x) \in BOOLEAN
  OBVIOUS

LEMMA FlagsNextIs ==
  ASSUME NEW m, NEW i, NEW flags \in Flags, i.op \notin Turning \/ flags # <<>>
  PROVE  FlagsNext(m, i, flags) \in Flags /\ Len(FlagsNext(m, i, flags)) = Len(flags) + DeeperBy(i)
  <1>0. Len(flags) \in Nat BY DEF Flags
  <1>1. CASE i.op \in Conditional
    <2>1. PICK x \in BOOLEAN : x = Entered(m, i, flags) BY EnteredIs, Zenon
    <2>2. FlagsNext(m, i, flags) = Append(flags, x) BY <1>1, <2>1, Zenon DEF FlagsNext
    <2>3. Append(flags, x) \in Flags /\ Len(Append(flags, x)) = Len(flags) + 1
      BY AppendProperties DEF Flags
    <2> QED BY <1>1, <2>2, <2>3 DEF DeeperBy
  <1>2. CASE i.op = OP_ELSE
    <2>0. i.op \notin Conditional /\ i.op # OP_ENDIF /\ flags # <<>> BY <1>2, Opcodes DEF Turning
    <2>1. PICK x \in BOOLEAN : x = ~Last(flags) BY NegationIs, Zenon
    <2>2. FlagsNext(m, i, flags) = Append(Front(flags), x) BY <1>2, <2>0, <2>1, Zenon DEF FlagsNext
    <2>3. Front(flags) \in Flags /\ Len(Front(flags)) = Len(flags) - 1
      BY <2>0, FrontAndLast DEF Flags
    <2>4. Append(Front(flags), x) \in Flags /\ Len(Append(Front(flags), x)) = Len(flags) - 1 + 1
      BY <2>3, AppendProperties DEF Flags
    <2> QED BY <1>0, <2>0, <2>2, <2>4 DEF DeeperBy
  <1>3. CASE i.op = OP_ENDIF
    <2>0. i.op \notin Conditional /\ i.op # OP_ELSE /\ flags # <<>> BY <1>3, Opcodes DEF Turning
    <2>1. FlagsNext(m, i, flags) = Front(flags) BY <1>3, <2>0 DEF FlagsNext
    <2>2. Front(flags) \in Flags /\ Len(Front(flags)) = Len(flags) - 1
      BY <2>0, FrontAndLast DEF Flags
    <2> QED BY <1>0, <1>3, <2>0, <2>1, <2>2 DEF DeeperBy
  <1>4. CASE i.op \notin Conditional /\ i.op \notin Turning
    BY <1>0, <1>4 DEF FlagsNext, DeeperBy, Turning
  <1> QED BY <1>1, <1>2, <1>3, <1>4 DEF Turning

\* One more conditional is open around those of flags, of which i needs one.
Flagging(all, x, flags, i) ==
    /\ x \in BOOLEAN /\ flags \in Flags /\ all = <<x>> \o flags
    /\ i.op \notin Turning \/ flags # <<>>

FlagStays(m, i, x, flags, all) ==
    \E inner \in Flags : /\ FlagsNext(m, i, all) = <<x>> \o inner
                         /\ Len(inner) = Len(flags) + DeeperBy(i)

LEMMA FlagsBehind ==
  ASSUME NEW m, NEW i, NEW x, NEW flags, NEW all, Flagging(all, x, flags, i)
  PROVE  FlagStays(m, i, x, flags, all)
  <1>02. SUFFICES \E inner \in Flags : /\ FlagsNext(m, i, all) = <<x>> \o inner
                                       /\ Len(inner) = Len(flags) + DeeperBy(i)
    BY Zenon DEF FlagStays
  <1>0. x \in BOOLEAN /\ flags \in Flags /\ all = <<x>> \o flags BY DEF Flagging
  <1>01. i.op \notin Turning \/ flags # <<>> BY DEF Flagging
  <1>00. Len(flags) \in Nat BY <1>0 DEF Flags
  <1>1. CASE i.op \in Conditional
    <2>1. PICK y \in BOOLEAN : y = Entered(m, i, all) BY EnteredIs, Zenon
    <2>2. FlagsNext(m, i, all) = Append(all, y) BY <1>1, <2>1, Zenon DEF FlagsNext
    <2>3. Append(flags, y) \in Flags /\ Len(Append(flags, y)) = Len(flags) + 1
      BY <1>0, AppendProperties DEF Flags
    <2>4. Append(<<x>> \o flags, y) = <<x>> \o Append(flags, y) BY <1>0, AppendBehind DEF Flags
    <2>5. DeeperBy(i) = 1 BY <1>1 DEF DeeperBy
    <2> QED BY <1>0, <2>2, <2>3, <2>4, <2>5
  <1>2. CASE i.op = OP_ELSE
    <2>0. i.op \notin Conditional /\ i.op # OP_ENDIF /\ flags # <<>> BY <1>01, <1>2, Opcodes DEF Turning
    <2>1. PICK y \in BOOLEAN : y = ~Last(all) BY NegationIs, Zenon
    <2>2. FlagsNext(m, i, all) = Append(Front(all), y) BY <1>2, <2>0, <2>1, Zenon DEF FlagsNext
    <2>3. PICK f \in Flags : f = Front(flags) /\ Len(f) = Len(flags) - 1
      BY <1>0, <2>0, FrontAndLast DEF Flags
    <2>4. Front(all) = <<x>> \o f BY <1>0, <2>0, <2>3, FrontBehind DEF Flags
    <2>5. Append(f, y) \in Flags /\ Len(Append(f, y)) = Len(f) + 1 BY <1>0, AppendProperties DEF Flags
    <2>6. Append(<<x>> \o f, y) = <<x>> \o Append(f, y) BY <1>0, AppendBehind DEF Flags
    <2>7. DeeperBy(i) = 0 BY <1>2, <2>0 DEF DeeperBy
    <2>8. Len(f) + 1 = Len(flags) + 0 BY <1>00, <2>3
    <2> QED BY <1>0, <2>2, <2>4, <2>5, <2>6, <2>7, <2>8
  <1>3. CASE i.op = OP_ENDIF
    <2>0. i.op \notin Conditional /\ i.op # OP_ELSE /\ flags # <<>> BY <1>01, <1>3, Opcodes DEF Turning
    <2>1. FlagsNext(m, i, all) = Front(all) BY <1>3, <2>0 DEF FlagsNext
    <2>2. PICK f \in Flags : f = Front(flags) /\ Len(f) = Len(flags) - 1
      BY <1>0, <2>0, FrontAndLast DEF Flags
    <2>3. Front(all) = <<x>> \o f BY <1>0, <2>0, <2>2, FrontBehind DEF Flags
    <2>4. DeeperBy(i) = 0 - 1 BY <1>3, <2>0 DEF DeeperBy
    <2>5. Len(f) = Len(flags) + (0 - 1) BY <1>00, <2>2
    <2> QED BY <1>0, <2>1, <2>2, <2>3, <2>4, <2>5
  <1>4. CASE i.op \notin Conditional /\ i.op \notin Turning
    <2>1. FlagsNext(m, i, all) = all BY <1>4 DEF FlagsNext, Turning
    <2>2. DeeperBy(i) = 0 BY <1>4 DEF DeeperBy, Turning
    <2>3. Len(flags) = Len(flags) + 0 BY <1>00
    <2> QED BY <1>0, <2>1, <2>2, <2>3
  <1> QED BY <1>1, <1>2, <1>3, <1>4 DEF Turning

LEMMA OnBehind ==
  ASSUME NEW x \in BOOLEAN, NEW flags \in Flags
  PROVE  On(<<x>> \o flags) <=> x /\ On(flags)
  <1>1. PICK all : all = <<x>> \o flags OBVIOUS
  <1>2. /\ DOMAIN all = 1 .. Len(flags) + 1 /\ all[1] = x
        /\ \A k \in 1 .. Len(flags) : all[k + 1] = flags[k]
    <2>1. /\ all \in Seq(BOOLEAN) /\ Len(all) = Len(flags) + 1 /\ all[1] = x
          /\ \A k \in 1 .. Len(flags) : all[k + 1] = flags[k]
      BY <1>1, Before1 DEF Flags
    <2>2. DOMAIN all = 1 .. Len(all) BY <2>1, LenProperties
    <2> QED BY <2>1, <2>2
  <1>3. Len(flags) \in Nat /\ DOMAIN flags = 1 .. Len(flags) BY LenProperties DEF Flags
  <1>4. ASSUME On(all) PROVE x /\ On(flags)
    <2>1. 1 \in DOMAIN all BY <1>2, <1>3
    <2>2. x BY <1>2, <1>4, <2>1 DEF On
    <2>3. ASSUME NEW k \in DOMAIN flags PROVE flags[k]
      <3>1. k \in 1 .. Len(flags) /\ k + 1 \in DOMAIN all BY <1>2, <1>3
      <3>2. all[k + 1] BY <1>4, <3>1 DEF On
      <3> QED BY <1>2, <3>1, <3>2
    <2> QED BY <2>2, <2>3 DEF On
  <1>5. ASSUME x, On(flags) PROVE On(all)
    <2>1. SUFFICES ASSUME NEW k \in DOMAIN all PROVE all[k] BY DEF On
    <2>2. CASE k = 1 BY <1>2, <1>5, <2>2
    <2>3. CASE k # 1
      <3>1. k - 1 \in 1 .. Len(flags) /\ (k - 1) + 1 = k BY <1>2, <1>3, <2>1, <2>3
      <3>2. flags[k - 1] BY <1>3, <1>5, <3>1 DEF On
      <3> QED BY <1>2, <3>1, <3>2
    <2> QED BY <2>2, <2>3
  <1> QED BY <1>1, <1>4, <1>5

LEMMA OnInside ==
  ASSUME NEW i, NEW x, NEW flags, NEW all, Flagging(all, x, flags, i), x
  PROVE  On(all) <=> On(flags)
  <1>1. x \in BOOLEAN /\ flags \in Flags /\ all = <<x>> \o flags BY DEF Flagging
  <1> QED BY <1>1, OnBehind

LEMMA EngineInside ==
  ASSUME NEW c, NEW m, NEW i, NEW flags, NEW all, On(all) <=> On(flags)
  PROVE  EngineNext(c, m, i, all) = EngineNext(c, m, i, flags)
  BY DEF EngineNext

\* Inside a conditional whose branch runs, an instruction does what it does alone.
LEMMA RunInside ==
  ASSUME NEW c, NEW m, NEW i, NEW x, NEW flags, NEW all, Flagging(all, x, flags, i), x
  PROVE  FlagsNext(m, i, all) = <<x>> \o FlagsNext(m, i, flags)
  <1>1. x \in BOOLEAN /\ flags \in Flags /\ all = <<x>> \o flags BY DEF Flagging
  <1>01. i.op \notin Turning \/ flags # <<>> BY DEF Flagging
  <1>2. On(all) <=> On(flags) BY <1>1, OnBehind
  <1>4. CASE i.op \in Conditional
    <2>1. Entered(m, i, all) = Entered(m, i, flags) BY <1>2, Zenon DEF Entered
    <2>2. PICK y \in BOOLEAN : y = Entered(m, i, flags) BY EnteredIs, Zenon
    <2>3. FlagsNext(m, i, all) = Append(all, y) BY <1>4, <2>1, <2>2, Zenon DEF FlagsNext
    <2>4. FlagsNext(m, i, flags) = Append(flags, y) BY <1>4, <2>2, Zenon DEF FlagsNext
    <2>5. Append(<<x>> \o flags, y) = <<x>> \o Append(flags, y) BY <1>1, AppendBehind DEF Flags
    <2> QED BY <1>1, <2>3, <2>4, <2>5
  <1>5. CASE i.op = OP_ELSE
    <2>0. i.op \notin Conditional /\ flags # <<>> BY <1>01, <1>5, Opcodes DEF Turning
    <2>1. Front(all) = <<x>> \o Front(flags) /\ Last(all) = Last(flags) /\ Front(flags) \in Flags
      BY <1>1, <2>0, FrontBehind, FrontAndLast DEF Flags
    <2>2. PICK y \in BOOLEAN : y = ~Last(flags) BY NegationIs, Zenon
    <2>3. FlagsNext(m, i, all) = Append(Front(all), y) BY <1>5, <2>0, <2>1, <2>2, Zenon DEF FlagsNext
    <2>4. FlagsNext(m, i, flags) = Append(Front(flags), y) BY <1>5, <2>0, <2>2, Zenon DEF FlagsNext
    <2>5. PICK f \in Flags : f = Front(flags) BY <2>1
    <2>6. Append(<<x>> \o f, y) = <<x>> \o Append(f, y) BY <1>1, AppendBehind DEF Flags
    <2> QED BY <1>1, <2>1, <2>3, <2>4, <2>5, <2>6
  <1>6. CASE i.op = OP_ENDIF
    <2>0. i.op \notin Conditional /\ i.op # OP_ELSE /\ flags # <<>> BY <1>01, <1>6, Opcodes DEF Turning
    <2>1. Front(all) = <<x>> \o Front(flags) BY <1>1, <2>0, FrontBehind DEF Flags
    <2>2. FlagsNext(m, i, all) = Front(all) /\ FlagsNext(m, i, flags) = Front(flags)
      BY <1>6, <2>0 DEF FlagsNext
    <2> QED BY <1>1, <2>1, <2>2
  <1>7. CASE i.op \notin Conditional /\ i.op \notin Turning
    <2>1. FlagsNext(m, i, all) = all /\ FlagsNext(m, i, flags) = flags BY <1>7 DEF FlagsNext, Turning
    <2> QED BY <1>1, <2>1
  <1> QED BY <1>4, <1>5, <1>6, <1>7 DEF Turning

\* Inside one whose branch does not run, it does nothing to the engine.
LEMMA SkippedInside ==
  ASSUME NEW c, NEW m, NEW i, NEW x, NEW flags, NEW all, Flagging(all, x, flags, i), ~x
  PROVE  EngineNext(c, m, i, all) = m
  <1>2. x \in BOOLEAN /\ flags \in Flags /\ all = <<x>> \o flags BY DEF Flagging
  <1>1. ~On(all) BY <1>2, OnBehind
  <1> QED BY <1>1 DEF EngineNext

LEMMA ShapeLength ==
  ASSUME NEW levels \in Levels, NEW i, i.op \notin Turning \/ levels # <<>>,
         ShapeNext(levels, i.op) # Unbalanced
  PROVE  Len(ShapeNext(levels, i.op)) = Len(levels) + DeeperBy(i)
  <1>0. Len(levels) \in Nat BY DEF Levels
  <1>1. CASE i.op \in Conditional
    <2>1. 0 \in {0, 1} OBVIOUS
    <2>2. Len(Append(levels, 0)) = Len(levels) + 1 BY <2>1, AppendProperties DEF Levels
    <2> QED BY <1>1, <2>2, ShapeCases DEF DeeperBy
  <1>2. CASE i.op = OP_ELSE
    <2>0. i.op \notin Conditional /\ i.op # OP_ENDIF /\ levels # <<>> BY <1>2, Opcodes DEF Turning
    <2>1. Front(levels) \in Levels /\ Len(Front(levels)) = Len(levels) - 1
      BY <2>0, FrontAndLast DEF Levels
    <2>2. PICK f \in Levels : f = Front(levels) BY <2>1
    <2>3. 1 \in {0, 1} OBVIOUS
    <2>4. Len(Append(f, 1)) = Len(f) + 1 BY <2>3, AppendProperties DEF Levels
    <2>5. ShapeNext(levels, i.op) = Append(Front(levels), 1) BY <1>2, <2>0, ShapeCases
    <2> QED BY <1>0, <2>0, <2>1, <2>2, <2>4, <2>5 DEF DeeperBy
  <1>3. CASE i.op = OP_ENDIF
    <2>0. i.op \notin Conditional /\ levels # <<>> BY <1>3, Opcodes DEF Turning
    <2>1. Len(Front(levels)) = Len(levels) - 1 BY <2>0, FrontAndLast DEF Levels
    <2> QED BY <1>0, <1>3, <2>0, <2>1, ShapeCases DEF DeeperBy
  <1>4. CASE i.op \notin Conditional /\ i.op \notin Turning
    BY <1>0, <1>4, ShapeCases DEF DeeperBy, Turning
  <1> QED BY <1>1, <1>2, <1>3, <1>4 DEF Turning

(*----------------------------- the block of a conditional -----------------------------*)

Blocks == [next : Nat, depth : Nat, other : BOOLEAN, met : Str, unmet : Str]

\* What a change of one field leaves alone.
LEMMA RecordMoved ==
  ASSUME NEW S, NEW b \in [next : Nat, depth : Nat, other : BOOLEAN, met : S, unmet : S],
         NEW x \in Nat, NEW n, n = [b EXCEPT !.next = x]
  PROVE  /\ n \in [next : Nat, depth : Nat, other : BOOLEAN, met : S, unmet : S]
         /\ n.next = x /\ n.other = b.other /\ n.depth = b.depth /\ n.met = b.met /\ n.unmet = b.unmet
  <1>1. n \in [next : Nat, depth : Nat, other : BOOLEAN, met : S, unmet : S] OBVIOUS
  <1>2. n.next = x /\ n.depth = b.depth OBVIOUS
  <1>3. n.other = b.other OBVIOUS
  <1>4. n.met = b.met /\ n.unmet = b.unmet OBVIOUS
  <1> QED BY <1>1, <1>2, <1>3, <1>4, Zenon

LEMMA BlockMoved ==
  ASSUME NEW b \in Blocks, NEW x \in Nat, NEW n, n = [b EXCEPT !.next = x]
  PROVE  /\ n \in Blocks /\ n.next = x /\ n.other = b.other /\ n.depth = b.depth
         /\ n.met = b.met /\ n.unmet = b.unmet
  BY RecordMoved DEF Blocks

LEMMA RecordDeeper ==
  ASSUME NEW S, NEW b \in [next : Nat, depth : Nat, other : BOOLEAN, met : S, unmet : S],
         NEW x \in Nat, NEW n, n = [b EXCEPT !.depth = x]
  PROVE  /\ n \in [next : Nat, depth : Nat, other : BOOLEAN, met : S, unmet : S]
         /\ n.next = b.next /\ n.other = b.other /\ n.depth = x /\ n.met = b.met /\ n.unmet = b.unmet
  <1>1. n \in [next : Nat, depth : Nat, other : BOOLEAN, met : S, unmet : S] OBVIOUS
  <1>2. n.next = b.next /\ n.depth = x OBVIOUS
  <1>3. n.other = b.other OBVIOUS
  <1>4. n.met = b.met /\ n.unmet = b.unmet OBVIOUS
  <1> QED BY <1>1, <1>2, <1>3, <1>4, Zenon

LEMMA BlockDeeper ==
  ASSUME NEW b \in Blocks, NEW x \in Nat, NEW n, n = [b EXCEPT !.depth = x]
  PROVE  /\ n \in Blocks /\ n.next = b.next /\ n.other = b.other /\ n.depth = x
         /\ n.met = b.met /\ n.unmet = b.unmet
  BY RecordDeeper DEF Blocks

LEMMA RecordTurned ==
  ASSUME NEW S, NEW b \in [next : Nat, depth : Nat, other : BOOLEAN, met : S, unmet : S],
         NEW n, n = [b EXCEPT !.depth = 1, !.other = TRUE]
  PROVE  /\ n \in [next : Nat, depth : Nat, other : BOOLEAN, met : S, unmet : S]
         /\ n.next = b.next /\ n.other /\ n.depth = 1 /\ n.met = b.met /\ n.unmet = b.unmet
  <1>1. n \in [next : Nat, depth : Nat, other : BOOLEAN, met : S, unmet : S] OBVIOUS
  <1>2. n.next = b.next /\ n.depth = 1 OBVIOUS
  <1>3. n.other OBVIOUS
  <1>4. n.met = b.met /\ n.unmet = b.unmet OBVIOUS
  <1> QED BY <1>1, <1>2, <1>3, <1>4, Zenon
LEMMA BlockTurned ==
  ASSUME NEW b \in Blocks, NEW n, n = [b EXCEPT !.depth = 1, !.other = TRUE]
  PROVE  /\ n \in Blocks /\ n.next = b.next /\ n.other /\ n.depth = 1
         /\ n.met = b.met /\ n.unmet = b.unmet
  BY RecordTurned DEF Blocks

\* The branch that is run when the condition is met, or the other one.
Chosen(b, taken) == IF taken THEN b.met ELSE b.unmet

\* An instruction inside the block.
LEMMA BlockInside ==
  ASSUME NEW code \in Str, NEW b \in Blocks, b.depth # 0, b.next \in 1 .. Len(code),
         Instruction(code, b.next).ok,
         Instruction(code, b.next).op \notin Turning \/ b.depth # 1,
         NEW taken \in BOOLEAN
  PROVE  LET ins == Instruction(code, b.next)
             raw == SubSeq(code, b.next, ins.next - 1)
             n == BlockNext(code, b)
         IN /\ n \in Blocks /\ n.next = ins.next /\ n.other = b.other
            /\ n.depth = b.depth + DeeperBy(Content(ins))
            /\ Chosen(n, taken) = IF b.other # taken THEN Chosen(b, taken) \o raw ELSE Chosen(b, taken)
  <1>1. PICK ins : ins = Instruction(code, b.next) OBVIOUS
  <1>2. PICK raw : raw = SubSeq(code, b.next, ins.next - 1) OBVIOUS
  <1>3. /\ ins.next \in b.next + 1 .. Len(code) + 1 /\ raw \in Str /\ Len(code) \in Nat
        /\ Content(ins).op = ins.op
    <2>1. Len(code) \in Nat BY DEF Str
    <2> QED BY <1>1, <1>2, <2>1, InstructionReads
  <1>4. ins.next \in Nat BY <1>3 DEF Blocks
  <1>5. PICK kept \in Blocks :
          /\ kept = IF b.other THEN [[b EXCEPT !.next = ins.next] EXCEPT !.unmet = @ \o raw]
                    ELSE [[b EXCEPT !.next = ins.next] EXCEPT !.met = @ \o raw]
          /\ kept.next = ins.next /\ kept.other = b.other /\ kept.depth = b.depth
          /\ b.other => kept.met = b.met /\ kept.unmet = b.unmet \o raw
          /\ ~b.other => kept.met = b.met \o raw /\ kept.unmet = b.unmet
    <2>1. PICK met \in Str : met = b.met \o raw BY <1>3, ConcatProperties DEF Blocks, Str
    <2>2. PICK unmet \in Str : unmet = b.unmet \o raw BY <1>3, ConcatProperties DEF Blocks, Str
    <2>3a. PICK moved : moved = [b EXCEPT !.next = ins.next] OBVIOUS
    <2>3. moved \in Blocks /\ moved = [b EXCEPT !.next = ins.next] /\ moved.next = ins.next
             /\ moved.other = b.other /\ moved.depth = b.depth /\ moved.met = b.met
             /\ moved.unmet = b.unmet
      BY <1>4, <2>3a, BlockMoved
    <2>4. CASE b.other
      <3>1. PICK kept : kept = [moved EXCEPT !.unmet = unmet] OBVIOUS
      <3>2. /\ kept \in Blocks /\ kept.next = ins.next /\ kept.other = b.other
            /\ kept.depth = b.depth /\ kept.met = b.met /\ kept.unmet = unmet
        BY <2>3, <3>1 DEF Blocks
      <3>3. kept = [[b EXCEPT !.next = ins.next] EXCEPT !.unmet = @ \o raw]
        BY <2>2, <2>3, <3>1
      <3> QED BY <2>2, <2>4, <3>2, <3>3
    <2>5. CASE ~b.other
      <3>1. PICK kept : kept = [moved EXCEPT !.met = met] OBVIOUS
      <3>2. /\ kept \in Blocks /\ kept.next = ins.next /\ kept.other = b.other
            /\ kept.depth = b.depth /\ kept.unmet = b.unmet /\ kept.met = met
        BY <2>3, <3>1 DEF Blocks
      <3>3. kept = [[b EXCEPT !.next = ins.next] EXCEPT !.met = @ \o raw]
        BY <2>1, <2>3, <3>1
      <3> QED BY <2>1, <2>5, <3>2, <3>3
    <2> QED BY <2>4, <2>5
  <1>6. PICK n : n = BlockNext(code, b) OBVIOUS
  <1>7. b.depth \in Nat \ {0} /\ ~ (b.next > Len(code)) BY <1>3 DEF Blocks
  <1>8. n = CASE ins.op \in Conditional -> [kept EXCEPT !.depth = @ + 1]
              [] ins.op = OP_ENDIF /\ b.depth > 1 -> [kept EXCEPT !.depth = @ - 1]
              [] OTHER -> kept
    <2>1. ~Turns(ins.op, b.depth) /\ ~(ins.op = OP_ENDIF /\ b.depth = 1)
      BY <1>1 DEF Turns, Turning
    <2> QED BY <1>1, <1>2, <1>5, <1>6, <1>7, <2>1 DEF BlockNext
  <1>9. /\ n \in Blocks /\ n.next = ins.next /\ n.other = b.other
        /\ n.depth = b.depth + DeeperBy(Content(ins)) /\ n.met = kept.met /\ n.unmet = kept.unmet
    <2>1. CASE ins.op \in Conditional
      <3>1. n = [kept EXCEPT !.depth = b.depth + 1]
        BY <1>5, <1>8, <2>1, Opcodes DEF Turning
      <3>2. DeeperBy(Content(ins)) = 1 BY <1>3, <2>1 DEF DeeperBy
      <3>3. b.depth + 1 \in Nat BY <1>7
      <3>4. PICK y \in Nat : y = b.depth + 1 BY <3>3
      <3>9. PICK x : x = [kept EXCEPT !.depth = y] OBVIOUS
      <3>10. /\ x \in Blocks /\ x.next = kept.next /\ x.depth = y
             /\ x.other = kept.other /\ x.met = kept.met /\ x.unmet = kept.unmet
        <4>1. kept \in Blocks BY <1>5
        <4> QED BY <3>9, <4>1, BlockDeeper
      <3> QED BY <1>5, <3>1, <3>2, <3>4, <3>9, <3>10
    <2>2. CASE ins.op = OP_ENDIF
      <3>1. ins.op \notin Conditional /\ b.depth > 1 BY <1>1, <1>7, <2>2, Opcodes DEF Turning
      <3>2. n = [kept EXCEPT !.depth = b.depth - 1] BY <1>5, <1>8, <2>2, <3>1
      <3>3. DeeperBy(Content(ins)) = 0 - 1 BY <1>3, <2>2, <3>1 DEF DeeperBy
      <3>4. b.depth - 1 \in Nat /\ b.depth + (0 - 1) = b.depth - 1 BY <1>7
      <3>5. PICK y \in Nat : y = b.depth - 1 BY <3>4
      <3>9. PICK x : x = [kept EXCEPT !.depth = y] OBVIOUS
      <3>10. /\ x \in Blocks /\ x.next = kept.next /\ x.depth = y
             /\ x.other = kept.other /\ x.met = kept.met /\ x.unmet = kept.unmet
        <4>1. kept \in Blocks BY <1>5
        <4> QED BY <3>9, <4>1, BlockDeeper
      <3> QED BY <1>5, <3>2, <3>3, <3>4, <3>5, <3>9, <3>10
    <2>3. CASE ins.op \notin Conditional /\ ins.op # OP_ENDIF
      <3>1. n = kept BY <1>8, <2>3
      <3>2. DeeperBy(Content(ins)) = 0 BY <1>3, <2>3 DEF DeeperBy
      <3> QED BY <1>5, <1>7, <3>1, <3>2
    <2> QED BY <2>1, <2>2, <2>3
  <1>10. Chosen(n, taken) = IF b.other # taken THEN Chosen(b, taken) \o raw ELSE Chosen(b, taken)
    BY <1>5, <1>9 DEF Chosen, Blocks
  <1> QED BY <1>1, <1>2, <1>6, <1>9, <1>10

\* The OP_ELSE and the OP_ENDIF of the block itself.
LEMMA BlockTurns ==
  ASSUME NEW code \in Str, NEW b \in Blocks, b.depth = 1, b.next \in 1 .. Len(code),
         Instruction(code, b.next).ok, NEW taken \in BOOLEAN
  PROVE  LET ins == Instruction(code, b.next)
             n == BlockNext(code, b)
         IN /\ ins.op = OP_ELSE => n \in Blocks /\ n.next = ins.next /\ n.other /\ n.depth = 1
                                   /\ Chosen(n, taken) = Chosen(b, taken)
            /\ ins.op = OP_ENDIF => n \in Blocks /\ n.next = ins.next /\ n.depth = 0
                                    /\ Chosen(n, taken) = Chosen(b, taken)
  <1>1. PICK ins : ins = Instruction(code, b.next) OBVIOUS
  <1>2. Len(code) \in Nat BY DEF Str
  <1>3. ins.next \in b.next + 1 .. Len(code) + 1 BY <1>1, InstructionReads
  <1>4. ins.next \in Nat /\ ~ (b.next > Len(code)) /\ b.depth # 0 BY <1>2, <1>3 DEF Blocks
  <1>5a. PICK moved : moved = [b EXCEPT !.next = ins.next] OBVIOUS
  <1>5. moved \in Blocks /\ moved = [b EXCEPT !.next = ins.next] /\ moved.next = ins.next
             /\ moved.other = b.other /\ moved.depth = b.depth /\ moved.met = b.met
             /\ moved.unmet = b.unmet
    BY <1>4, <1>5a, BlockMoved
  <1>6. PICK n : n = BlockNext(code, b) OBVIOUS
  <1>7. CASE ins.op = OP_ELSE
    <2>1. ins.op \notin Conditional /\ ins.op # OP_ENDIF BY <1>7, Opcodes DEF Turning
    <2>5. PICK turned : turned = [moved EXCEPT !.depth = 1, !.other = TRUE] OBVIOUS
    <2>3. /\ turned \in Blocks /\ turned.next = moved.next /\ turned.other /\ turned.depth = 1
          /\ turned.met = moved.met /\ turned.unmet = moved.unmet
      <3>1. moved \in Blocks BY <1>5
      <3> QED BY <2>5, <3>1, BlockTurned
    <2>4. n = turned BY <1>1, <1>4, <1>5, <1>6, <1>7, <2>1, <2>5 DEF BlockNext, Turns
    <2> QED BY <1>1, <1>5, <1>6, <1>7, <2>1, <2>3, <2>4 DEF Chosen
  <1>8. CASE ins.op = OP_ENDIF
    <2>1. ins.op \notin Conditional /\ ins.op # OP_ELSE BY <1>8, Opcodes DEF Turning
    <2>4. 0 \in Nat OBVIOUS
    <2>5. PICK ended : ended = [moved EXCEPT !.depth = 0] OBVIOUS
    <2>2. /\ ended \in Blocks /\ ended.next = ins.next /\ ended.depth = 0
          /\ ended.met = b.met /\ ended.unmet = b.unmet
      <3>1. moved \in Blocks BY <1>5
      <3>2. /\ ended \in Blocks /\ ended.next = moved.next /\ ended.depth = 0
            /\ ended.met = moved.met /\ ended.unmet = moved.unmet
        BY <2>4, <2>5, <3>1, BlockDeeper
      <3> QED BY <1>5, <3>2
    <2>3. n = ended BY <1>1, <1>4, <1>5, <1>6, <1>8, <2>1, <2>5 DEF BlockNext, Turns
    <2> QED BY <1>1, <1>6, <1>8, <2>1, <2>2, <2>3 DEF Chosen
  <1>9. CASE ins.op # OP_ELSE /\ ins.op # OP_ENDIF BY <1>1, <1>9
  <1> QED BY <1>7, <1>8, <1>9

(*---------------------- the block and the script read once ----------------------*)

\* The instructions that have a name.
NamedIns == {i \in Ins : i.op \notin \hbb..\hfe}

LEMMA NamedRead ==
  ASSUME NEW s \in Seq(NamedIns)
  PROVE  s \in Seq(Ins) /\ Len(s) \in Nat
  <1>1. NamedIns \subseteq Ins BY DEF NamedIns
  <1> QED BY <1>1, SeqMonotonic, LenProperties

\* Behind the script X with machine m0 the interpreter is where it is with m and G.
RunsLike(c, m0, X, m, G) ==
    \A Z \in Seq(Ins) : Outcome(c, m0, X \o Z, <<>>) = Outcome(c, m, Z, G)

LEMMA RunsNothing ==
  ASSUME NEW c, NEW m
  PROVE  RunsLike(c, m, <<>>, m, <<>>)
  BY ConcatEmptySeq DEF RunsLike

LEMMA RunsOneMore ==
  ASSUME NEW c, NEW m0, NEW X \in Seq(Ins), NEW i \in Ins, NEW m, Machine(m), NEW G,
         RunsLike(c, m0, X, m, G)
  PROVE  RunsLike(c, m0, Append(X, i), EngineNext(c, m, i, G), FlagsNext(m, i, G))
  <1>1. SUFFICES ASSUME NEW Z \in Seq(Ins)
                 PROVE  Outcome(c, m0, Append(X, i) \o Z, <<>>)
                          = Outcome(c, EngineNext(c, m, i, G), Z, FlagsNext(m, i, G))
    BY DEF RunsLike
  <1>2. <<i>> \in Seq(Ins) BY Single
  <1>3. Append(X, i) = X \o <<i>> BY AppendIsConcat
  <1>4. (X \o <<i>>) \o Z = X \o (<<i>> \o Z) BY <1>2, ConcatAssociative
  <1>5. <<i>> \o Z \in Seq(Ins) BY <1>2, ConcatProperties
  <1>6. Outcome(c, m0, X \o (<<i>> \o Z), <<>>) = Outcome(c, m, <<i>> \o Z, G) BY <1>5 DEF RunsLike
  <1>7. Outcome(c, m, <<i>> \o Z, G) = Outcome(c, EngineNext(c, m, i, G), Z, FlagsNext(m, i, G))
    BY OneInstruction
  <1> QED BY <1>3, <1>4, <1>6, <1>7

LEMMA HeadOfJoined ==
  ASSUME NEW V, NEW L \in Seq(V), L # <<>>, NEW R \in Seq(V)
  PROVE  L \o R = <<L[1]>> \o (Tail(L) \o R) /\ Tail(L) \o R \in Seq(V)
  <1>1. PICK y \in V : y = L[1] BY HeadAndTail
  <1>2. Tail(L) \in Seq(V) /\ L = <<y>> \o Tail(L) BY <1>1, HeadAndTail
  <1>3. <<y>> \in Seq(V) BY Single
  <1>4. (<<y>> \o Tail(L)) \o R = <<y>> \o (Tail(L) \o R) BY <1>2, <1>3, ConcatAssociative
  <1>5. Tail(L) \o R \in Seq(V) BY <1>2, ConcatProperties
  <1> QED BY <1>1, <1>2, <1>4, <1>5

\* The instructions L wait behind the levels S, and the interpreter comes to t with them.
Awaits(c, code, t, R, next, L, S, F, m) ==
    /\ L \in Seq(NamedIns) /\ Parses(code, next, L)
    /\ S \in Levels /\ Shaped(S, L, <<>>)
    /\ F \in Flags /\ Machine(m)
    /\ Outcome(c, m, L \o R, F) = t

LEMMA HeadRead ==
  ASSUME NEW c, NEW code \in Str, NEW t, NEW R \in Seq(Ins), NEW next, NEW L, NEW S, NEW F, NEW m,
         Awaits(c, code, t, R, next, L, S, F, m), L # <<>>
  PROVE  LET ins == Instruction(code, next)
             i == Content(ins)
             T == Tail(L)
         IN /\ next \in 1 .. Len(code) /\ ins.ok /\ i \in NamedIns /\ i.op = ins.op
            /\ T \in Seq(NamedIns) /\ Parses(code, ins.next, T)
            /\ Shaped(ShapeNext(S, i.op), T, <<>>)
            /\ Outcome(c, EngineNext(c, m, i, F), T \o R, FlagsNext(m, i, F)) = t
  <1>1. /\ L \in Seq(NamedIns) /\ Parses(code, next, L) /\ Shaped(S, L, <<>>)
        /\ F \in Flags /\ Machine(m) /\ Outcome(c, m, L \o R, F) = t
    BY DEF Awaits
  <1>2. PICK ins : ins = Instruction(code, next) OBVIOUS
  <1>3. PICK i : i = Content(ins) OBVIOUS
  <1>4. PICK T : T = Tail(L) OBVIOUS
  <1>5. /\ next \in 1 .. Len(code) /\ ins.ok /\ L[1] = i /\ Parses(code, ins.next, T)
    BY <1>1, <1>2, <1>3, <1>4, CutsHead DEF Parses
  <1>6. L[1] \in NamedIns /\ T \in Seq(NamedIns) /\ L = <<L[1]>> \o T BY <1>1, <1>4, HeadAndTail
  <1>7. i.op = ins.op BY <1>3, <1>2, <1>5, InstructionReads
  <1>8. Shaped(ShapeNext(S, i.op), T, <<>>) BY <1>1, <1>4, <1>5, ShapedHead
  <1>9. Outcome(c, EngineNext(c, m, i, F), T \o R, FlagsNext(m, i, F)) = t
    <2>1. i \in Ins /\ T \in Seq(Ins) BY <1>5, <1>6, NamedRead DEF NamedIns
    <2>2. PICK Z : Z = T \o R OBVIOUS
    <2>3. L \o R = <<i>> \o Z /\ Z \in Seq(Ins)
      <3>1. L \in Seq(Ins) BY <1>1, NamedRead
      <3>2. L \o R = <<L[1]>> \o (Tail(L) \o R) /\ Tail(L) \o R \in Seq(Ins) BY <3>1, HeadOfJoined
      <3> QED BY <1>4, <1>5, <2>2, <3>2
    <2>5. Outcome(c, m, <<i>> \o Z, F) = Outcome(c, EngineNext(c, m, i, F), Z, FlagsNext(m, i, F))
      <3>1. Machine(m) /\ i \in Ins /\ Z \in Seq(Ins) BY <1>1, <2>1, <2>3
      <3> QED BY <3>1, OneInstruction
    <2> QED BY <1>1, <2>2, <2>3, <2>5
  <1> QED BY <1>2, <1>3, <1>4, <1>5, <1>6, <1>7, <1>8, <1>9

\* The branch X that is collected, its open levels q, and the interpreter behind it.
Collected(c, m0, branch, X, q, m, G) ==
    /\ X \in Seq(NamedIns) /\ Parses(branch, 1, X)
    /\ q \in Levels /\ Shaped(<<>>, X, q)
    /\ Machine(m) /\ G \in Flags /\ RunsLike(c, m0, X, m, G)

LEMMA OneCollected ==
  ASSUME NEW c, NEW m0, NEW branch, NEW X, NEW q, NEW m, NEW G, Collected(c, m0, branch, X, q, m, G),
         NEW code \in Str, NEW at \in 1 .. Len(code), Instruction(code, at).ok,
         NEW i \in NamedIns, i = Content(Instruction(code, at)), i.op \notin Turning \/ G # <<>>,
         ShapeNext(q, i.op) \in Levels
  PROVE  Collected(c, m0, branch \o SubSeq(code, at, Instruction(code, at).next - 1), Append(X, i),
                   ShapeNext(q, i.op), EngineNext(c, m, i, G), FlagsNext(m, i, G))
  <1>1. /\ X \in Seq(NamedIns) /\ Parses(branch, 1, X) /\ Shaped(<<>>, X, q)
        /\ Machine(m) /\ G \in Flags /\ RunsLike(c, m0, X, m, G)
    BY DEF Collected
  <1>2. Append(X, i) \in Seq(NamedIns) BY <1>1, AppendProperties
  <1>3. Parses(branch \o SubSeq(code, at, Instruction(code, at).next - 1), 1, Append(X, i))
    BY <1>1, ParsesCopied
  <1>4. Shaped(<<>>, Append(X, i), ShapeNext(q, i.op)) BY <1>1, ShapedMore
  <1>5. Machine(EngineNext(c, m, i, G)) BY <1>1, EngineNextKeeps
  <1>6. FlagsNext(m, i, G) \in Flags BY <1>1, FlagsNextIs
  <1>7. RunsLike(c, m0, Append(X, i), EngineNext(c, m, i, G), FlagsNext(m, i, G))
    <2>1. X \in Seq(Ins) /\ i \in Ins BY <1>1, NamedRead DEF NamedIns
    <2> QED BY <1>1, <2>1, RunsOneMore
  <1> QED BY <1>2, <1>3, <1>4, <1>5, <1>6, <1>7 DEF Collected

\* The branch that is being read is the one that runs.
Taking(b, taken) == b.other # taken

\* Inside the block: e and x are the level and the flag of the block itself, Q and H
\* those of the conditionals inside it.
Standing(b, taken, x, e, Q, H, S, F) ==
    /\ x \in BOOLEAN /\ (x <=> Taking(b, taken))
    /\ e \in {0, 1} /\ (e = 1 <=> b.other)
    /\ Q \in Levels /\ H \in Flags
    /\ Len(Q) + 1 = b.depth /\ Len(H) + 1 = b.depth
    /\ S = <<e>> \o Q /\ F = <<x>> \o H
Inside(b, taken, S, q, F, G) ==
    \E x, e, Q, H :
        /\ Standing(b, taken, x, e, Q, H, S, F)
        /\ Taking(b, taken) => q = Q /\ G = H
        /\ ~Taking(b, taken) => q = <<>> /\ G = <<>>
Outside(S, q, F, G) == S = <<>> /\ q = <<>> /\ F = <<>> /\ G = <<>>

\* The interpreter that reads the script once is with the block: the instructions L
\* that are left bring it to t, and the branch X that is collected brings m0 to m.
Followed(c, code, m0, t, R, taken, b) ==
    \E L, S, F, X, q, G, m :
        /\ Awaits(c, code, t, R, b.next, L, S, F, m)
        /\ Collected(c, m0, Chosen(b, taken), X, q, m, G)
        /\ \/ b.depth = 0 /\ Outside(S, q, F, G)
           \/ b.depth # 0 /\ Inside(b, taken, S, q, F, G)

\* The levels inside the block after an instruction that is not the block's own.
LEMMA LevelsInside ==
  ASSUME NEW e \in {0, 1}, NEW Q \in Levels, NEW i, i.op \notin Turning \/ Q # <<>>,
         NEW T, Len(T) \in Nat, Shaped(ShapeNext(<<e>> \o Q, i.op), T, <<>>)
  PROVE  /\ ShapeNext(Q, i.op) \in Levels
         /\ ShapeNext(<<e>> \o Q, i.op) = <<e>> \o ShapeNext(Q, i.op)
         /\ Len(ShapeNext(Q, i.op)) = Len(Q) + DeeperBy(i)
  <1>1. ShapeNext(<<e>> \o Q, i.op) # Unbalanced
    <2>1. <<>> # Unbalanced BY DEF Unbalanced
    <2> QED BY <2>1, UnbalancedStays
  <1>2. /\ ShapeNext(Q, i.op) \in Levels
        /\ ShapeNext(<<e>> \o Q, i.op) = <<e>> \o ShapeNext(Q, i.op)
    BY <1>1, ShapeBehind
  <1>3. ShapeNext(Q, i.op) # Unbalanced BY <1>2, LevelsBalanced
  <1> QED BY <1>2, <1>3, ShapeLength

\* An instruction in the branch that runs.
LEMMA TakingStep ==
  ASSUME NEW c, NEW code \in Str, NEW m0, NEW t, NEW R \in Seq(Ins), NEW taken \in BOOLEAN,
         NEW b \in Blocks, b.depth # 0, Taking(b, taken),
         NEW L, NEW S, NEW F, NEW X, NEW q, NEW G, NEW m, L # <<>>,
         Awaits(c, code, t, R, b.next, L, S, F, m),
         Collected(c, m0, Chosen(b, taken), X, q, m, G),
         Inside(b, taken, S, q, F, G),
         Instruction(code, b.next).op \notin Turning \/ b.depth # 1
  PROVE  Followed(c, code, m0, t, R, taken, BlockNext(code, b))
  <1>1. PICK x, e, Q, H : Standing(b, taken, x, e, Q, H, S, F) /\ q = Q /\ G = H BY DEF Inside
  <1>2. PICK ins : ins = Instruction(code, b.next) OBVIOUS
  <1>3. PICK i : i = Content(ins) OBVIOUS
  <1>4. PICK T : T = Tail(L) OBVIOUS
  <1>5. /\ b.next \in 1 .. Len(code) /\ ins.ok /\ i \in NamedIns /\ i.op = ins.op
        /\ T \in Seq(NamedIns) /\ Parses(code, ins.next, T)
        /\ Shaped(ShapeNext(S, i.op), T, <<>>)
        /\ Outcome(c, EngineNext(c, m, i, F), T \o R, FlagsNext(m, i, F)) = t
    BY <1>2, <1>3, <1>4, HeadRead
  <1>6. PICK n : n = BlockNext(code, b) OBVIOUS
  <1>7. /\ n \in Blocks /\ n.next = ins.next /\ n.other = b.other
        /\ n.depth = b.depth + DeeperBy(i)
        /\ Chosen(n, taken) = Chosen(b, taken) \o SubSeq(code, b.next, ins.next - 1)
    BY <1>2, <1>3, <1>5, <1>6, BlockInside DEF Taking
  <1>8. Taking(n, taken) BY <1>7 DEF Taking
  <1>9. /\ x \in BOOLEAN /\ x /\ e \in {0, 1} /\ Q \in Levels /\ H \in Flags
        /\ Len(Q) + 1 = b.depth /\ Len(H) + 1 = b.depth /\ S = <<e>> \o Q /\ F = <<x>> \o H
    BY <1>1 DEF Standing
  <1>10. Len(Q) \in Nat /\ Len(H) \in Nat BY <1>9 DEF Levels, Flags
  <1>11. i.op \notin Turning \/ (Q # <<>> /\ H # <<>>)
    <2>1. Len(<<>>) = 0 OBVIOUS
    <2> QED BY <1>2, <1>5, <1>9, <2>1
  <1>12. PICK P : P = ShapeNext(Q, i.op) OBVIOUS
  <1>13. P \in Levels /\ ShapeNext(S, i.op) = <<e>> \o P /\ Len(P) = Len(Q) + DeeperBy(i)
    <2>1. Len(T) \in Nat BY <1>5, NamedRead
    <2> QED BY <1>5, <1>9, <1>11, <1>12, <2>1, LevelsInside
  <1>14. PICK J : J = FlagsNext(m, i, H) OBVIOUS
  <1>15. J \in Flags /\ Len(J) = Len(H) + DeeperBy(i) BY <1>9, <1>11, <1>14, FlagsNextIs
  <1>16. PICK k : k = EngineNext(c, m, i, H) OBVIOUS
  <1>17. EngineNext(c, m, i, F) = k /\ FlagsNext(m, i, F) = <<x>> \o J
    <2>1. Flagging(F, x, H, i) BY <1>9, <1>11, Zenon DEF Flagging
    <2>2. x BY <1>9
    <2>3. EngineNext(c, m, i, F) = EngineNext(c, m, i, H) 
      <3>1. On(F) <=> On(H) BY <2>1, <2>2, OnInside
      <3> QED BY <3>1, EngineInside
    <2>4. FlagsNext(m, i, F) = <<x>> \o FlagsNext(m, i, H) BY <2>1, <2>2, RunInside
    <2> QED BY <1>14, <1>16, <2>3, <2>4, Zenon
  <1>18. Collected(c, m0, Chosen(n, taken), Append(X, i), P, k, J)
    BY <1>1, <1>2, <1>3, <1>5, <1>7, <1>11, <1>12, <1>13, <1>14, <1>16, OneCollected
  <1>19. Awaits(c, code, t, R, n.next, T, <<e>> \o P, <<x>> \o J, k)
    <2>1. <<e>> \o P \in Levels BY <1>9, <1>13, Before1 DEF Levels
    <2>2. <<x>> \o J \in Flags BY <1>9, <1>15, Before1 DEF Flags
    <2>3. Machine(k) BY <1>18 DEF Collected
    <2> QED BY <1>5, <1>7, <1>13, <1>17, <2>1, <2>2, <2>3 DEF Awaits
  <1>20. Standing(n, taken, x, e, P, J, <<e>> \o P, <<x>> \o J)
    <2>1. e = 1 <=> n.other BY <1>1, <1>7 DEF Standing
    <2>2. Len(P) + 1 = n.depth /\ Len(J) + 1 = n.depth
      <3>1. DeeperBy(i) \in Int BY DEF DeeperBy
      <3> QED BY <1>7, <1>9, <1>10, <1>13, <1>15, <3>1
    <2> QED BY <1>8, <1>9, <1>13, <1>15, <2>1, <2>2 DEF Standing
  <1>21. n.depth # 0
    <2>1. Len(P) \in Nat BY <1>13 DEF Levels
    <2> QED BY <1>20, <2>1 DEF Standing
  <1>22. Inside(n, taken, <<e>> \o P, P, <<x>> \o J, J) BY <1>8, <1>20, Zenon DEF Inside
  <1> QED BY <1>6, <1>18, <1>19, <1>21, <1>22, Zenon DEF Followed

\* An instruction in the branch that does not run.
LEMMA PassingStep ==
  ASSUME NEW c, NEW code \in Str, NEW m0, NEW t, NEW R \in Seq(Ins), NEW taken \in BOOLEAN,
         NEW b \in Blocks, b.depth # 0, ~Taking(b, taken),
         NEW L, NEW S, NEW F, NEW X, NEW q, NEW G, NEW m, L # <<>>,
         Awaits(c, code, t, R, b.next, L, S, F, m),
         Collected(c, m0, Chosen(b, taken), X, q, m, G),
         Inside(b, taken, S, q, F, G),
         Instruction(code, b.next).op \notin Turning \/ b.depth # 1
  PROVE  Followed(c, code, m0, t, R, taken, BlockNext(code, b))
  <1>1. PICK x, e, Q, H : Standing(b, taken, x, e, Q, H, S, F) /\ q = <<>> /\ G = <<>> BY DEF Inside
  <1>2. PICK ins : ins = Instruction(code, b.next) OBVIOUS
  <1>3. PICK i : i = Content(ins) OBVIOUS
  <1>4. PICK T : T = Tail(L) OBVIOUS
  <1>5. /\ b.next \in 1 .. Len(code) /\ ins.ok /\ i \in NamedIns /\ i.op = ins.op
        /\ T \in Seq(NamedIns) /\ Parses(code, ins.next, T)
        /\ Shaped(ShapeNext(S, i.op), T, <<>>)
        /\ Outcome(c, EngineNext(c, m, i, F), T \o R, FlagsNext(m, i, F)) = t
    BY <1>2, <1>3, <1>4, HeadRead
  <1>6. PICK n : n = BlockNext(code, b) OBVIOUS
  <1>7. /\ n \in Blocks /\ n.next = ins.next /\ n.other = b.other
        /\ n.depth = b.depth + DeeperBy(i) /\ Chosen(n, taken) = Chosen(b, taken)
    BY <1>2, <1>3, <1>5, <1>6, BlockInside DEF Taking
  <1>8. ~Taking(n, taken) BY <1>7 DEF Taking
  <1>9. /\ x \in BOOLEAN /\ ~x /\ e \in {0, 1} /\ Q \in Levels /\ H \in Flags
        /\ Len(Q) + 1 = b.depth /\ Len(H) + 1 = b.depth /\ S = <<e>> \o Q /\ F = <<x>> \o H
    BY <1>1 DEF Standing
  <1>10. Len(Q) \in Nat /\ Len(H) \in Nat BY <1>9 DEF Levels, Flags
  <1>11. i.op \notin Turning \/ (Q # <<>> /\ H # <<>>)
    <2>1. Len(<<>>) = 0 OBVIOUS
    <2> QED BY <1>2, <1>5, <1>9, <2>1
  <1>12. PICK P : P = ShapeNext(Q, i.op) OBVIOUS
  <1>13. P \in Levels /\ ShapeNext(S, i.op) = <<e>> \o P /\ Len(P) = Len(Q) + DeeperBy(i)
    <2>1. Len(T) \in Nat BY <1>5, NamedRead
    <2> QED BY <1>5, <1>9, <1>11, <1>12, <2>1, LevelsInside
  <1>16. EngineNext(c, m, i, F) = m
         /\ \E J \in Flags : FlagsNext(m, i, F) = <<x>> \o J /\ Len(J) = Len(H) + DeeperBy(i)
    <2>1. Flagging(F, x, H, i) BY <1>9, <1>11, Zenon DEF Flagging
    <2>2. ~x BY <1>9
    <2>3. EngineNext(c, m, i, F) = m BY <2>1, <2>2, SkippedInside
    <2>4. FlagStays(m, i, x, H, F) BY <2>1, FlagsBehind
    <2> QED BY <2>3, <2>4, Zenon DEF FlagStays
  <1>14. PICK J \in Flags : FlagsNext(m, i, F) = <<x>> \o J /\ Len(J) = Len(H) + DeeperBy(i)
    BY <1>16, Zenon
  <1>17. EngineNext(c, m, i, F) = m BY <1>16
  <1>19. Awaits(c, code, t, R, n.next, T, <<e>> \o P, <<x>> \o J, m)
    <2>1. <<e>> \o P \in Levels BY <1>9, <1>13, Before1 DEF Levels
    <2>2. <<x>> \o J \in Flags BY <1>9, <1>14, Before1 DEF Flags
    <2>3. Machine(m) BY DEF Collected
    <2> QED BY <1>5, <1>7, <1>13, <1>14, <1>17, <2>1, <2>2, <2>3 DEF Awaits
  <1>20. Standing(n, taken, x, e, P, J, <<e>> \o P, <<x>> \o J)
    <2>1. e = 1 <=> n.other BY <1>1, <1>7 DEF Standing
    <2>2. Len(P) + 1 = n.depth /\ Len(J) + 1 = n.depth
      <3>1. DeeperBy(i) \in Int BY DEF DeeperBy
      <3> QED BY <1>7, <1>9, <1>10, <1>13, <1>14, <3>1
    <2> QED BY <1>8, <1>9, <1>13, <1>14, <2>1, <2>2 DEF Standing
  <1>21. n.depth # 0
    <2>1. Len(P) \in Nat BY <1>13 DEF Levels
    <2> QED BY <1>20, <2>1 DEF Standing
  <1>22. Inside(n, taken, <<e>> \o P, q, <<x>> \o J, G) BY <1>1, <1>8, <1>20, Zenon DEF Inside
  <1>23. Collected(c, m0, Chosen(n, taken), X, q, m, G) BY <1>7
  <1> QED BY <1>6, <1>19, <1>21, <1>22, <1>23, Zenon DEF Followed

OneFlag(F, x) == x \in BOOLEAN /\ F = <<x>>

LEMMA FlagTurns ==
  ASSUME NEW m, NEW i, i.op = OP_ELSE, NEW x, NEW F, OneFlag(F, x), NEW y, y \in BOOLEAN, y <=> ~x
  PROVE  OneFlag(FlagsNext(m, i, F), y)
  <1>1. x \in BOOLEAN /\ F = <<x>> BY DEF OneFlag
  <1>2. Front(F) = <<>> /\ Last(F) = x BY <1>1, Single
  <1>3. i.op \notin Conditional BY Opcodes DEF Turning
  <1>4. PICK z \in BOOLEAN : z = ~Last(F) BY NegationIs, Zenon
  <1>5. FlagsNext(m, i, F) = Append(Front(F), z) BY <1>3, <1>4, Zenon DEF FlagsNext
  <1>6. z = y BY <1>1, <1>2, <1>4
  <1>7. Append(<<>>, y) = <<y>> BY Single
  <1>8. FlagsNext(m, i, F) = <<y>> BY <1>2, <1>5, <1>6, <1>7, Zenon
  <1> QED BY <1>8, Zenon DEF OneFlag

LEMMA FlagEnds ==
  ASSUME NEW m, NEW i, i.op = OP_ENDIF, NEW x, NEW F, OneFlag(F, x)
  PROVE  FlagsNext(m, i, F) = <<>>
  <1>1. x \in BOOLEAN /\ F = <<x>> BY DEF OneFlag
  <1>2. Front(F) = <<>> BY <1>1, Single
  <1>3. i.op \notin Conditional /\ i.op # OP_ELSE BY Opcodes DEF Turning
  <1> QED BY <1>2, <1>3 DEF FlagsNext

LEMMA EngineWaits ==
  ASSUME NEW c, NEW m, NEW i, i.op \in Turning, NEW F
  PROVE  EngineNext(c, m, i, F) = m
  BY Opcodes DEF EngineNext

\* The level of the block itself.
LEMMA LevelTurns ==
  ASSUME NEW e \in {0, 1}, NEW T, Len(T) \in Nat, Shaped(ShapeNext(<<e>>, OP_ELSE), T, <<>>)
  PROVE  e = 0 /\ ShapeNext(<<e>>, OP_ELSE) = << 1 >>
  <1>1. <<e>> \in Levels /\ <<e>> # <<>> /\ Front(<<e>>) = <<>> /\ Last(<<e>>) = e BY Single DEF Levels
  <1>2. ShapeNext(<<e>>, OP_ELSE) # Unbalanced
    <2>1. <<>> # Unbalanced BY DEF Unbalanced
    <2> QED BY <2>1, UnbalancedStays
  <1>3. ShapeNext(<<e>>, OP_ELSE) = IF Last(<<e>>) = 1 THEN Unbalanced ELSE Append(Front(<<e>>), 1)
    BY <1>1, ShapeCases
  <1>4. Append(<<>>, 1) = << 1 >> BY Single
  <1> QED BY <1>1, <1>2, <1>3, <1>4

LEMMA LevelEnds ==
  ASSUME NEW e \in {0, 1}
  PROVE  ShapeNext(<<e>>, OP_ENDIF) = <<>>
  <1>1. <<e>> \in Levels /\ <<e>> # <<>> /\ Front(<<e>>) = <<>> BY Single DEF Levels
  <1> QED BY <1>1, ShapeCases

LEMMA OtherSide ==
  ASSUME NEW b, NEW n, NEW taken, taken \in BOOLEAN, b.other \in BOOLEAN, n.other \in BOOLEAN,
         ~b.other, n.other
  PROVE  Taking(n, taken) <=> ~Taking(b, taken)
  BY DEF Taking

\* At depth 1 nothing is open inside the block.
LEMMA StandingAtOne ==
  ASSUME NEW b, b.depth = 1, NEW taken, NEW S, NEW q, NEW F, NEW G, Inside(b, taken, S, q, F, G)
  PROVE  \E x, e : /\ OneFlag(F, x) /\ (x <=> Taking(b, taken))
                   /\ e \in {0, 1} /\ (e = 1 <=> b.other) /\ S = <<e>>
                   /\ q = <<>> /\ G = <<>>
  <1>1. PICK x, e, Q, H : /\ Standing(b, taken, x, e, Q, H, S, F)
                          /\ Taking(b, taken) => q = Q /\ G = H
                          /\ ~Taking(b, taken) => q = <<>> /\ G = <<>>
    BY Zenon DEF Inside
  <1>2. /\ x \in BOOLEAN /\ Q \in Levels /\ H \in Flags /\ e \in {0, 1}
        /\ Len(Q) + 1 = 1 /\ Len(H) + 1 = 1 /\ S = <<e>> \o Q /\ F = <<x>> \o H
    BY <1>1 DEF Standing
  <1>3. Q = <<>> /\ H = <<>>
    <2>1. Len(Q) \in Nat /\ Len(H) \in Nat BY <1>2 DEF Levels, Flags
    <2>2. Len(Q) = 0 /\ Len(H) = 0 BY <1>2, <2>1
    <2> QED BY <1>2, <2>2, EmptySeq DEF Levels, Flags
  <1>4. S = <<e>> BY <1>2, <1>3, Single
  <1>5. F = <<x>>
    <2>1. <<x>> \o <<>> = <<x>> BY <1>2, Single
    <2> QED BY <1>2, <1>3, <2>1, Zenon
  <1>6. OneFlag(F, x) BY <1>2, <1>5, Zenon DEF OneFlag
  <1>7. (x <=> Taking(b, taken)) /\ (e = 1 <=> b.other) BY <1>1, Zenon DEF Standing
  <1>8. q = <<>> /\ G = <<>> BY <1>1, <1>3, Zenon
  <1> QED BY <1>2, <1>4, <1>6, <1>7, <1>8, Zenon

\* The OP_ELSE of the block.
LEMMA TurningStep ==
  ASSUME NEW c, NEW code \in Str, NEW m0, NEW t, NEW R \in Seq(Ins), NEW taken \in BOOLEAN,
         NEW b \in Blocks, b.depth = 1,
         NEW L, NEW S, NEW F, NEW X, NEW q, NEW G, NEW m, L # <<>>,
         Awaits(c, code, t, R, b.next, L, S, F, m),
         Collected(c, m0, Chosen(b, taken), X, q, m, G),
         Inside(b, taken, S, q, F, G),
         Instruction(code, b.next).op = OP_ELSE
  PROVE  Followed(c, code, m0, t, R, taken, BlockNext(code, b))
  <1>1. PICK x, e : /\ OneFlag(F, x) /\ (x <=> Taking(b, taken))
                    /\ e \in {0, 1} /\ (e = 1 <=> b.other) /\ S = <<e>>
                    /\ q = <<>> /\ G = <<>>
    BY StandingAtOne
  <1>2. PICK ins : ins = Instruction(code, b.next) OBVIOUS
  <1>3. PICK i : i = Content(ins) OBVIOUS
  <1>4. PICK T : T = Tail(L) OBVIOUS
  <1>5. /\ b.next \in 1 .. Len(code) /\ ins.ok /\ i \in NamedIns /\ i.op = ins.op
        /\ T \in Seq(NamedIns) /\ Parses(code, ins.next, T)
        /\ Shaped(ShapeNext(S, i.op), T, <<>>)
        /\ Outcome(c, EngineNext(c, m, i, F), T \o R, FlagsNext(m, i, F)) = t
    BY <1>2, <1>3, <1>4, HeadRead
  <1>6. PICK n : n = BlockNext(code, b) OBVIOUS
  <1>7. /\ n \in Blocks /\ n.next = ins.next /\ n.other /\ n.depth = 1
        /\ Chosen(n, taken) = Chosen(b, taken)
    BY <1>2, <1>5, <1>6, BlockTurns
  <1>8. i.op = OP_ELSE BY <1>2, <1>5
  <1>9. e = 0 /\ ShapeNext(S, i.op) = << 1 >>
    <2>1. Len(T) \in Nat BY <1>5, NamedRead
    <2>2. Shaped(ShapeNext(<<e>>, OP_ELSE), T, <<>>) BY <1>1, <1>5, <1>8
    <2>3. e \in {0, 1} BY <1>1
    <2>4. e = 0 /\ ShapeNext(<<e>>, OP_ELSE) = << 1 >> BY <2>1, <2>2, <2>3, LevelTurns
    <2> QED BY <1>1, <1>8, <2>4
  <1>10. Taking(n, taken) <=> ~Taking(b, taken)
    <2>1. b.other \in BOOLEAN /\ n.other \in BOOLEAN BY <1>7 DEF Blocks
    <2>2. ~b.other BY <1>1, <1>9
    <2> QED BY <1>7, <2>1, <2>2, OtherSide
  <1>11. PICK y \in BOOLEAN : y = ~x BY NegationIs, Zenon
  <1>12. PICK J : J = FlagsNext(m, i, F) OBVIOUS
  <1>13. OneFlag(J, y)
    <2>1. OneFlag(F, x) BY <1>1
    <2>2. y <=> ~x BY <1>11
    <2>3. y \in BOOLEAN BY <1>11
    <2> QED BY <1>8, <1>12, <2>1, <2>2, <2>3, FlagTurns
  <1>14. EngineNext(c, m, i, F) = m BY <1>8, EngineWaits DEF Turning
  <1>15. J \in Flags /\ J = <<y>> \o <<>> /\ <<>> \in Flags
    BY <1>13, Single, EmptySeq DEF OneFlag, Flags
  <1>16. << 1 >> \in Levels /\ << 1 >> = << 1 >> \o <<>> /\ <<>> \in Levels
    <2>1. 1 \in {0, 1} OBVIOUS
    <2> QED BY <2>1, Single, EmptySeq DEF Levels
  <1>17. Awaits(c, code, t, R, n.next, T, << 1 >>, J, m)
    <2>1. Machine(m) BY DEF Collected
    <2> QED BY <1>5, <1>7, <1>9, <1>12, <1>14, <1>15, <1>16, <2>1 DEF Awaits
  <1>18. Standing(n, taken, y, 1, <<>>, <<>>, << 1 >>, J)
    <2>1. y <=> Taking(n, taken) BY <1>1, <1>10, <1>11
    <2>2. Len(<<>>) + 1 = n.depth BY <1>7
    <2>3. 1 \in {0, 1} /\ (1 = 1 <=> n.other) BY <1>7
    <2>4. y \in BOOLEAN BY <1>11
    <2> QED BY <1>15, <1>16, <2>1, <2>2, <2>3, <2>4, Zenon DEF Standing
  <1>19. Inside(n, taken, << 1 >>, q, J, G) BY <1>1, <1>18, Zenon DEF Inside
  <1>20. n.depth # 0 BY <1>7
  <1>21. Collected(c, m0, Chosen(n, taken), X, q, m, G) BY <1>7
  <1> QED BY <1>6, <1>17, <1>19, <1>20, <1>21, Zenon DEF Followed

\* Its OP_ENDIF.
LEMMA EndingStep ==
  ASSUME NEW c, NEW code \in Str, NEW m0, NEW t, NEW R \in Seq(Ins), NEW taken \in BOOLEAN,
         NEW b \in Blocks, b.depth = 1,
         NEW L, NEW S, NEW F, NEW X, NEW q, NEW G, NEW m, L # <<>>,
         Awaits(c, code, t, R, b.next, L, S, F, m),
         Collected(c, m0, Chosen(b, taken), X, q, m, G),
         Inside(b, taken, S, q, F, G),
         Instruction(code, b.next).op = OP_ENDIF
  PROVE  Followed(c, code, m0, t, R, taken, BlockNext(code, b))
  <1>1. PICK x, e : /\ OneFlag(F, x) /\ (x <=> Taking(b, taken))
                    /\ e \in {0, 1} /\ (e = 1 <=> b.other) /\ S = <<e>>
                    /\ q = <<>> /\ G = <<>>
    BY StandingAtOne
  <1>2. PICK ins : ins = Instruction(code, b.next) OBVIOUS
  <1>3. PICK i : i = Content(ins) OBVIOUS
  <1>4. PICK T : T = Tail(L) OBVIOUS
  <1>5. /\ b.next \in 1 .. Len(code) /\ ins.ok /\ i \in NamedIns /\ i.op = ins.op
        /\ T \in Seq(NamedIns) /\ Parses(code, ins.next, T)
        /\ Shaped(ShapeNext(S, i.op), T, <<>>)
        /\ Outcome(c, EngineNext(c, m, i, F), T \o R, FlagsNext(m, i, F)) = t
    BY <1>2, <1>3, <1>4, HeadRead
  <1>6. PICK n : n = BlockNext(code, b) OBVIOUS
  <1>7. n.next = ins.next /\ n.depth = 0 /\ Chosen(n, taken) = Chosen(b, taken)
    BY <1>2, <1>5, <1>6, BlockTurns
  <1>8. i.op = OP_ENDIF BY <1>2, <1>5
  <1>9. ShapeNext(S, i.op) = <<>> BY <1>1, <1>8, LevelEnds
  <1>10. FlagsNext(m, i, F) = <<>>
    <2>1. OneFlag(F, x) BY <1>1
    <2> QED BY <1>8, <2>1, FlagEnds
  <1>11. EngineNext(c, m, i, F) = m BY <1>8, EngineWaits DEF Turning
  <1>12. <<>> \in Flags /\ <<>> \in Levels BY EmptySeq DEF Flags, Levels
  <1>13. Awaits(c, code, t, R, n.next, T, <<>>, <<>>, m)
    <2>1. Machine(m) BY DEF Collected
    <2> QED BY <1>5, <1>7, <1>9, <1>10, <1>11, <1>12, <2>1 DEF Awaits
  <1>14. Outside(<<>>, q, <<>>, G) BY <1>1 DEF Outside
  <1>15. Collected(c, m0, Chosen(n, taken), X, q, m, G) BY <1>7
  <1> QED BY <1>6, <1>7, <1>13, <1>14, <1>15, Zenon DEF Followed

BlockStepped(c, code, m0, t, R, taken, b, n) ==
    /\ n \in Blocks /\ Followed(c, code, m0, t, R, taken, n)
    /\ b.depth # 0 => b.next \in 1 .. Len(code) /\ n.next > b.next
    /\ b.depth = 0 => n = b

LEMMA BlockStepFollows ==
  ASSUME NEW c, NEW code \in Str, NEW m0, NEW t, NEW R \in Seq(Ins), NEW taken \in BOOLEAN,
         NEW b \in Blocks, Followed(c, code, m0, t, R, taken, b)
  PROVE  BlockStepped(c, code, m0, t, R, taken, b, BlockNext(code, b))
  <1> USE DEF BlockStepped
  <1>1. CASE b.depth = 0
    <2>1. BlockNext(code, b) = b BY <1>1 DEF BlockNext
    <2> QED BY <1>1, <2>1
  <1>2. CASE b.depth # 0
    <2>1. PICK L, S, F, X, q, G, m :
             /\ Awaits(c, code, t, R, b.next, L, S, F, m)
             /\ Collected(c, m0, Chosen(b, taken), X, q, m, G)
             /\ Inside(b, taken, S, q, F, G)
      BY <1>2, Zenon DEF Followed
    <2>2. L # <<>>
      <3>1. SUFFICES ASSUME L = <<>> PROVE FALSE OBVIOUS
      <3>2. S = <<>> BY <2>1, <3>1, ShapedNone DEF Awaits
      <3>3. PICK e \in {0, 1}, Q \in Levels : S = <<e>> \o Q BY <2>1, Zenon DEF Inside, Standing
      <3>4. <<e>> \o Q # <<>> BY Before1 DEF Levels
      <3> QED BY <3>2, <3>3, <3>4
    <2>3. PICK ins : ins = Instruction(code, b.next) OBVIOUS
    <2>4. b.next \in 1 .. Len(code) /\ ins.ok BY <2>1, <2>2, <2>3, HeadRead
    <2>5. ins.next > b.next
      <3>1. Len(code) \in Nat BY DEF Str
      <3>2. ins.next \in b.next + 1 .. Len(code) + 1 BY <2>3, <2>4, InstructionReads
      <3> QED BY <2>4, <3>1, <3>2
    <2>6. CASE ins.op \notin Turning \/ b.depth # 1
      <3>1. BlockNext(code, b) \in Blocks /\ BlockNext(code, b).next = ins.next
        BY <1>2, <2>3, <2>4, <2>6, BlockInside
      <3>2. Followed(c, code, m0, t, R, taken, BlockNext(code, b))
        <4>1. CASE Taking(b, taken) BY <1>2, <2>1, <2>2, <2>3, <2>6, <4>1, TakingStep
        <4>2. CASE ~Taking(b, taken) BY <1>2, <2>1, <2>2, <2>3, <2>6, <4>2, PassingStep
        <4> QED BY <4>1, <4>2
      <3> QED BY <1>2, <2>4, <2>5, <3>1, <3>2
    <2>7. CASE b.depth = 1 /\ ins.op = OP_ELSE
      <3>1. BlockNext(code, b) \in Blocks /\ BlockNext(code, b).next = ins.next
        BY <2>3, <2>4, <2>7, BlockTurns
      <3>2. Followed(c, code, m0, t, R, taken, BlockNext(code, b))
        BY <2>1, <2>2, <2>3, <2>7, TurningStep
      <3> QED BY <1>2, <2>4, <2>5, <3>1, <3>2
    <2>8. CASE b.depth = 1 /\ ins.op = OP_ENDIF
      <3>1. BlockNext(code, b) \in Blocks /\ BlockNext(code, b).next = ins.next
        BY <2>3, <2>4, <2>8, BlockTurns
      <3>2. Followed(c, code, m0, t, R, taken, BlockNext(code, b))
        BY <2>1, <2>2, <2>3, <2>8, EndingStep
      <3> QED BY <1>2, <2>4, <2>5, <3>1, <3>2
    <2> QED BY <2>6, <2>7, <2>8 DEF Turning
  <1> QED BY <1>1, <1>2

\* What is known where the block starts.
LEMMA StartFollowed ==
  ASSUME NEW c, NEW code \in Str, NEW m0, Machine(m0), NEW R \in Seq(Ins), NEW taken \in BOOLEAN,
         NEW at \in 1 .. Len(code) + 1, NEW L \in Seq(NamedIns), Parses(code, at, L),
         Shaped(<< 0 >>, L, <<>>), NEW t, t = Outcome(c, m0, L \o R, <<taken>>)
  PROVE  /\ BlockStart(at) \in Blocks /\ BlockStart(at).next = at
         /\ Followed(c, code, m0, t, R, taken, BlockStart(at))
  <1>1. PICK b : b = BlockStart(at) OBVIOUS
  <1>2. <<>> \in Str /\ at \in Nat
    <2>1. Len(code) \in Nat BY DEF Str
    <2> QED BY <2>1, EmptySeq DEF Str
  <1>3. b \in Blocks BY <1>1, <1>2 DEF BlockStart, Blocks
  <1>4. b.next = at /\ b.depth = 1 /\ Chosen(b, taken) = <<>> BY <1>1 DEF BlockStart, Chosen
  <1>5. ~b.other BY <1>1 DEF BlockStart
  <1>6. taken <=> Taking(b, taken)
    <2>1. b.other \in BOOLEAN BY <1>3 DEF Blocks
    <2> QED BY <1>5, <2>1 DEF Taking
  <1>7. <<>> \in Flags /\ <<>> \in Levels /\ Len(<<>>) = 0 BY EmptySeq DEF Flags, Levels
  <1>8. <<taken>> \in Flags /\ <<taken>> = <<taken>> \o <<>> BY Single DEF Flags
  <1>9. << 0 >> \in Levels /\ << 0 >> = << 0 >> \o <<>>
    <2>1. 0 \in {0, 1} OBVIOUS
    <2> QED BY <2>1, Single DEF Levels
  <1>10. Awaits(c, code, t, R, b.next, L, << 0 >>, <<taken>>, m0) BY <1>4, <1>8, <1>9 DEF Awaits
  <1>11. Collected(c, m0, Chosen(b, taken), <<>>, <<>>, m0, <<>>)
    <2>1. Parses(<<>>, 1, <<>>)
      <3>1. Len(<<>>) + 1 = 1 /\ 1 \in 1 .. Len(<<>>) + 1 BY <1>7
      <3>2. Cuts(<<>>, 1, <<>>, 1) BY <1>2, <3>1, NoCut
      <3> QED BY <3>1, <3>2 DEF Parses
    <2>2. <<>> \in Seq(NamedIns) BY EmptySeq
    <2>3. Shaped(<<>>, <<>>, <<>>) BY ShapedNone
    <2>4. RunsLike(c, m0, <<>>, m0, <<>>) BY RunsNothing
    <2> QED BY <1>4, <1>7, <2>1, <2>2, <2>3, <2>4 DEF Collected
  <1>12. Standing(b, taken, taken, 0, <<>>, <<>>, << 0 >>, <<taken>>)
    <2>1. 0 \in {0, 1} /\ (0 = 1 <=> b.other) BY <1>5
    <2>2. Len(<<>>) + 1 = b.depth BY <1>4, <1>7
    <2>3. taken \in BOOLEAN OBVIOUS
    <2> QED BY <1>6, <1>7, <1>8, <1>9, <2>1, <2>2, <2>3, Zenon DEF Standing
  <1>13. Inside(b, taken, << 0 >>, <<>>, <<taken>>, <<>>) BY <1>12, Zenon DEF Inside
  <1>14. b.depth # 0 BY <1>4
  <1>15. Followed(c, code, m0, t, R, taken, b) BY <1>10, <1>11, <1>13, <1>14, Zenon DEF Followed
  <1> QED BY <1>1, <1>3, <1>4, <1>15

\* The block was read: its branch X and the instructions L behind it do what the
\* interpreter does from the conditional on.
BranchRead(c, code, m0, t, R, taken, b) ==
    /\ b \in Blocks /\ b.depth = 0
    /\ \E L, X : /\ L \in Seq(NamedIns) /\ Parses(code, b.next, L) /\ Shaped(<<>>, L, <<>>)
                 /\ X \in Seq(NamedIns) /\ Parses(Chosen(b, taken), 1, X) /\ Shaped(<<>>, X, <<>>)
                 /\ Outcome(c, m0, X \o (L \o R), <<>>) = t

LEMMA ReadAtTheEnd ==
  ASSUME NEW c, NEW code \in Str, NEW m0, NEW t, NEW R \in Seq(Ins), NEW taken \in BOOLEAN,
         NEW b \in Blocks, b.depth = 0, Followed(c, code, m0, t, R, taken, b)
  PROVE  BranchRead(c, code, m0, t, R, taken, b)
  <1>1. PICK L, S, F, X, q, G, m :
             /\ Awaits(c, code, t, R, b.next, L, S, F, m)
             /\ Collected(c, m0, Chosen(b, taken), X, q, m, G)
             /\ Outside(S, q, F, G)
    BY Zenon DEF Followed
  <1>2. S = <<>> /\ q = <<>> /\ F = <<>> /\ G = <<>> BY <1>1 DEF Outside
  <1>3. /\ L \in Seq(NamedIns) /\ Parses(code, b.next, L) /\ Shaped(<<>>, L, <<>>)
        /\ Outcome(c, m, L \o R, <<>>) = t
    BY <1>1, <1>2 DEF Awaits
  <1>4. /\ X \in Seq(NamedIns) /\ Parses(Chosen(b, taken), 1, X) /\ Shaped(<<>>, X, <<>>)
        /\ RunsLike(c, m0, X, m, <<>>)
    BY <1>1, <1>2 DEF Collected
  <1>5. L \o R \in Seq(Ins) BY <1>3, NamedRead, ConcatProperties
  <1>6. Outcome(c, m0, X \o (L \o R), <<>>) = Outcome(c, m, L \o R, <<>>) BY <1>4, <1>5 DEF RunsLike
  <1> QED BY <1>3, <1>4, <1>6, Zenon DEF BranchRead

LEMMA BranchFollows ==
  ASSUME NEW c, NEW code \in Str, NEW m0, Machine(m0), NEW R \in Seq(Ins), NEW taken \in BOOLEAN,
         NEW at \in 1 .. Len(code) + 1, NEW L \in Seq(NamedIns), Parses(code, at, L),
         Shaped(<< 0 >>, L, <<>>), NEW t, t = Outcome(c, m0, L \o R, <<taken>>)
  PROVE  BranchRead(c, code, m0, t, R, taken, Block(code, at))
  <1>1. PICK n \in Nat : n = Len(code) BY DEF Str
  <1>2. PICK f : BlockStates(f, n, code, BlockStart(at)) /\ Block(code, at) = f[n]
    BY <1>1, BlockRounds
  <1> DEFINE H == {k \in 0 .. n : /\ f[k] \in Blocks /\ Followed(c, code, m0, t, R, taken, f[k])
                                  /\ f[k].depth = 0 \/ f[k].next > k}
  <1>3. 0 \in H
    <2>1. f[0] = BlockStart(at) BY <1>2 DEF BlockStates
    <2>2. at > 0 BY <1>1
    <2> QED BY <2>1, <2>2, StartFollowed
  <1>4. ASSUME NEW k \in 1 .. n, k - 1 \in H PROVE k \in H
    <2>1. f[k] = BlockNext(code, f[k - 1]) BY <1>2 DEF BlockStates
    <2>2. PICK b \in Blocks : /\ b = f[k - 1] /\ Followed(c, code, m0, t, R, taken, b)
                              /\ b.depth = 0 \/ b.next > k - 1
      BY <1>4
    <2>3. PICK w : w = BlockNext(code, b) OBVIOUS
    <2>4. /\ w \in Blocks /\ Followed(c, code, m0, t, R, taken, w)
          /\ b.depth # 0 => b.next \in 1 .. Len(code) /\ w.next > b.next
          /\ b.depth = 0 => w = b
      <3>0. Followed(c, code, m0, t, R, taken, b) BY <2>2
      <3>1. BlockStepped(c, code, m0, t, R, taken, b, w) BY <2>3, <3>0, BlockStepFollows
      <3> QED BY <3>1, Zenon DEF BlockStepped
    <2>5. w.depth = 0 \/ w.next > k
      <3>1. b.next \in Nat /\ w.next \in Nat BY <2>4 DEF Blocks
      <3> QED BY <2>2, <2>4, <3>1
    <2>6. f[k] = w BY <2>1, <2>2, <2>3
    <2>7. k \in 0 .. n OBVIOUS
    <2> QED BY <2>4, <2>5, <2>6, <2>7
  <1>5. n \in H
    <2> HIDE DEF H
    <2>1. \A k \in 0 .. n : k \in H BY <1>3, <1>4, CountUp
    <2> QED BY <2>1
  <1>6. PICK b \in Blocks : /\ b = f[n] /\ Followed(c, code, m0, t, R, taken, b)
                            /\ b.depth = 0 \/ b.next > n
    BY <1>5
  <1>7. b.depth = 0
    <2>1. Followed(c, code, m0, t, R, taken, b) BY <1>6
    <2>2. BlockStepped(c, code, m0, t, R, taken, b, BlockNext(code, b)) BY <2>1, BlockStepFollows
    <2>3. b.depth # 0 => b.next \in 1 .. Len(code) BY <2>2, Zenon DEF BlockStepped
    <2> QED BY <1>1, <1>6, <2>3
  <1> QED BY <1>2, <1>6, <1>7, ReadAtTheEnd

(*--------------------- the scripts that are being executed ---------------------*)

ScriptFrame == [code : Str, at : Nat]

\* The instructions L of a script are left; all of its instructions have names.
Readable(f, L) ==
    /\ f \in ScriptFrame
    /\ L \in Seq(NamedIns) /\ Parses(f.code, f.at, L) /\ Shaped(<<>>, L, <<>>)
    /\ \E W \in Seq(NamedIns) : Parses(f.code, 1, W)

\* r joins what is left of the scripts of fr, of the innermost first.
Joins(fr, r) ==
    /\ r \in [0 .. Len(fr) -> Seq(Ins)]
    /\ r[0] = <<>>
    /\ \A k \in 1 .. Len(fr) : \E L : Readable(fr[k], L) /\ r[k] = L \o r[k - 1]

\* R is what is left of all the scripts of fr.
Ahead(fr, R) == fr \in Seq(ScriptFrame) /\ \E r : Joins(fr, r) /\ R = r[Len(fr)]

LEMMA AheadNothing ==
  /\ Ahead(<<>>, <<>>)
  /\ \A R : Ahead(<<>>, R) => R = <<>>
  <1>1. Len(<<>>) = 0 /\ <<>> \in Seq(ScriptFrame) /\ <<>> \in Seq(Ins) BY EmptySeq
  <1>2. PICK r : r = [k \in 0 .. 0 |-> <<>>] OBVIOUS
  <1>3. Joins(<<>>, r) BY <1>1, <1>2 DEF Joins
  <1>4. r[0] = <<>> BY <1>2
  <1> QED BY <1>1, <1>3, <1>4 DEF Ahead, Joins

LEMMA AheadIs ==
  ASSUME NEW fr, NEW R, Ahead(fr, R)
  PROVE  fr \in Seq(ScriptFrame) /\ R \in Seq(Ins) /\ Len(fr) \in Nat
  <1>1. fr \in Seq(ScriptFrame) /\ Len(fr) \in Nat BY LenProperties DEF Ahead
  <1>2. PICK r : Joins(fr, r) /\ R = r[Len(fr)] BY DEF Ahead
  <1>3. Len(fr) \in 0 .. Len(fr) BY <1>1
  <1> QED BY <1>1, <1>2, <1>3 DEF Joins

\* The innermost script and those around it.
TopAhead(fr, top, R) == \E L, Z : Readable(top, L) /\ Ahead(Front(fr), Z) /\ R = L \o Z

LEMMA AheadTop ==
  ASSUME NEW fr, NEW R, Ahead(fr, R), fr # <<>>, NEW top, top = Last(fr)
  PROVE  TopAhead(fr, top, R)
  <1>1. fr \in Seq(ScriptFrame) BY DEF Ahead
  <1>2. PICK n \in Nat : n + 1 = Len(fr)
    <2>1. Len(fr) \in Nat \ {0} BY <1>1, EmptySeq
    <2>2. PICK l \in Nat \ {0} : l = Len(fr) BY <2>1
    <2>3. l - 1 \in Nat /\ (l - 1) + 1 = l OBVIOUS
    <2> QED BY <2>2, <2>3
  <1>3. PICK r : Joins(fr, r) /\ R = r[n + 1] BY <1>2 DEF Ahead
  <1>4. PICK g \in Seq(ScriptFrame) : g = Front(fr) /\ Len(g) = n /\ \A k \in 1 .. n : g[k] = fr[k]
    BY <1>1, <1>2, FrontAndLast
  <1>5. Last(fr) = fr[n + 1] BY <1>2 DEF Last
  <1>6. PICK L : Readable(fr[n + 1], L) /\ r[n + 1] = L \o r[n]
    <2>1. n + 1 \in 1 .. Len(fr) /\ (n + 1) - 1 = n BY <1>2
    <2> QED BY <1>3, <2>1 DEF Joins
  <1>7. PICK s : s = [k \in 0 .. n |-> r[k]] OBVIOUS
  <1>8. Joins(g, s)
    <2>1. /\ r \in [0 .. n + 1 -> Seq(Ins)] /\ r[0] = <<>>
          /\ \A k \in 1 .. n + 1 : \E M : Readable(fr[k], M) /\ r[k] = M \o r[k - 1]
      BY <1>2, <1>3 DEF Joins
    <2>2. s \in [0 .. Len(g) -> Seq(Ins)] /\ s[0] = <<>> BY <1>4, <1>7, <2>1
    <2>3. ASSUME NEW k \in 1 .. Len(g) PROVE \E M : Readable(g[k], M) /\ s[k] = M \o s[k - 1]
      <3>1. k \in 1 .. n + 1 /\ k \in 0 .. n /\ k - 1 \in 0 .. n /\ k \in 1 .. n BY <1>4
      <3>2. s[k] = r[k] /\ s[k - 1] = r[k - 1] /\ g[k] = fr[k] BY <1>4, <1>7, <3>1
      <3> QED BY <2>1, <3>1, <3>2
    <2> QED BY <2>2, <2>3 DEF Joins
  <1>9. s[Len(g)] = r[n] BY <1>4, <1>7
  <1>10. Ahead(g, r[n]) BY <1>8, <1>9 DEF Ahead
  <1> QED BY <1>3, <1>4, <1>5, <1>6, <1>10 DEF TopAhead

LEMMA AheadPush ==
  ASSUME NEW fr, NEW Z, Ahead(fr, Z), NEW f, NEW L, Readable(f, L)
  PROVE  Ahead(Append(fr, f), L \o Z)
  <1>1. fr \in Seq(ScriptFrame) /\ Z \in Seq(Ins) BY AheadIs
  <1>2. PICK n \in Nat : n = Len(fr) BY AheadIs
  <1>3. PICK r : Joins(fr, r) /\ Z = r[n] BY <1>2 DEF Ahead
  <1>4. f \in ScriptFrame /\ L \in Seq(Ins) BY NamedRead DEF Readable
  <1>50. PICK g : g = Append(fr, f) OBVIOUS
  <1>5. /\ g \in Seq(ScriptFrame) /\ g = Append(fr, f) /\ Len(g) = n + 1 /\ g[n + 1] = f
        /\ \A k \in 1 .. n : g[k] = fr[k]
    BY <1>1, <1>2, <1>4, <1>50, AppendProperties
  <1>6. PICK R \in Seq(Ins) : R = L \o Z BY <1>1, <1>4, ConcatProperties
  <1>7. PICK s : s = [k \in 0 .. n + 1 |-> IF k = n + 1 THEN R ELSE r[k]] OBVIOUS
  <1>8. /\ r \in [0 .. n -> Seq(Ins)] /\ r[0] = <<>>
        /\ \A k \in 1 .. n : \E M : Readable(fr[k], M) /\ r[k] = M \o r[k - 1]
    BY <1>2, <1>3 DEF Joins
  <1>9. s \in [0 .. n + 1 -> Seq(Ins)] /\ s[0] = <<>> /\ s[n + 1] = R
    <2>1. ASSUME NEW k \in 0 .. n + 1 PROVE (IF k = n + 1 THEN R ELSE r[k]) \in Seq(Ins)
      <3>1. k # n + 1 => k \in 0 .. n OBVIOUS
      <3> QED BY <1>8, <3>1
    <2>2. 0 \in 0 .. n + 1 /\ n + 1 \in 0 .. n + 1 /\ 0 # n + 1 OBVIOUS
    <2> QED BY <1>7, <1>8, <2>1, <2>2
  <1>10. ASSUME NEW k \in 1 .. n + 1 PROVE \E M : Readable(g[k], M) /\ s[k] = M \o s[k - 1]
    <2>1. CASE k = n + 1
      <3>1. s[k] = R /\ s[k - 1] = r[n]
        <4>1. k - 1 = n /\ n \in 0 .. n + 1 /\ n # n + 1 BY <2>1
        <4> QED BY <1>7, <1>9, <2>1, <4>1
      <3> QED BY <1>3, <1>5, <1>6, <2>1, <3>1
    <2>2. CASE k # n + 1
      <3>1. k \in 1 .. n /\ k \in 0 .. n + 1 /\ k - 1 \in 0 .. n + 1 /\ k - 1 # n + 1 BY <2>2
      <3>2. s[k] = r[k] /\ s[k - 1] = r[k - 1] /\ g[k] = fr[k] BY <1>5, <1>7, <2>2, <3>1
      <3> QED BY <1>8, <3>1, <3>2
    <2> QED BY <2>1, <2>2
  <1>11. Joins(g, s) BY <1>5, <1>9, <1>10 DEF Joins
  <1>12. Ahead(g, R) BY <1>5, <1>9, <1>11 DEF Ahead
  <1> QED BY <1>5, <1>6, <1>12

\* None of the scripts raises where it is disassembled.
LEMMA ReadableNamed ==
  ASSUME NEW f, NEW L, Readable(f, L)
  PROVE  Disassembles(f.code)
  <1>1. PICK W \in Seq(NamedIns) : Parses(f.code, 1, W) BY DEF Readable
  <1>2. Instructions(f.code, 1).ok /\ Instructions(f.code, 1).list = W BY <1>1, ParsedAreRead
  <1>3. ASSUME NEW k \in DOMAIN W PROVE W[k].op \notin \hbb..\hfe
    <2>1. k \in 1 .. Len(W) BY <1>1, LenProperties
    <2>2. W[k] \in NamedIns BY <1>1, <2>1, ElementOfSeq
    <2> QED BY <2>2 DEF NamedIns
  <1> QED BY <1>2, <1>3 DEF Disassembles

LEMMA AheadNamed ==
  ASSUME NEW fr, NEW R, Ahead(fr, R)
  PROVE  \A k \in DOMAIN fr : Disassembles(fr[k].code)
  <1>1. DOMAIN fr = 1 .. Len(fr) BY AheadIs, LenProperties
  <1>2. SUFFICES ASSUME NEW k \in 1 .. Len(fr) PROVE Disassembles(fr[k].code) BY <1>1
  <1>3. PICK L : Readable(fr[k], L) BY DEF Ahead, Joins
  <1> QED BY <1>3, ReadableNamed

\* Another place in the innermost script.
LEMMA TopMoved ==
  ASSUME NEW fr \in Seq(ScriptFrame), fr # <<>>, NEW x \in Nat
  PROVE  /\ [fr EXCEPT ![Len(fr)].at = x] = Append(Front(fr), [code |-> Last(fr).code, at |-> x])
  <1>1. PICK n \in Nat : n + 1 = Len(fr)
    <2>1. Len(fr) \in Nat \ {0} BY EmptySeq
    <2> QED BY <2>1
  <1>2. PICK g \in Seq(ScriptFrame) : g = Front(fr) /\ Len(g) = n /\ \A k \in 1 .. n : g[k] = fr[k]
    BY <1>1, FrontAndLast
  <1>3. Last(fr) = fr[n + 1] /\ fr[n + 1] \in ScriptFrame BY <1>1, FrontAndLast DEF Last
  <1>4. PICK f \in ScriptFrame : f = [code |-> Last(fr).code, at |-> x] BY <1>3 DEF ScriptFrame
  <1>5. [fr[n + 1] EXCEPT !.at = x] = f BY <1>3, <1>4 DEF ScriptFrame
  <1>6. PICK p : p = [fr EXCEPT ![n + 1] = f] OBVIOUS
  <1>7. p \in Seq(ScriptFrame) /\ Len(p) = n + 1
        /\ \A k \in 1 .. n + 1 : p[k] = IF k = n + 1 THEN f ELSE fr[k]
    <2>1. n + 1 \in 1 .. Len(fr) BY <1>1
    <2> QED BY <1>1, <1>6, <2>1, ExceptSeq
  <1>8. PICK q : q = Append(g, f) OBVIOUS
  <1>9. q \in Seq(ScriptFrame) /\ Len(q) = n + 1 /\ q[n + 1] = f /\ \A k \in 1 .. n : q[k] = g[k]
    BY <1>2, <1>8, AppendProperties
  <1>10. p = q
    <2>1. ASSUME NEW k \in 1 .. n + 1 PROVE p[k] = q[k]
      <3>1. k # n + 1 => k \in 1 .. n OBVIOUS
      <3> QED BY <1>2, <1>7, <1>9, <3>1
    <2> QED BY <1>7, <1>9, <2>1, SeqEqual
  <1>11. [fr EXCEPT ![Len(fr)].at = x] = p BY <1>1, <1>5, <1>6
  <1> QED BY <1>2, <1>4, <1>8, <1>10, <1>11

(*------------------------- the execution of a script -------------------------*)

\* What the script that began comes to when it is read once.
Target == Flagged(began.mach, ctx, Instructions(began.code, 1).list)

\* What is left of the scripts fr brings the engine m there.
Agrees(m, fr) == \E R : Ahead(fr, R) /\ Outcome(ctx, m, R, <<>>) = Target

\* The inductive invariant of ConditionalsAgree.
ScriptInv ==
    /\ Machine(mach)
    /\ mach.ok = "raise" => stage = "done" /\ (WellFormed(began.code) => Target.ok = "raise")
    /\ stage = "script" => /\ frames # <<>> => mach.ok = "go"
                           /\ WellFormed(began.code) => Agrees(mach, frames)

LEMMA FlaggedIsOutcome ==
  ASSUME NEW m, NEW c, NEW list
  PROVE  Flagged(m, c, list) = Outcome(c, m, list, <<>>)
  BY DEF Flagged, Outcome

\* A stopped engine is where the script comes to.
LEMMA StoppedAgrees ==
  ASSUME NEW m, NEW fr, Agrees(m, fr), m.ok # "go" \/ fr = <<>>
  PROVE  m = Target
  <1>1. PICK R : Ahead(fr, R) /\ Outcome(ctx, m, R, <<>>) = Target BY DEF Agrees
  <1>2. Len(R) \in Nat
    <2>1. R \in Seq(Ins) BY <1>1, AheadIs
    <2> QED BY <2>1, LenProperties
  <1>3. m.ok # "go" \/ R = <<>> BY <1>1, AheadNothing
  <1>4. Outcome(ctx, m, R, <<>>) = m BY <1>2, <1>3, OutcomeStops
  <1> QED BY <1>1, <1>4

LEMMA TargetStays ==
  ASSUME ctx' = ctx, began' = began
  PROVE  /\ Target' = Target
         /\ WellFormed(began'.code) <=> WellFormed(began.code)
  BY DEF Target

LEMMA AgreesStays ==
  ASSUME ctx' = ctx, began' = began, NEW m, m = mach', NEW fr, fr = frames'
  PROVE  Agrees(mach, frames)' <=> Agrees(m, fr)
  BY TargetStays DEF Agrees

\* Whatever the instruction was: the machine it leaves and the scripts that remain.
LEMMA ScriptBecomes ==
  ASSUME NEW m, Machine(m), NEW ahead, Become(m, ahead), ctx' = ctx, began' = began,
         stage = "script",
         WellFormed(began.code) => Agrees(m, ahead),
         WellFormed(began.code) => \A k \in DOMAIN frames : Disassembles(frames[k].code)
  PROVE  ScriptInv'
  <1>0. Target' = Target /\ (WellFormed(began'.code) <=> WellFormed(began.code)) BY TargetStays
  <1>1. CASE m.ok = "raise" \/ (m.ok = "fail" /\ \E k \in DOMAIN frames : ~Disassembles(frames[k].code))
    <2>1. mach' = Raise(m) /\ stage' = "done" BY <1>1 DEF Become, Settle
    <2>2. Machine(mach') /\ mach'.ok = "raise" BY <2>1, FailRaise
    <2>3. WellFormed(began.code) => Target.ok = "raise"
      <3>1. SUFFICES ASSUME WellFormed(began.code) PROVE Target.ok = "raise" OBVIOUS
      <3>2. m.ok = "raise" BY <1>1, <3>1
      <3>3. m = Target BY <3>1, <3>2, StoppedAgrees
      <3> QED BY <3>2, <3>3
    <2> QED BY <1>0, <2>1, <2>2, <2>3 DEF ScriptInv
  <1>2. CASE m.ok = "fail" /\ ~ \E k \in DOMAIN frames : ~Disassembles(frames[k].code)
    <2>1. mach' = m /\ frames' = <<>> /\ stage' = stage BY <1>2 DEF Become
    <2>2. WellFormed(began.code) => Agrees(m, <<>>)
      <3>1. SUFFICES ASSUME WellFormed(began.code) PROVE Agrees(m, <<>>) OBVIOUS
      <3>2. m = Target BY <1>2, <3>1, StoppedAgrees
      <3>3. Len(<<>>) \in Nat OBVIOUS
      <3>4. Outcome(ctx, m, <<>>, <<>>) = m BY <3>3, OutcomeStops
      <3> QED BY <3>2, <3>4, AheadNothing DEF Agrees
    <2>3. Agrees(mach, frames)' <=> Agrees(m, <<>>) BY <2>1, AgreesStays
    <2> QED BY <1>0, <1>2, <2>1, <2>2, <2>3 DEF ScriptInv
  <1>3. CASE m.ok = "go"
    <2>1. mach' = m /\ frames' = ahead /\ stage' = stage BY <1>3 DEF Become
    <2>2. Agrees(mach, frames)' <=> Agrees(m, ahead) BY <2>1, AgreesStays
    <2> QED BY <1>0, <1>3, <2>1, <2>2 DEF ScriptInv
  <1> QED BY <1>1, <1>2, <1>3 DEF Machine

\* Away from the scripts.
LEMMA ElsewhereKeeps ==
  ASSUME Machine(mach'), mach'.ok # "raise", stage' # "script"
  PROVE  ScriptInv'
  BY DEF ScriptInv

(*------------------------------ one instruction ------------------------------*)

LEMMA ExecuteContent ==
  ASSUME NEW m, NEW c, NEW ins
  PROVE  Execute(m, c, ins) = Execute(m, c, Content(ins))
  <1>1. Content(ins).op = ins.op /\ Content(ins).data = ins.data BY DEF Content
  <1>2. ASSUME NEW j, j.op = ins.op, j.data = ins.data
        PROVE  Execute(m, c, ins) = Execute(m, c, j)
    BY <1>2 DEF Execute
  <1> QED BY <1>1, <1>2

\* The innermost script and what is left of the others, at an instruction.
LEMMA AtInstruction ==
  ASSUME stage = "script", frames # <<>>, Agrees(mach, frames), Machine(mach), mach.ok = "go",
         Top.at <= Len(Top.code)
  PROVE  \E T, Z : LET i == Content(Current)
                   IN /\ Top \in ScriptFrame /\ Top.code \in Str /\ Current.ok /\ i.op = Current.op
                      /\ Top.at \in 1 .. Len(Top.code)
                      /\ Current.next \in 1 .. Len(Top.code) + 1
                      /\ i \in NamedIns /\ i.op \notin Turning
                      /\ T \in Seq(NamedIns) /\ Parses(Top.code, Current.next, T)
                      /\ Shaped(ShapeNext(<<>>, i.op), T, <<>>)
                      /\ \E W \in Seq(NamedIns) : Parses(Top.code, 1, W)
                      /\ frames \in Seq(ScriptFrame) /\ Ahead(Front(frames), Z) /\ Z \in Seq(Ins)
                      /\ Outcome(ctx, EngineNext(ctx, mach, i, <<>>), T \o Z, FlagsNext(mach, i, <<>>))
                           = Target
  <1>1. PICK R : Ahead(frames, R) /\ Outcome(ctx, mach, R, <<>>) = Target BY DEF Agrees
  <1>2. PICK f : f = Top OBVIOUS
  <1>3. PICK L, Z : Readable(f, L) /\ Ahead(Front(frames), Z) /\ R = L \o Z
    <2>1. f = Last(frames) BY <1>2 DEF Top
    <2>2. TopAhead(frames, f, R) BY <1>1, <2>1, AheadTop
    <2> QED BY <2>2, Zenon DEF TopAhead
  <1>4. /\ f \in ScriptFrame /\ L \in Seq(NamedIns) /\ Parses(f.code, f.at, L) /\ Shaped(<<>>, L, <<>>)
        /\ \E W \in Seq(NamedIns) : Parses(f.code, 1, W)
    BY <1>3 DEF Readable
  <1>5. f.code \in Str /\ f.at \in Nat /\ Len(f.code) \in Nat BY <1>4 DEF ScriptFrame, Str
  <1>6. L # <<>> BY <1>2, <1>4, <1>5, ParsesEnd
  <1>7. Z \in Seq(Ins) BY <1>3, AheadIs
  <1>8. Awaits(ctx, f.code, Target, Z, f.at, L, <<>>, <<>>, mach)
    <2>1. <<>> \in Flags /\ <<>> \in Levels BY EmptySeq DEF Flags, Levels
    <2> QED BY <1>1, <1>3, <1>4, <2>1 DEF Awaits
  <1>9. PICK ins : ins = Instruction(f.code, f.at) OBVIOUS
  <1>10. PICK i : i = Content(ins) OBVIOUS
  <1>11. PICK T : T = Tail(L) OBVIOUS
  <1>12. /\ f.at \in 1 .. Len(f.code) /\ ins.ok /\ i \in NamedIns /\ i.op = ins.op
         /\ T \in Seq(NamedIns) /\ Parses(f.code, ins.next, T)
         /\ Shaped(ShapeNext(<<>>, i.op), T, <<>>)
         /\ Outcome(ctx, EngineNext(ctx, mach, i, <<>>), T \o Z, FlagsNext(mach, i, <<>>)) = Target
    BY <1>5, <1>6, <1>7, <1>8, <1>9, <1>10, <1>11, HeadRead
  <1>13. i.op \notin Turning
    <2>1. SUFFICES ASSUME i.op \in Turning PROVE FALSE OBVIOUS
    <2>2. <<>> \in Levels BY EmptySeq DEF Levels
    <2>3. ShapeNext(<<>>, i.op) = Unbalanced BY <2>1, <2>2, ShapeCases
    <2>4. Len(T) \in Nat BY <1>12, NamedRead
    <2>5. <<>> = Unbalanced BY <1>12, <2>3, <2>4, UnbalancedStays
    <2> QED BY <2>5 DEF Unbalanced
  <1>14. ins.next \in 1 .. Len(f.code) + 1
    <2>1. ins.next \in f.at + 1 .. Len(f.code) + 1 BY <1>5, <1>9, <1>12, InstructionReads
    <2> QED BY <1>5, <1>12, <2>1
  <1>15. frames \in Seq(ScriptFrame) BY <1>1, AheadIs
  <1>16. ins = Current BY <1>2, <1>9 DEF Current
  <1> QED BY <1>2, <1>3, <1>4, <1>5, <1>7, <1>10, <1>12, <1>13, <1>14, <1>15, <1>16

\* The innermost script at another place of it: what is left is L, and Z behind it.
LEMMA MovedAhead ==
  ASSUME frames \in Seq(ScriptFrame), frames # <<>>, NEW Z, Ahead(Front(frames), Z), NEW x \in Nat,
         Top.code \in Str, NEW L \in Seq(NamedIns), Parses(Top.code, x, L), Shaped(<<>>, L, <<>>),
         \E W \in Seq(NamedIns) : Parses(Top.code, 1, W)
  PROVE  Ahead([frames EXCEPT ![Len(frames)].at = x], L \o Z)
  <1>1. PICK f : f = [code |-> Top.code, at |-> x] OBVIOUS
  <1>2. f \in ScriptFrame /\ f.code = Top.code /\ f.at = x BY <1>1 DEF ScriptFrame
  <1>3. Readable(f, L) BY <1>2 DEF Readable
  <1>4. Ahead(Append(Front(frames), f), L \o Z) BY <1>3, AheadPush
  <1>5. [frames EXCEPT ![Len(frames)].at = x] = Append(Front(frames), f)
    BY <1>1, TopMoved DEF Top
  <1> QED BY <1>4, <1>5

LEMMA BranchAhead ==
  ASSUME NEW fr, NEW Z, Ahead(fr, Z), NEW code, NEW X \in Seq(NamedIns), Parses(code, 1, X),
         Shaped(<<>>, X, <<>>)
  PROVE  Ahead(Append(fr, [code |-> code, at |-> 1]), X \o Z)
  <1>1. PICK f : f = [code |-> code, at |-> 1] OBVIOUS
  <1>2. code \in Str BY CutsTyped DEF Parses
  <1>3. f \in ScriptFrame /\ f.code = code /\ f.at = 1 BY <1>1, <1>2 DEF ScriptFrame
  <1>4. Readable(f, X) BY <1>3 DEF Readable
  <1> QED BY <1>1, <1>4, AheadPush

LEMMA ScriptSteps ==
  ASSUME ScriptInv, Step
  PROVE  ScriptInv'
  <1>1. /\ stage = "script" /\ frames # <<>> /\ Top.at <= Len(Top.code)
        /\ ctx' = ctx /\ began' = began
    BY DEF Step, Running
  <1>2. Machine(mach) /\ mach.ok = "go" BY <1>1 DEF ScriptInv
  <1>3. WellFormed(began.code) => Agrees(mach, frames) BY <1>1 DEF ScriptInv
  <1>4. WellFormed(began.code) => \A k \in DOMAIN frames : Disassembles(frames[k].code)
    BY <1>3, AheadNamed DEF Agrees
  <1>5. CASE ~Current.ok
    <2>1. Become(Raise(mach), frames) BY <1>5 DEF Step
    <2>2. ~WellFormed(began.code) BY <1>1, <1>2, <1>3, <1>5, AtInstruction
    <2> QED BY <1>1, <1>2, <2>1, <2>2, FailRaise, ScriptBecomes
  <1>6. CASE Current.ok
    <2>1. Current.op \notin Conditional /\ Become(Execute(mach, ctx, Current), Moved)
      BY <1>6 DEF Step
    <2>2. PICK m : m = Execute(mach, ctx, Current) OBVIOUS
    <2>3. Machine(m) BY <1>2, <2>2, ExecuteKeeps
    <2>4. WellFormed(began.code) => Agrees(m, Moved)
      <3>1. SUFFICES ASSUME WellFormed(began.code) PROVE Agrees(m, Moved) OBVIOUS
      <3>2. PICK i : i = Content(Current) OBVIOUS
      <3>3. PICK T, Z : /\ Top.code \in Str /\ i.op = Current.op
                        /\ Current.next \in 1 .. Len(Top.code) + 1
                        /\ i \in NamedIns /\ i.op \notin Turning
                        /\ T \in Seq(NamedIns) /\ Parses(Top.code, Current.next, T)
                        /\ Shaped(ShapeNext(<<>>, i.op), T, <<>>)
                        /\ \E W \in Seq(NamedIns) : Parses(Top.code, 1, W)
                        /\ frames \in Seq(ScriptFrame) /\ Ahead(Front(frames), Z)
                        /\ Outcome(ctx, EngineNext(ctx, mach, i, <<>>), T \o Z, FlagsNext(mach, i, <<>>))
                             = Target
        BY <1>1, <1>2, <1>3, <3>1, <3>2, AtInstruction
      <3>4. ShapeNext(<<>>, i.op) = <<>>
        <4>1. <<>> \in Levels BY EmptySeq DEF Levels
        <4> QED BY <2>1, <3>3, <4>1, ShapeCases
      <3>5. EngineNext(ctx, mach, i, <<>>) = m
        <4>1. On(<<>>) BY DEF On
        <4>2. m = Execute(mach, ctx, i) BY <2>2, <3>2, ExecuteContent
        <4> QED BY <1>2, <2>1, <3>3, <4>1, <4>2 DEF EngineNext
      <3>6. FlagsNext(mach, i, <<>>) = <<>> BY <2>1, <3>3 DEF FlagsNext, Turning
      <3>7. Current.next \in Nat
        <4>1. Len(Top.code) \in Nat BY <3>3 DEF Str
        <4> QED BY <3>3, <4>1
      <3>8. Ahead(Moved, T \o Z) BY <1>1, <3>3, <3>4, <3>7, MovedAhead DEF Moved
      <3> QED BY <3>3, <3>5, <3>6, <3>8 DEF Agrees
    <2> QED BY <1>1, <1>4, <2>1, <2>2, <2>3, <2>4, ScriptBecomes
  <1> QED BY <1>5, <1>6

LEMMA ScriptLeaves ==
  ASSUME ScriptInv, EndOfScript
  PROVE  ScriptInv'
  <1>1. /\ stage = "script" /\ frames # <<>> /\ Top.at > Len(Top.code) /\ frames' = Front(frames)
        /\ ctx' = ctx /\ began' = began /\ stage' = stage /\ mach' = mach
    BY DEF EndOfScript, Running
  <1>2. Machine(mach) /\ mach.ok = "go" BY <1>1 DEF ScriptInv
  <1>3. WellFormed(began.code) => Agrees(mach, frames) BY <1>1 DEF ScriptInv
  <1>4. WellFormed(began.code) => Agrees(mach, Front(frames))
    <2>1. SUFFICES ASSUME WellFormed(began.code) PROVE Agrees(mach, Front(frames)) OBVIOUS
    <2>2. PICK R : Ahead(frames, R) /\ Outcome(ctx, mach, R, <<>>) = Target
      BY <1>3, <2>1 DEF Agrees
    <2>0. PICK f : f = Top OBVIOUS
    <2>3. PICK L, Z : Readable(f, L) /\ Ahead(Front(frames), Z) /\ R = L \o Z
      <3>1. f = Last(frames) BY <2>0 DEF Top
      <3>2. TopAhead(frames, f, R) BY <1>1, <2>2, <3>1, AheadTop
      <3> QED BY <3>2, Zenon DEF TopAhead
    <2>4. L = <<>> BY <1>1, <2>0, <2>3, ParsesEnd DEF Readable
    <2>5. Z \in Seq(Ins) BY <2>3, AheadIs
    <2>6. R = Z BY <2>3, <2>4, <2>5, ConcatEmptySeq
    <2> QED BY <2>2, <2>3, <2>6 DEF Agrees
  <1>5. Agrees(mach, frames)' <=> Agrees(mach, Front(frames)) BY <1>1, AgreesStays
  <1>6. WellFormed(began'.code) <=> WellFormed(began.code) BY <1>1, TargetStays
  <1> QED BY <1>1, <1>2, <1>4, <1>5, <1>6 DEF ScriptInv

\* A condition on top of the stack: the block is read and one of its branches is run.
LEMMA EnterKeeps ==
  ASSUME ScriptInv, stage = "script", frames # <<>>, Top.at <= Len(Top.code), Current.ok,
         Current.op \in Conditional, ~Unfit(mach), WellFormed(began.code),
         NEW b, b = Block(Top.code, Current.next), NEW taken \in BOOLEAN,
         taken = (IsTrue(mach.main[1]) = (Current.op = OP_IF))
  PROVE  /\ b.depth = 0
         /\ Agrees(op_drop(mach), Append([frames EXCEPT ![Len(frames)].at = b.next],
                                         [code |-> Chosen(b, taken), at |-> 1]))
  <1>1. Machine(mach) /\ mach.ok = "go" /\ Agrees(mach, frames) BY DEF ScriptInv
  <1>2. PICK i : i = Content(Current) OBVIOUS
  <1>3. PICK T, Z : /\ Top.code \in Str /\ i.op = Current.op
                    /\ Current.next \in 1 .. Len(Top.code) + 1
                    /\ i \in NamedIns
                    /\ T \in Seq(NamedIns) /\ Parses(Top.code, Current.next, T)
                    /\ Shaped(ShapeNext(<<>>, i.op), T, <<>>)
                    /\ \E W \in Seq(NamedIns) : Parses(Top.code, 1, W)
                    /\ frames \in Seq(ScriptFrame) /\ Ahead(Front(frames), Z) /\ Z \in Seq(Ins)
                    /\ Outcome(ctx, EngineNext(ctx, mach, i, <<>>), T \o Z, FlagsNext(mach, i, <<>>))
                         = Target
    BY <1>1, <1>2, AtInstruction
  <1>4. ShapeNext(<<>>, i.op) = << 0 >>
    <2>1. <<>> \in Levels BY EmptySeq DEF Levels
    <2>2. Append(<<>>, 0) = << 0 >> BY Single
    <2> QED BY <1>3, <2>1, <2>2, ShapeCases
  <1>5. PICK m : m = op_drop(mach) OBVIOUS
  <1>6. Machine(m) BY <1>1, <1>5, ReplacingKeep
  <1>7. On(<<>>) BY DEF On
  <1>8. EngineNext(ctx, mach, i, <<>>) = m BY <1>1, <1>3, <1>5, <1>7 DEF EngineNext
  <1>9. FlagsNext(mach, i, <<>>) = <<taken>>
    <2>1. taken = Met(mach, i) BY <1>3, Zenon DEF Met
    <2>2. Entered(mach, i, <<>>) = taken BY <1>7, <2>1, Zenon DEF Entered
    <2>3. FlagsNext(mach, i, <<>>) = Append(<<>>, taken) BY <1>3, <2>2, Zenon DEF FlagsNext
    <2>4. Append(<<>>, taken) = <<taken>> BY Single
    <2> QED BY <2>3, <2>4, Zenon
  <1>10. Outcome(ctx, m, T \o Z, <<taken>>) = Target BY <1>3, <1>8, <1>9, Zenon
  <1>11. PICK code \in Str : code = Top.code BY <1>3
  <1>12. BranchRead(ctx, code, m, Target, Z, taken, b)
    <2>1. Current.next \in 1 .. Len(code) + 1 BY <1>3, <1>11
    <2>2. Parses(code, Current.next, T) BY <1>3, <1>11
    <2>3. Shaped(<< 0 >>, T, <<>>) BY <1>3, <1>4
    <2>4. b = Block(code, Current.next) BY <1>11
    <2>5. T \in Seq(NamedIns) /\ Z \in Seq(Ins) BY <1>3
    <2> QED BY <1>6, <1>10, <2>1, <2>2, <2>3, <2>4, <2>5, BranchFollows
  <1>13. /\ b \in Blocks /\ b.depth = 0
         /\ \E L, X : /\ L \in Seq(NamedIns) /\ Parses(code, b.next, L) /\ Shaped(<<>>, L, <<>>)
                      /\ X \in Seq(NamedIns) /\ Parses(Chosen(b, taken), 1, X) /\ Shaped(<<>>, X, <<>>)
                      /\ Outcome(ctx, m, X \o (L \o Z), <<>>) = Target
    BY <1>12, Zenon DEF BranchRead
  <1>14. PICK L, X : /\ L \in Seq(NamedIns) /\ Parses(code, b.next, L) /\ Shaped(<<>>, L, <<>>)
                     /\ X \in Seq(NamedIns) /\ Parses(Chosen(b, taken), 1, X) /\ Shaped(<<>>, X, <<>>)
                     /\ Outcome(ctx, m, X \o (L \o Z), <<>>) = Target
    BY <1>13, Zenon
  <1>15. PICK x \in Nat : x = b.next BY <1>13 DEF Blocks
  <1>16. PICK branch : branch = Chosen(b, taken) OBVIOUS
  <1>17. Ahead([frames EXCEPT ![Len(frames)].at = x], L \o Z)
    BY <1>3, <1>11, <1>14, <1>15, MovedAhead
  <1>18. Ahead(Append([frames EXCEPT ![Len(frames)].at = x], [code |-> branch, at |-> 1]), X \o (L \o Z))
    <2>1. X \in Seq(NamedIns) /\ Parses(branch, 1, X) /\ Shaped(<<>>, X, <<>>) BY <1>14, <1>16, Zenon
    <2> QED BY <1>17, <2>1, BranchAhead
  <1>19. Agrees(m, Append([frames EXCEPT ![Len(frames)].at = x], [code |-> branch, at |-> 1]))
    BY <1>14, <1>18 DEF Agrees
  <1> QED BY <1>5, <1>13, <1>15, <1>16, <1>19, Zenon

LEMMA ScriptBranches ==
  ASSUME ScriptInv, Branch
  PROVE  ScriptInv'
  <1>1. /\ stage = "script" /\ frames # <<>> /\ Top.at <= Len(Top.code)
        /\ Current.ok /\ Current.op \in Conditional
        /\ ctx' = ctx /\ began' = began
    BY DEF Branch, Running
  <1>2. Machine(mach) /\ mach.ok = "go" BY <1>1 DEF ScriptInv
  <1>3. WellFormed(began.code) => Agrees(mach, frames) BY <1>1 DEF ScriptInv
  <1>4. WellFormed(began.code) => \A k \in DOMAIN frames : Disassembles(frames[k].code)
    BY <1>3, AheadNamed DEF Agrees
  <1>5. PICK b : b = Block(Top.code, Current.next) OBVIOUS
  <1>6. PICK taken \in BOOLEAN : taken = (IsTrue(mach.main[1]) = (Current.op = OP_IF)) OBVIOUS
  <1>7. CASE Unfit(mach)
    <2>1. Become(Raise(mach), frames) BY <1>7 DEF Branch, Unfit
    <2>2. WellFormed(began.code) => Agrees(Raise(mach), frames)
      <3>1. SUFFICES ASSUME WellFormed(began.code) PROVE Agrees(Raise(mach), frames) OBVIOUS
      <3>2. PICK i : i = Content(Current) OBVIOUS
      <3>3. PICK T, Z : /\ i.op = Current.op /\ T \in Seq(NamedIns) /\ Z \in Seq(Ins)
                        /\ Outcome(ctx, EngineNext(ctx, mach, i, <<>>), T \o Z, FlagsNext(mach, i, <<>>))
                             = Target
        BY <1>1, <1>2, <1>3, <3>1, <3>2, AtInstruction
      <3>4. EngineNext(ctx, mach, i, <<>>) = Raise(mach)
        <4>1. On(<<>>) BY DEF On
        <4> QED BY <1>1, <1>2, <1>7, <3>3, <4>1 DEF EngineNext
      <3>5. Raise(mach).ok # "go" BY <1>2, FailRaise
      <3>6. T \o Z \in Seq(Ins) BY <3>3, NamedRead, ConcatProperties
      <3>7. Len(T \o Z) \in Nat BY <3>6, LenProperties
      <3>8. Target = Raise(mach) BY <3>3, <3>4, <3>5, <3>7, OutcomeStops
      <3>9. PICK R : Ahead(frames, R) BY <1>3, <3>1 DEF Agrees
      <3>10. Len(R) \in Nat
        <4>1. R \in Seq(Ins) BY <3>9, AheadIs
        <4> QED BY <4>1, LenProperties
      <3>11. Outcome(ctx, Raise(mach), R, <<>>) = Raise(mach) BY <3>5, <3>10, OutcomeStops
      <3> QED BY <3>8, <3>9, <3>11 DEF Agrees
    <2> QED BY <1>1, <1>2, <1>4, <2>1, <2>2, FailRaise, ScriptBecomes
  <1>8. CASE ~Unfit(mach) /\ b.depth # 0
    <2>1. Become(Raise(mach), frames) BY <1>5, <1>8 DEF Branch, Unfit
    <2>2. ~WellFormed(began.code) BY <1>1, <1>5, <1>6, <1>8, EnterKeeps
    <2> QED BY <1>1, <1>2, <2>1, <2>2, FailRaise, ScriptBecomes
  <1>9. CASE ~Unfit(mach) /\ b.depth = 0
    <2>1. PICK fr : fr = Append([frames EXCEPT ![Len(frames)].at = b.next],
                                [code |-> Chosen(b, taken), at |-> 1])
      OBVIOUS
    <2>2. Become(op_drop(mach), fr)
      <3>1. Chosen(b, taken) = IF IsTrue(mach.main[1]) = (Current.op = OP_IF) THEN b.met ELSE b.unmet
        BY <1>6, Zenon DEF Chosen
      <3> QED BY <1>5, <1>9, <2>1, <3>1 DEF Branch, Unfit
    <2>3. WellFormed(began.code) => Agrees(op_drop(mach), fr)
      BY <1>1, <1>5, <1>6, <1>9, <2>1, EnterKeeps
    <2>4. Machine(op_drop(mach)) BY <1>2, ReplacingKeep
    <2> QED BY <1>1, <1>4, <2>2, <2>3, <2>4, ScriptBecomes
  <1> QED BY <1>7, <1>8, <1>9

(*------------------------ the machines that scripts begin on ------------------------*)

HasMachine(r) == r.verdict = "" => Machine(r.mach)

LEMMA EngineIs == Machine(Engine) /\ Engine.ok # "raise"
  BY DEF Machine, Engine

LEMMA RunHasMachine ==
  ASSUME NEW c, NEW m, Machine(m), NEW code, NEW name
  PROVE  HasMachine(Run(c, m, code, name))
  BY DEF HasMachine, Run

LEMMA KnownHasMachine ==
  ASSUME NEW v, v # ""
  PROVE  HasMachine(Known(v))
  BY DEF HasMachine, Known

LEMMA JudgedHasMachine ==
  ASSUME NEW v
  PROVE  HasMachine(Judged(v))
  <1> DEFINE w == CASE v = "valid" -> "accepted" [] v = "invalid" -> "refused" [] OTHER -> "raised"
  <1>1. w # "" OBVIOUS
  <1>2. Judged(v) = Known(w) BY DEF Judged
  <1> QED BY <1>1, <1>2, KnownHasMachine

LEMMA WitnessProgramHasMachine ==
  ASSUME NEW c, NEW program
  PROVE  HasMachine(WitnessProgram(c, program))
  <1>1. HasMachine(Known("raised")) /\ HasMachine(Known("refused")) BY KnownHasMachine
  <1>2. HasMachine(WitnessKeyHash(c, program))
    <2>1. PICK d : d = [c EXCEPT !.code = Serialized(P2PKH(Drop(program, 2)))] OBVIOUS
    <2>2. PICK m : m = [Engine EXCEPT !.main = Reverse(c.tx.witness[c.i])] OBVIOUS
    <2>3. Machine(m) BY <2>2, EngineIs, StacksChange
    <2>4. HasMachine(Run(d, m, P2PKH(Drop(program, 2)), "witness")) BY <2>3, RunHasMachine
    <2> QED BY <1>1, <2>1, <2>2, <2>4 DEF WitnessKeyHash
  <1>3. HasMachine(WitnessScriptHash(c, program))
    <2>0. PICK w : w = c.tx.witness[c.i] OBVIOUS
    <2>1. PICK d : d = [c EXCEPT !.code = Serialized(Last(w))] OBVIOUS
    <2>2. PICK m : m = PushList(Engine, Reverse(Front(w))) OBVIOUS
    <2>3. Machine(m) BY <2>2, EngineIs, PushListKeeps
    <2>4. HasMachine(Run(d, m, Last(w), "witness")) BY <2>3, RunHasMachine
    <2> QED BY <1>1, <2>0, <2>1, <2>2, <2>4 DEF WitnessScriptHash
  <1>4. HasMachine(TaprootKey(c, program))
    BY <1>1, JudgedHasMachine DEF TaprootKey
  <1>5. HasMachine(TaprootScript(c, program))
    <2> DEFINE w == c.tx.witness[c.i]
               control == Last(w)
               code == w[Len(w) - 1]
               proof == ControlBlock(control, code, Drop(program, 2))
               e == [Engine EXCEPT !.weight = Len(WitnessBytes(w)) + 50]
               m == PushList(e, Take(w, Len(w) - 2))
               d == [c EXCEPT !.version = "tapscript", !.leaf = TapLeaf(control[1] - (control[1] % 2), code)]
    <2>1. TaprootScript(c, program) = IF proof # "valid" THEN Judged(proof) ELSE Run(d, m, code, "leaf")
      BY DEF TaprootScript
    <2>2. Machine(e) BY EngineIs, StacksChange
    <2>3. Machine(m)
      <3> HIDE DEF e
      <3> QED BY <2>2, PushListKeeps
    <2> HIDE DEF m, d, code, proof
    <2>4. HasMachine(Run(d, m, code, "leaf")) /\ HasMachine(Judged(proof))
      BY <2>3, RunHasMachine, JudgedHasMachine
    <2> QED BY <2>1, <2>4
  <1>6. WitnessProgram(c, program) \in {WitnessKeyHash(c, program), WitnessScriptHash(c, program),
          TaprootKey(c, program), TaprootScript(c, program), Known("raised"), Known("refused")}
    BY DEF WitnessProgram
  <1> QED BY <1>1, <1>2, <1>3, <1>4, <1>5, <1>6

LEMMA ScriptPairHasMachine ==
  ASSUME NEW c, NEW kind, NEW scriptsig
  PROVE  HasMachine(ScriptPair(c, kind, scriptsig))
  <1>1. HasMachine(Known("raised")) /\ HasMachine(Known("refused")) BY KnownHasMachine
  <1>2. \A code, name : HasMachine(Run(c, Engine, code, name)) BY EngineIs, RunHasMachine
  <1>3. ScriptPair(c, kind, scriptsig) \in {Known("raised"), Known("refused"),
          Run(c, Engine, scriptsig \o c.utxos[c.i].script, "combined"),
          Run(c, Engine, scriptsig \o c.utxos[c.i].script, "bare"),
          Run(c, Engine, scriptsig, "scriptsig")}
    BY DEF ScriptPair
  <1> QED BY <1>1, <1>2, <1>3

LEMMA InputStartHasMachine ==
  ASSUME NEW c
  PROVE  HasMachine(InputStart(c))
  <1> DEFINE d == [c EXCEPT !.version = "v0"]
             script_ == c.utxos[c.i].script
             kind == ScriptPubKeyKind(script_)
             scriptsig == c.tx.inputs[c.i].scriptsig
  <1>1. InputStart(c) \in {Known("raised"), Known("accepted"), WitnessProgram(d, script_),
                           ScriptPair(d, kind, scriptsig), ScriptPair(c, kind, scriptsig)}
    BY DEF InputStart
  <1> HIDE DEF d
  <1>2. HasMachine(Known("raised")) /\ HasMachine(Known("accepted")) BY KnownHasMachine
  <1>3. HasMachine(WitnessProgram(d, script_)) BY WitnessProgramHasMachine
  <1>4. HasMachine(ScriptPair(d, kind, scriptsig)) /\ HasMachine(ScriptPair(c, kind, scriptsig))
    BY ScriptPairHasMachine
  <1> QED BY <1>1, <1>2, <1>3, <1>4

(*------------------------------- scripts begin and end -------------------------------*)

\* A script that begins is what is left of it.
LEMMA BeginningAgrees ==
  ASSUME NEW m, NEW code, WellFormed(code), NEW c, ctx' = c, began' = [mach |-> m, code |-> code],
         mach' = m, frames' = <<[code |-> code, at |-> 1]>>
  PROVE  Agrees(mach, frames)'
  <1>1. PICK L : L = Instructions(code, 1).list OBVIOUS
  <1>2. code \in Str /\ Instructions(code, 1).ok BY DEF WellFormed, Disassembles, Str
  <1>3. Parses(code, 1, L) BY <1>1, <1>2, InstructionsParse
  <1>4. L \in Seq(Ins) BY <1>3, CutsTyped DEF Parses
  <1>5. Len(L) \in Nat /\ DOMAIN L = 1 .. Len(L) BY <1>4, LenProperties
  <1>6. L \in Seq(NamedIns)
    <2>1. ASSUME NEW k \in 1 .. Len(L) PROVE L[k] \in NamedIns
      <3>1. L[k] \in Ins BY <1>4, ElementOfSeq
      <3>2. L[k].op \notin \hbb..\hfe BY <1>1, <1>5 DEF WellFormed, Disassembles
      <3> QED BY <3>1, <3>2 DEF NamedIns
    <2>2. L \in [1 .. Len(L) -> NamedIns]
      <3>1. L = [k \in 1 .. Len(L) |-> L[k]] BY <1>4
      <3> QED BY <2>1, <3>1
    <2> QED BY <1>5, <2>2
  <1>7. Shaped(<<>>, L, <<>>)
    <2>1. Shape(L) = <<>> BY <1>1 DEF WellFormed
    <2> QED BY <1>5, <2>1, BalancedList
  <1>8. Ahead(Append(<<>>, [code |-> code, at |-> 1]), L \o <<>>)
    BY <1>3, <1>6, <1>7, AheadNothing, BranchAhead
  <1>9. L \o <<>> = L BY <1>4, ConcatEmptySeq
  <1>10. Append(<<>>, [code |-> code, at |-> 1]) = <<[code |-> code, at |-> 1]>> OBVIOUS
  <1>11. Ahead(frames', L) BY <1>8, <1>9, <1>10
  <1>12. Target' = Flagged(m, c, L)
    <2>1. began'.mach = m /\ began'.code = code OBVIOUS
    <2> QED BY <1>1, <2>1 DEF Target
  <1>13. Outcome(ctx', mach', L, <<>>) = Target' BY <1>12, FlaggedIsOutcome
  <1> QED BY <1>11, <1>13 DEF Agrees

LEMMA ScriptConcludes ==
  ASSUME ScriptInv, stage # "done", NEW v, Conclude(v)
  PROVE  ScriptInv'
  <1>1. Machine(mach) /\ mach.ok # "raise" BY DEF ScriptInv
  <1>2. CASE v = "accepted"
    <2>1. mach' = Engine /\ stage' \in {"input", "tx", "done"} BY <1>2 DEF Conclude, Advance, Settle
    <2> QED BY <2>1, EngineIs, ElsewhereKeeps
  <1>3. CASE v # "accepted"
    <2>1. mach' = mach /\ stage' = "done" BY <1>3 DEF Conclude, Settle
    <2> QED BY <1>1, <2>1, ElsewhereKeeps
  <1> QED BY <1>2, <1>3

LEMMA ScriptStarts ==
  ASSUME ScriptInv, stage # "done", NEW r, HasMachine(r), Start(r)
  PROVE  ScriptInv'
  <1>1. CASE r.verdict = "" /\ r.mach.ok = "go"
    <2>1. PICK m : m = r.mach OBVIOUS
    <2>2. PICK code : code = r.code OBVIOUS
    <2>3. /\ ctx' = r.ctx /\ mach' = m /\ frames' = <<[code |-> code, at |-> 1]>>
          /\ began' = [mach |-> m, code |-> code] /\ stage' = "script"
      BY <1>1, <2>1, <2>2 DEF Start
    <2>4. Machine(m) /\ m.ok = "go" BY <1>1, <2>1 DEF HasMachine
    <2>5. WellFormed(code) => Agrees(mach, frames)' BY <2>3, BeginningAgrees
    <2>6. began'.code = code BY <2>3
    <2> QED BY <2>3, <2>4, <2>5, <2>6 DEF ScriptInv
  <1>2. CASE ~(r.verdict = "" /\ r.mach.ok = "go")
    <2>1. PICK v : Conclude(v) BY <1>2 DEF Start
    <2> QED BY <2>1, ScriptConcludes
  <1> QED BY <1>1, <1>2

LEMMA InitHasScript == Init => ScriptInv
  BY EngineIs DEF Init, ScriptInv

LEMMA ScriptApart ==
  ASSUME ScriptInv,
         Send \/ Close \/ ReceiveHeader \/ ReceivePayload \/ ReceiveFails \/ CheckTx
  PROVE  ScriptInv'
  <1>1. mach' = mach /\ stage # "done" /\ stage' # "script"
    <2>1. CASE Send \/ Close \/ ReceiveHeader BY <2>1 DEF Send, Close, ReceiveHeader, script
    <2>2. CASE ReceivePayload
      <3>1. mach' = mach /\ stage = "wire" BY <2>2 DEF ReceivePayload, script
      <3>2. stage' = "wire" \/ stage' = "tx" BY <2>2 DEF ReceivePayload
      <3> QED BY <3>1, <3>2
    <2>3. CASE ReceiveFails BY <2>3 DEF ReceiveFails, Settle, script
    <2>4. CASE CheckTx BY <2>4 DEF CheckTx, Settle
    <2> QED BY <2>1, <2>2, <2>3, <2>4
  <1>2. Machine(mach) /\ mach.ok # "raise" BY <1>1 DEF ScriptInv
  <1> QED BY <1>1, <1>2, ElsewhereKeeps

LEMMA ScriptStartInput ==
  ASSUME ScriptInv, StartInput
  PROVE  ScriptInv'
  <1>1. stage = "input" /\ Start(InputStart(ctx)) BY DEF StartInput
  <1> QED BY <1>1, InputStartHasMachine, ScriptStarts

LEMMA ScriptEnds ==
  ASSUME ScriptInv, EndCombined \/ EndBare \/ EndRedeem \/ EndLeaf \/ EndWitness
  PROVE  ScriptInv'
  <1>1. stage = "script" /\ \E v : Conclude(v)
    BY DEF EndCombined, EndBare, EndRedeem, EndLeaf, EndWitness, Finished, Decide
  <1> QED BY <1>1, ScriptConcludes

LEMMA ScriptEndScriptSig ==
  ASSUME ScriptInv, EndScriptSig
  PROVE  ScriptInv'
  <1> DEFINE next == Run(ctx, mach, ctx.utxos[ctx.i].script, "hash")
  <1>1. stage = "script" BY DEF EndScriptSig, Finished
  <1>2. Start(Known("refused")) \/ Start(next) BY DEF EndScriptSig
  <1>3. Machine(mach) BY DEF ScriptInv
  <1>4. HasMachine(next) /\ HasMachine(Known("refused")) BY <1>3, RunHasMachine, KnownHasMachine
  <1> HIDE DEF next
  <1> QED BY <1>1, <1>2, <1>4, ScriptStarts

LEMMA ScriptEndHash ==
  ASSUME ScriptInv, EndHash
  PROVE  ScriptInv'
  <1> DEFINE e == [mach EXCEPT !.ok = "go"]
             m == op_verify(e)
             nested == IsP2WPKH(redeem) \/ IsP2WSH(redeem)
             alone == ctx.tx.inputs[ctx.i].scriptsig = EncodePush(redeem)
             v0 == [ctx EXCEPT !.version = "v0"]
             coded == [ctx EXCEPT !.code = redeem]
             r == CASE m.ok = "raise" -> Known("raised")
                    [] m.ok = "fail" \/ (nested /\ ~alone) -> Known("refused")
                    [] m.ok = "go" /\ nested /\ alone -> WitnessProgram(v0, redeem)
                    [] OTHER -> Run(coded, m, redeem, "redeem")
  <1>1. stage = "script" BY DEF EndHash, Finished
  <1>2. Start(r)
    <2> HIDE DEF m, nested, alone, v0, coded
    <2> QED BY DEF EndHash, m, nested, alone, v0, coded
  <1>3. r \in {Known("raised"), Known("refused"), WitnessProgram(v0, redeem), Run(coded, m, redeem, "redeem")}
    <2> HIDE DEF m, nested, alone, v0, coded
    <2> QED OBVIOUS
  <1>4. Machine(e) BY DEF ScriptInv, Machine
  <1>5. Machine(m)
    <2> HIDE DEF e
    <2> QED BY <1>4, VerifyKeeps
  <1>6. HasMachine(r)
    <2> HIDE DEF r, m, v0, coded
    <2>1. /\ HasMachine(Known("raised")) /\ HasMachine(Known("refused"))
          /\ HasMachine(WitnessProgram(v0, redeem)) /\ HasMachine(Run(coded, m, redeem, "redeem"))
      BY <1>5, KnownHasMachine, WitnessProgramHasMachine, RunHasMachine
    <2> QED BY <1>3, <2>1
  <1> HIDE DEF r
  <1> QED BY <1>1, <1>2, <1>6, ScriptStarts

LEMMA ScriptStutters ==
  ASSUME ScriptInv, UNCHANGED vars
  PROVE  ScriptInv'
  <1>1. mach' = mach /\ frames' = frames /\ stage' = stage /\ ctx' = ctx /\ began' = began
    BY DEF vars, script
  <1>2. Target' = Target /\ (WellFormed(began'.code) <=> WellFormed(began.code)) BY <1>1, TargetStays
  <1>3. Agrees(mach, frames)' <=> Agrees(mach, frames) BY <1>1, AgreesStays
  <1> QED BY <1>1, <1>2, <1>3 DEF ScriptInv

LEMMA NextKeepsScript == ScriptInv /\ [Next]_vars => ScriptInv'
  <1> SUFFICES ASSUME ScriptInv, [Next]_vars PROVE ScriptInv' OBVIOUS
  <1>1. CASE Send \/ Close \/ ReceiveHeader \/ ReceivePayload \/ ReceiveFails \/ CheckTx
    BY <1>1, ScriptApart
  <1>2. CASE StartInput BY <1>2, ScriptStartInput
  <1>3. CASE Step \/ Branch \/ EndOfScript BY <1>3, ScriptSteps, ScriptBranches, ScriptLeaves
  <1>4. CASE EndCombined \/ EndBare \/ EndRedeem \/ EndLeaf \/ EndWitness BY <1>4, ScriptEnds
  <1>5. CASE EndScriptSig \/ EndHash BY <1>5, ScriptEndScriptSig, ScriptEndHash
  <1>6. CASE UNCHANGED vars BY <1>6, ScriptStutters
  <1> QED BY <1>1, <1>2, <1>3, <1>4, <1>5, <1>6 DEF Next

\* While a script is run the engine is on the way to where the script comes to when
\* it is read once: what is left of every branch is read to its end, its conditionals
\* are balanced, and joined the rests bring the machine there.
THEOREM ScriptInvariant == Spec => []ScriptInv
  BY InitHasScript, NextKeepsScript, PTL DEF Spec

LEMMA AgreementMeansSame == ScriptInv => ConditionalsAgree
  <1> SUFFICES ASSUME ScriptInv, frames = <<>>, stage = "script" \/ mach.ok = "raise",
                      WellFormed(began.code)
               PROVE  SameStacks(Target, mach)
    BY DEF ConditionalsAgree, Target
  <1>1. CASE mach.ok = "raise" BY <1>1 DEF ScriptInv, SameStacks
  <1>2. CASE mach.ok # "raise"
    <2>1. Agrees(mach, frames) BY <1>2 DEF ScriptInv
    <2>2. mach = Target BY <2>1, StoppedAgrees
    <2> QED BY <2>2 DEF SameStacks
  <1> QED BY <1>1, <1>2

\* ConditionalsAgree: _select_conditional_branch, which copies the branch that is
\* taken and runs it as a script of its own, leaves every well-formed script with
\* the stacks and the outcome of an interpreter that reads it once with a flag for
\* each open conditional, whatever the script, the context and the machine it begins on.
THEOREM ConditionalsHold == Spec => []ConditionalsAgree
  BY ScriptInvariant, AgreementMeansSame, PTL

=============================================================================
