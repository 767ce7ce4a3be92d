--------------------------- MODULE Mempool_proofs ---------------------------
(***************************************************************************)
(* Proofs about module Mempool: what the index of spent outpoints, the     *)
(* limits of the pool, of its packages and of the orphan pool come to,     *)
(* whatever the transactions, the limits and the order of the calls; that  *)
(* the lists the entries keep are those of the graph of transactions; what *)
(* a replacement pays for and takes the place of; and that a template is a *)
(* valid selection.                                                        *)
(***************************************************************************)
EXTENDS Mempool, Finite_proofs, SequenceTheorems

-----------------------------------------------------------------------------
(* Sizes *)

\* A transaction has a size.
LEMMA VBytesPositive ==
  ASSUME NEW t \in Txs
  PROVE  VBytes(t) \in Nat \ {0}
  <1>1. Weight[t] \in Nat \ {0} BY MempoolAssumption
  <1>2. \A n \in Nat \ {0} : (n + 3) \div 4 \in Nat \ {0} OBVIOUS
  <1> QED BY <1>1, <1>2 DEF VBytes

\* Size adds the virtual sizes of a set of transactions, in whatever order.
LEMMA SizeAdds ==
  Adds(Txs, [t \in Txs |-> VBytes(t)], Size)
  <1> DEFINE w == [t \in Txs |-> VBytes(t)]
  <1>1. w \in [Txs -> Nat] BY VBytesPositive
  <1>2. \A t \in Txs : w[t] = VBytes(t) OBVIOUS
  <1> HIDE DEF w
  <1>3. IsFiniteSet(Txs) BY MempoolAssumption
  <1>4. PICK sum : Adds(Txs, w, sum) BY <1>1, <1>3, SumExists
  <1>5. ASSUME NEW ts \in SUBSET Txs PROVE MapThenSumSet(VBytes, ts) = sum[ts]
    <2> DEFINE iter == CHOOSE g : g = [s \in SUBSET ts |->
                  IF s = {} THEN 0 ELSE VBytes(CHOOSE x \in s : TRUE) + g[s \ {CHOOSE x \in s : TRUE}]]
    <2>1. MapThenSumSet(VBytes, ts) = iter[ts] BY DEF MapThenSumSet, MapThenFoldSet
    <2>2. PICK g : Iterates(g, ts, w) BY <1>1, <1>3, <1>4, SumIterates
    <2>3. \A s \in SUBSET ts : s # {} => w[CHOOSE x \in s : TRUE] = VBytes(CHOOSE x \in s : TRUE)
      BY <1>2
    <2>4. g = [s \in SUBSET ts |->
                  IF s = {} THEN 0 ELSE VBytes(CHOOSE x \in s : TRUE) + g[s \ {CHOOSE x \in s : TRUE}]]
      BY <2>2, <2>3 DEF Iterates
    <2>5. iter = [s \in SUBSET ts |->
                  IF s = {} THEN 0 ELSE VBytes(CHOOSE x \in s : TRUE) + iter[s \ {CHOOSE x \in s : TRUE}]]
      BY <2>4
    <2> HIDE DEF iter
    <2>6. Iterates(iter, ts, w) BY <2>3, <2>5 DEF Iterates
    <2>7. iter[ts] = sum[ts] BY <1>1, <1>3, <1>4, <2>6, SumIterates
    <2> QED BY <2>1, <2>7
  <1>6. Size = sum
    <2>1. sum \in [SUBSET Txs -> Nat] BY <1>4 DEF Adds
    <2> QED BY <1>5, <2>1 DEF Size
  <1> QED BY <1>4, <1>6 DEF w

\* Fees adds their fees.
LEMMA FeesAdds ==
  Adds(Txs, [t \in Txs |-> Fee[t]], Fees)
  <1> DEFINE w == [t \in Txs |-> Fee[t]]
  <1>1. w \in [Txs -> Nat] BY MempoolAssumption
  <1>2. \A t \in Txs : w[t] = Fee[t] OBVIOUS
  <1> HIDE DEF w
  <1>3. IsFiniteSet(Txs) BY MempoolAssumption
  <1>4. PICK sum : Adds(Txs, w, sum) BY <1>1, <1>3, SumExists
  <1>5. ASSUME NEW ts \in SUBSET Txs PROVE MapThenSumSet(LAMBDA t : Fee[t], ts) = sum[ts]
    <2> DEFINE iter == CHOOSE g : g = [s \in SUBSET ts |->
                  IF s = {} THEN 0 ELSE Fee[CHOOSE x \in s : TRUE] + g[s \ {CHOOSE x \in s : TRUE}]]
    <2>1. MapThenSumSet(LAMBDA t : Fee[t], ts) = iter[ts] BY DEF MapThenSumSet, MapThenFoldSet
    <2>2. PICK g : Iterates(g, ts, w) BY <1>1, <1>3, <1>4, SumIterates
    <2>3. \A s \in SUBSET ts : s # {} => w[CHOOSE x \in s : TRUE] = Fee[CHOOSE x \in s : TRUE]
      BY <1>2
    <2>4. g = [s \in SUBSET ts |->
                  IF s = {} THEN 0 ELSE Fee[CHOOSE x \in s : TRUE] + g[s \ {CHOOSE x \in s : TRUE}]]
      BY <2>2, <2>3 DEF Iterates
    <2>5. iter = [s \in SUBSET ts |->
                  IF s = {} THEN 0 ELSE Fee[CHOOSE x \in s : TRUE] + iter[s \ {CHOOSE x \in s : TRUE}]]
      BY <2>4
    <2> HIDE DEF iter
    <2>6. Iterates(iter, ts, w) BY <2>3, <2>5 DEF Iterates
    <2>7. iter[ts] = sum[ts] BY <1>1, <1>3, <1>4, <2>6, SumIterates
    <2> QED BY <2>1, <2>7
  <1>6. Fees = sum
    <2>1. sum \in [SUBSET Txs -> Nat] BY <1>4 DEF Adds
    <2> QED BY <1>5, <2>1 DEF Fees
  <1> QED BY <1>4, <1>6 DEF w

\* What the limits need of the size of a set: a part is no larger than the
\* whole, one transaction adds its own size, and only the empty set has none.
LEMMA SizeFacts ==
  ASSUME NEW A \in SUBSET Txs
  PROVE  /\ Size[A] \in Nat /\ Fees[A] \in Nat
         /\ Size[{}] = 0
         /\ \A B \in SUBSET A : Size[B] <= Size[A]
         /\ \A t \in A : Size[A] = VBytes(t) + Size[A \ {t}]
         /\ A # {} => Size[A] > 0
  <1> DEFINE w == [t \in Txs |-> VBytes(t)]
  <1>1. w \in [Txs -> Nat] BY VBytesPositive
  <1>2. \A t \in Txs : w[t] = VBytes(t) OBVIOUS
  <1>3. Adds(Txs, w, Size) BY SizeAdds
  <1> HIDE DEF w
  <1>4. IsFiniteSet(Txs) BY MempoolAssumption
  <1>5. \A B \in SUBSET A : Size[B] <= Size[A] BY <1>1, <1>3, <1>4, SumOfParts
  <1>6. \A t \in A : Size[A] = VBytes(t) + Size[A \ {t}] BY <1>2, <1>3 DEF Adds
  <1>7. Size[A] \in Nat /\ Size[{}] = 0 /\ \A t \in A : Size[A \ {t}] \in Nat BY <1>3 DEF Adds
  <1>8. Fees[A] \in Nat BY FeesAdds DEF Adds
  <1>9. ASSUME NEW t \in A PROVE Size[A] > 0
    <2>1. VBytes(t) \in Nat \ {0} BY VBytesPositive
    <2>2. Size[A] = VBytes(t) + Size[A \ {t}] /\ Size[A \ {t}] \in Nat BY <1>6, <1>7
    <2>3. \A k, n \in Nat : k # 0 => k + n > 0 OBVIOUS
    <2>4. VBytes(t) \in Nat /\ VBytes(t) # 0 BY <2>1
    <2> HIDE DEF VBytes
    <2> QED BY <2>2, <2>3, <2>4
  <1> QED BY <1>5, <1>6, <1>7, <1>8, <1>9

\* Fractions compared by their cross products are in order: if a / b <= c / d
\* and c / d <= e / f then a / b <= e / f, strictly if one of the two is strict.
LEMMA Cross ==
  ASSUME NEW a \in Nat, NEW b \in Nat \ {0}, NEW c \in Nat, NEW d \in Nat \ {0},
         NEW e \in Nat, NEW f \in Nat \ {0}, a * d <= c * b, c * f <= e * d
  PROVE  /\ a * f <= e * b
         /\ a * d < c * b \/ c * f < e * d => a * f < e * b
  <1>1. (a * d) * f <= (c * b) * f OBVIOUS
  <1>2. (c * f) * b <= (e * d) * b OBVIOUS
  <1>3. (a * d) * f = (a * f) * d /\ (c * b) * f = (c * f) * b /\ (e * d) * b = (e * b) * d OBVIOUS
  <1>4. (a * f) * d <= (e * b) * d BY <1>1, <1>2, <1>3
  <1>5. a * d < c * b => (a * d) * f < (c * b) * f OBVIOUS
  <1>6. c * f < e * d => (c * f) * b < (e * d) * b OBVIOUS
  <1>7. a * d < c * b \/ c * f < e * d => (a * f) * d < (e * b) * d BY <1>1, <1>2, <1>3, <1>5, <1>6
  <1> QED BY <1>4, <1>7

\* Of some packages one pays the least and one the most, equals being told apart by
\* the txid.
LEMMA RatesCompare ==
  ASSUME NEW S \in SUBSET Txs, S # {}, NEW P, \A t \in S : P[t] \in SUBSET Txs /\ P[t] # {}
  PROVE  /\ \E t \in S : \A u \in S : Cheaper(P[t], t, P[u], u)
         /\ \E t \in S : \A u \in S : Cheaper(P[u], u, P[t], t)
  <1> DEFINE R == {x \in S \X S : Cheaper(P[x[1]], x[1], P[x[2]], x[2])}
             Q == {x \in S \X S : Cheaper(P[x[2]], x[2], P[x[1]], x[1])}
  <1>1. \A x, y \in S : /\ <<x, y>> \in R <=> Cheaper(P[x], x, P[y], y)
                        /\ <<x, y>> \in Q <=> Cheaper(P[y], y, P[x], x)
    OBVIOUS
  <1> HIDE DEF R, Q
  <1>2. ASSUME NEW x \in S
        PROVE  /\ P[x] \in SUBSET Txs /\ Fees[P[x]] \in Nat
               /\ Size[P[x]] \in Nat \ {0} /\ Rank[x] \in Nat
    <2>1. P[x] \in SUBSET Txs /\ P[x] # {} OBVIOUS
    <2>2. Fees[P[x]] \in Nat /\ Size[P[x]] \in Nat /\ Size[P[x]] > 0 BY <2>1, SizeFacts
    <2>3. Rank[x] \in Nat BY MempoolAssumption
    <2> QED BY <2>1, <2>2, <2>3
  <1>3. ASSUME NEW x \in S, NEW y \in S
        PROVE  Cheaper(P[x], x, P[y], y) \/ Cheaper(P[y], y, P[x], x)
    <2> DEFINE a == Fees[P[x]] * Size[P[y]]
               c == Fees[P[y]] * Size[P[x]]
    <2>1. a \in Nat /\ c \in Nat /\ Rank[x] \in Nat /\ Rank[y] \in Nat BY <1>2
    <2> HIDE DEF a, c
    <2>2. a < c \/ (a = c /\ Rank[x] <= Rank[y]) \/ c < a \/ (c = a /\ Rank[y] <= Rank[x]) BY <2>1
    <2> QED BY <2>2 DEF Cheaper, a, c
  <1>4. ASSUME NEW x \in S, NEW y \in S, NEW z \in S,
               Cheaper(P[x], x, P[y], y), Cheaper(P[y], y, P[z], z)
        PROVE  Cheaper(P[x], x, P[z], z)
    <2>1. PICK a, b, c, d, e, f :
             /\ a = Fees[P[x]] /\ b = Size[P[x]] /\ c = Fees[P[y]] /\ d = Size[P[y]]
             /\ e = Fees[P[z]] /\ f = Size[P[z]]
      OBVIOUS
    <2>2. /\ a \in Nat /\ b \in Nat \ {0} /\ c \in Nat /\ d \in Nat \ {0}
          /\ e \in Nat /\ f \in Nat \ {0}
          /\ Rank[x] \in Nat /\ Rank[y] \in Nat /\ Rank[z] \in Nat
      BY <1>2, <2>1
    <2>3. /\ a * d < c * b \/ (a * d = c * b /\ Rank[x] <= Rank[y])
          /\ c * f < e * d \/ (c * f = e * d /\ Rank[y] <= Rank[z])
      BY <1>4, <2>1 DEF Cheaper
    <2>4. /\ a * d \in Nat /\ c * b \in Nat /\ c * f \in Nat /\ e * d \in Nat
          /\ a * f \in Nat /\ e * b \in Nat
      BY <2>2
    <2>5. a * d <= c * b /\ c * f <= e * d BY <2>3, <2>4
    <2>6. /\ a * f <= e * b
          /\ a * d < c * b \/ c * f < e * d => a * f < e * b
      BY <2>2, <2>5, Cross
    <2>7. a * f < e * b \/ (a * f = e * b /\ Rank[x] <= Rank[z])
      <3>1. CASE a * d < c * b \/ c * f < e * d BY <2>6, <3>1
      <3>2. CASE ~ (a * d < c * b \/ c * f < e * d)
        <4>1. Rank[x] <= Rank[y] /\ Rank[y] <= Rank[z] BY <2>3, <3>2
        <4>2. Rank[x] <= Rank[z] BY <2>2, <4>1
        <4>3. a * f < e * b \/ a * f = e * b BY <2>4, <2>6
        <4> QED BY <4>2, <4>3
      <3> QED BY <3>1, <3>2
    <2> QED BY <2>1, <2>7 DEF Cheaper
  <1>5. /\ \A x, y \in S : <<x, y>> \in R \/ <<y, x>> \in R
        /\ \A x, y, z \in S : <<x, y>> \in R /\ <<y, z>> \in R => <<x, z>> \in R
    BY <1>1, <1>3, <1>4
  <1>6. /\ \A x, y \in S : <<x, y>> \in Q \/ <<y, x>> \in Q
        /\ \A x, y, z \in S : <<x, y>> \in Q /\ <<y, z>> \in Q => <<x, z>> \in Q
    BY <1>1, <1>3, <1>4
  <1>7. IsFiniteSet(S) BY MempoolAssumption, FS_Subset
  <1>8. PICK t \in S : \A u \in S : <<t, u>> \in R BY <1>5, <1>7, LeastInOrder
  <1>9. PICK v \in S : \A u \in S : <<v, u>> \in Q BY <1>6, <1>7, LeastInOrder
  <1> QED BY <1>1, <1>8, <1>9

Packed(m, t, left) == {t} \cup (m.entries[t].desc \cap left)
IsWorst(m, t, left) ==
    t \in left /\ \A u \in left : Cheaper(Packed(m, t, left), t, Packed(m, u, left), u)

\* So trimming always has a package to evict.
LEMMA WorstExists ==
  ASSUME NEW m, NEW left \in SUBSET Txs, left # {}
  PROVE  \E t : IsWorst(m, t, left)
  <1> DEFINE P == [t \in left |-> Packed(m, t, left)]
  <1>1. \A t \in left : P[t] = Packed(m, t, left) OBVIOUS
  <1>2. \A t \in left : P[t] \in SUBSET Txs /\ P[t] # {} BY DEF Packed
  <1> HIDE DEF P
  <1>3. PICK t \in left : \A u \in left : Cheaper(P[t], t, P[u], u) BY <1>2, RatesCompare
  <1> QED BY <1>1, <1>3 DEF IsWorst

Worst(m, left) == CHOOSE t \in left : \A u \in left :
                      Cheaper(Packed(m, t, left), t, Packed(m, u, left), u)

\* That is the package _trim_to_size chooses.
LEMMA WorstIsOne ==
  ASSUME NEW m, NEW left \in SUBSET Txs, left # {}
  PROVE  Worst(m, left) \in left
  <1>1. \E t \in left : \A u \in left : Cheaper(Packed(m, t, left), t, Packed(m, u, left), u)
    BY WorstExists DEF IsWorst
  <1> QED BY <1>1 DEF Worst

\* The descendants listed are those that list the entry as an ancestor, and an
\* entry lists the ancestors of those it lists.
Related(m) ==
    /\ \A t, u \in DOMAIN m.entries : u \in m.entries[t].desc <=> t \in m.entries[u].anc
    /\ \A t \in DOMAIN m.entries : \A a \in m.entries[t].anc :
          m.entries[a].anc \subseteq m.entries[t].anc

\* An entry of left and its descendants are evicted together.
Together(m, v, left) ==
    \A k \in DOMAIN v : \A t \in v[k] : \A u \in m.entries[t].desc \cap left :
        \E j \in DOMAIN v : u \in v[j]

\* What trimming evicts from left, and what it comes to.
TrimsTo(m, v, left) ==
    /\ v \in Seq(SUBSET Txs)
    /\ \A k \in DOMAIN v : v[k] \subseteq left /\ v[k] # {}
    /\ \A rest \in SUBSET left : (\A t \in left : t \in rest <=> \A k \in DOMAIN v : t \notin v[k])
                                 => Size[rest] <= MaxSize
    /\ Related(m) => Together(m, v, left)

\* Evicting one package and then trimming what is left of the pool.
LEMMA TrimStep ==
  ASSUME NEW m, NEW left \in SUBSET Txs, NEW pack \in SUBSET left, pack # {},
         Related(m) => \A t \in pack : m.entries[t].desc \cap left \subseteq pack,
         NEW v, TrimsTo(m, v, left \ pack)
  PROVE  TrimsTo(m, <<pack>> \o v, left)
  <1> DEFINE w == <<pack>> \o v
  <1>1. v \in Seq(SUBSET Txs) /\ Len(v) \in Nat /\ DOMAIN v = 1 .. Len(v) BY DEF TrimsTo
  <1>2. w \in Seq(SUBSET Txs) /\ Len(w) = 1 + Len(v) /\ w[1] = pack
        /\ \A k \in DOMAIN v : w[k + 1] = v[k]
    BY <1>1
  <1> HIDE DEF w
  <1>3. DOMAIN w = 1 .. Len(v) + 1 BY <1>1, <1>2
  <1>4. \A k \in DOMAIN w : k = 1 \/ (k - 1 \in DOMAIN v /\ w[k] = v[k - 1])
    <2>1. ASSUME NEW k \in DOMAIN w, k # 1 PROVE k - 1 \in DOMAIN v /\ (k - 1) + 1 = k
      BY <1>1, <1>3, <2>1
    <2> QED BY <1>2, <2>1
  <1>5. \A k \in DOMAIN w : w[k] \subseteq left /\ w[k] # {} BY <1>2, <1>4 DEF TrimsTo
  <1>6. \A k \in DOMAIN v : k + 1 \in DOMAIN w BY <1>1, <1>3
  <1>7. 1 \in DOMAIN w BY <1>1, <1>3
  <1>8. ASSUME NEW rest \in SUBSET left,
               \A t \in left : t \in rest <=> \A k \in DOMAIN w : t \notin w[k]
        PROVE  Size[rest] <= MaxSize
    <2>1. rest \in SUBSET (left \ pack) BY <1>2, <1>7, <1>8
    <2>2. \A t \in left \ pack : t \in rest <=> \A k \in DOMAIN v : t \notin v[k]
      BY <1>2, <1>4, <1>6, <1>8
    <2> QED BY <2>1, <2>2 DEF TrimsTo
  <1>9. ASSUME Related(m) PROVE Together(m, w, left)
    <2>1. SUFFICES ASSUME NEW k \in DOMAIN w, NEW t \in w[k], NEW u \in m.entries[t].desc \cap left
                   PROVE  \E j \in DOMAIN w : u \in w[j]
      BY DEF Together
    <2>2. CASE u \in pack BY <1>2, <1>7, <2>2
    <2>3. CASE u \notin pack
      <3>1. k # 1 BY <1>2, <1>9, <2>1, <2>3
      <3>2. k - 1 \in DOMAIN v /\ t \in v[k - 1] BY <1>4, <2>1, <3>1
      <3>3. Together(m, v, left \ pack) BY <1>9 DEF TrimsTo
      <3>4. PICK j \in DOMAIN v : u \in v[j] BY <2>1, <2>3, <3>2, <3>3 DEF Together
      <3> QED BY <1>2, <1>6, <3>4
    <2> QED BY <2>2, <2>3
  <1>10. TrimsTo(m, w, left) BY <1>2, <1>5, <1>8, <1>9 DEF TrimsTo
  <1> QED BY <1>10 DEF w

\* A pool within its size is not trimmed.
LEMMA TrimEnd ==
  ASSUME NEW m, NEW left \in SUBSET Txs, Size[left] <= MaxSize
  PROVE  TrimsTo(m, << >>, left)
  <1>1. << >> \in Seq(SUBSET Txs) /\ DOMAIN << >> = {} OBVIOUS
  <1>2. \A rest \in SUBSET left : (\A t \in left : t \in rest) => rest = left OBVIOUS
  <1>3. Together(m, << >>, left) BY <1>1 DEF Together
  <1> QED BY <1>1, <1>2, <1>3 DEF TrimsTo

\* _trim_to_size evicts entries of the pool only, and what it leaves is within
\* the size, for all the packages it chooses on the way.
LEMMA Trims ==
  ASSUME NEW m, DOMAIN m.entries \in SUBSET Txs
  PROVE  TrimsTo(m, Trimmed(m), DOMAIN m.entries)
  <1> DEFINE all == DOMAIN m.entries
             worst(left) == Worst(m, left)
             pack(left) == Packed(m, worst(left), left)
             evict == CHOOSE g : g = [left \in SUBSET all |->
                IF Size[left] <= MaxSize THEN << >>
                ELSE <<pack(left)>> \o g[left \ pack(left)]]
  <1>1. Trimmed(m) = evict[all] BY DEF Trimmed, Packed, Worst
  <1> DEFINE G == {left \in SUBSET all : ~ (Size[left] <= MaxSize)}
             step == [left \in SUBSET all |-> left \ pack(left)]
             combine == [x \in (SUBSET all) \X Seq(SUBSET Txs) |-> <<pack(x[1])>> \o x[2]]
  <1>2. IsFiniteSet(all) /\ all \in SUBSET Txs BY MempoolAssumption, FS_Subset
  <1>3. ASSUME NEW left \in SUBSET all, ~ (Size[left] <= MaxSize)
        PROVE  /\ pack(left) \in SUBSET left /\ pack(left) # {}
               /\ Related(m) => \A t \in pack(left) : m.entries[t].desc \cap left \subseteq pack(left)
    <2>1. left # {}
      <3>1. MaxSize \in Nat BY MempoolAssumption
      <3>2. Size[{}] = 0 BY SizeFacts
      <3> QED BY <1>3, <3>1, <3>2
    <2>2. worst(left) \in left BY <1>2, <2>1, WorstIsOne
    <2>3. PICK w : w = worst(left) OBVIOUS
    <2>4. pack(left) = {w} \cup (m.entries[w].desc \cap left) BY <2>3 DEF Packed
    <2>5. ASSUME Related(m), NEW t \in pack(left), NEW u \in m.entries[t].desc \cap left
          PROVE  u \in pack(left)
      <3>1. CASE t = w BY <2>4, <3>1
      <3>2. CASE t # w
        <4>1. t \in m.entries[w].desc /\ t \in all /\ w \in all /\ u \in all
          BY <2>2, <2>3, <2>4, <3>2
        <4>2. w \in m.entries[t].anc /\ t \in m.entries[u].anc BY <2>5, <4>1 DEF Related
        <4>3. w \in m.entries[u].anc BY <2>5, <4>1, <4>2 DEF Related
        <4>4. u \in m.entries[w].desc BY <2>5, <4>1, <4>3 DEF Related
        <4> QED BY <2>4, <4>4
      <3> QED BY <3>1, <3>2
    <2>6. pack(left) \in SUBSET left /\ pack(left) # {} BY <2>2, <2>3, <2>4
    <2> HIDE DEF pack
    <2> QED BY <2>5, <2>6
  <1> HIDE DEF pack
  <1>4. \A left \in SUBSET all : left \in G <=> ~ (Size[left] <= MaxSize) OBVIOUS
  <1>5. \A left \in SUBSET all : step[left] = left \ pack(left) OBVIOUS
  <1>6. \A left \in SUBSET all, v \in Seq(SUBSET Txs) : combine[<<left, v>>] = <<pack(left)>> \o v
    OBVIOUS
  <1> HIDE DEF all, G, step, combine
  <1>7. PICK f \in [SUBSET all -> Seq(SUBSET Txs)] : Solves(SUBSET all, f, all, G, step, combine, << >>)
    <2> DEFINE V == Seq(SUBSET Txs)
    <2>1. << >> \in V OBVIOUS
    <2>2. ASSUME NEW left \in SUBSET all, NEW v \in V, left \in G PROVE combine[<<left, v>>] \in V
      <3>1. pack(left) \in SUBSET Txs BY <1>2, <1>3, <1>4, <2>2
      <3>2. <<pack(left)>> \o v \in Seq(SUBSET Txs) BY <3>1
      <3>3. combine[<<left, v>>] = <<pack(left)>> \o v BY <1>6
      <3> QED BY <3>2, <3>3
    <2> HIDE DEF V
    <2>3. Descends(all, G, step, V, combine, << >>)
      BY <1>3, <1>4, <1>5, <2>1, <2>2 DEF Descends
    <2>4. \E f : f \in [SUBSET all -> V] /\ Solves(SUBSET all, f, all, G, step, combine, << >>)
      BY <1>2, <2>3, RecursionOnSubsets
    <2> QED BY <2>4 DEF V
  <1>8. ASSUME NEW left \in SUBSET all
        PROVE  f[left] = IF Size[left] <= MaxSize THEN << >>
                         ELSE <<pack(left)>> \o f[left \ pack(left)]
    <2>1. CASE Size[left] <= MaxSize
      <3>1. left \notin G BY <1>4, <2>1
      <3>2. f[left] = << >> BY <1>7, <3>1 DEF Solves
      <3> QED BY <2>1, <3>2
    <2>2. CASE ~ (Size[left] <= MaxSize)
      <3>1. left \in G BY <1>4, <2>2
      <3>2. step[left] \in SUBSET all /\ f[left] = combine[<<left, f[step[left]]>>]
        BY <1>7, <3>1 DEF Solves
      <3>3. step[left] = left \ pack(left) BY <1>5
      <3>4. f[step[left]] \in Seq(SUBSET Txs) BY <1>7, <3>2
      <3>5. combine[<<left, f[step[left]]>>] = <<pack(left)>> \o f[step[left]] BY <1>6, <3>4
      <3> QED BY <2>2, <3>2, <3>3, <3>5
    <2> QED BY <2>1, <2>2
  <1>9. f = [left \in SUBSET all |->
                IF Size[left] <= MaxSize THEN << >> ELSE <<pack(left)>> \o f[left \ pack(left)]]
    BY <1>7, <1>8
  <1>10. evict = [left \in SUBSET all |->
                IF Size[left] <= MaxSize THEN << >> ELSE <<pack(left)>> \o evict[left \ pack(left)]]
    BY <1>9
  <1> HIDE DEF evict
  <1>11. \A left \in SUBSET all : evict[left] =
                IF Size[left] <= MaxSize THEN << >> ELSE <<pack(left)>> \o evict[left \ pack(left)]
    BY <1>10
  <1> DEFINE Bad == {left \in SUBSET all : ~ TrimsTo(m, evict[left], left)}
  <1>12. Bad \in SUBSET SUBSET all OBVIOUS
  <1>13. \A left \in SUBSET all : left \in Bad <=> ~ TrimsTo(m, evict[left], left) OBVIOUS
  <1> HIDE DEF Bad
  <1>14. ASSUME Bad # {} PROVE FALSE
    <2>1. PICK A \in Bad : \A B \in Bad : B \subseteq A => B = A BY <1>2, <1>12, <1>14, LeastSet
    <2>2. A \in SUBSET all /\ A \in SUBSET Txs /\ ~ TrimsTo(m, evict[A], A) BY <1>2, <1>12, <1>13, <2>1
    <2>3. CASE Size[A] <= MaxSize BY <1>11, <2>2, <2>3, TrimEnd
    <2>4. CASE ~ (Size[A] <= MaxSize)
      <3>1. /\ pack(A) \in SUBSET A /\ pack(A) # {}
            /\ Related(m) => \A t \in pack(A) : m.entries[t].desc \cap A \subseteq pack(A)
        BY <1>3, <2>2, <2>4
      <3>2. A \ pack(A) \notin Bad BY <2>1, <3>1
      <3>3. TrimsTo(m, evict[A \ pack(A)], A \ pack(A)) BY <1>13, <2>2, <3>2
      <3>4. TrimsTo(m, <<pack(A)>> \o evict[A \ pack(A)], A) BY <2>2, <3>1, <3>3, TrimStep
      <3> QED BY <1>11, <2>2, <2>4, <3>4
    <2> QED BY <2>3, <2>4
  <1>15. all \in SUBSET all OBVIOUS
  <1>16. TrimsTo(m, evict[all], all) BY <1>13, <1>14, <1>15
  <1> QED BY <1>1, <1>16 DEF all

-----------------------------------------------------------------------------
(* The entries and the index *)

\* Every entry names entries, and the index of spent outpoints is exact.
PoolGood(m) ==
    /\ DOMAIN m.entries \in SUBSET Txs
    /\ \A t \in DOMAIN m.entries :
          /\ m.entries[t] \in Entry
          /\ m.entries[t].anc \subseteq DOMAIN m.entries /\ t \notin m.entries[t].anc
          /\ m.entries[t].desc \subseteq DOMAIN m.entries /\ t \notin m.entries[t].desc
    /\ DOMAIN m.spends = Inputs[DOMAIN m.entries]
    /\ \A t \in DOMAIN m.entries : \A i \in Ins[t] : m.spends[i] = t

WithinLimits(t, anc, desc) ==
    /\ Cardinality(anc) + 1 <= MaxAncestors
    /\ Size[anc] + VBytes(t) <= MaxAncestorSize
    /\ Cardinality(desc) + 1 <= MaxDescendants
    /\ Size[desc] + VBytes(t) <= MaxDescendantSize

PoolSmall(m) ==
    \A t \in DOMAIN m.entries : WithinLimits(t, m.entries[t].anc, m.entries[t].desc)

\* An entry within its limits is so with fewer ancestors and descendants.
LEMMA FewerWithin ==
  ASSUME NEW t \in Txs, NEW anc \in SUBSET Txs, NEW desc \in SUBSET Txs,
         NEW fewer \in SUBSET anc, NEW less \in SUBSET desc, WithinLimits(t, anc, desc)
  PROVE  WithinLimits(t, fewer, less)
  <1>1. IsFiniteSet(Txs) BY MempoolAssumption
  <1>2. IsFiniteSet(anc) /\ IsFiniteSet(desc) BY <1>1, FS_Subset
  <1>3. Cardinality(fewer) <= Cardinality(anc) /\ Cardinality(less) <= Cardinality(desc)
        /\ IsFiniteSet(fewer) /\ IsFiniteSet(less)
    BY <1>2, FS_Subset
  <1>4. /\ Cardinality(fewer) \in Nat /\ Cardinality(anc) \in Nat
        /\ Cardinality(less) \in Nat /\ Cardinality(desc) \in Nat
    BY <1>2, <1>3, FS_CardinalityType
  <1>5. /\ Size[fewer] <= Size[anc] /\ Size[fewer] \in Nat /\ Size[anc] \in Nat
        /\ Size[less] <= Size[desc] /\ Size[less] \in Nat /\ Size[desc] \in Nat
    <2>1. fewer \in SUBSET Txs /\ less \in SUBSET Txs OBVIOUS
    <2> QED BY <2>1, SizeFacts
  <1>6. VBytes(t) \in Nat BY VBytesPositive
  <1>7. \A a, b, c : a \in Nat /\ b \in Nat /\ c \in Nat /\ a <= b => a + c <= b + c OBVIOUS
  <1>8. PICK ca, cf, cd, cl, sa, sf, sd, sl, v :
           /\ ca = Cardinality(anc) /\ cf = Cardinality(fewer)
           /\ cd = Cardinality(desc) /\ cl = Cardinality(less)
           /\ sa = Size[anc] /\ sf = Size[fewer] /\ sd = Size[desc] /\ sl = Size[less]
           /\ v = VBytes(t)
    OBVIOUS
  <1>9. MaxAncestors \in Nat /\ MaxAncestorSize \in Nat /\ MaxDescendants \in Nat
        /\ MaxDescendantSize \in Nat
    BY MempoolAssumption
  <1>10. /\ ca + 1 <= MaxAncestors /\ sa + v <= MaxAncestorSize
         /\ cd + 1 <= MaxDescendants /\ sd + v <= MaxDescendantSize
    BY <1>8 DEF WithinLimits
  <1>11. /\ cf + 1 <= MaxAncestors /\ sf + v <= MaxAncestorSize
         /\ cl + 1 <= MaxDescendants /\ sl + v <= MaxDescendantSize
    BY <1>3, <1>4, <1>5, <1>6, <1>8, <1>9, <1>10
  <1> QED BY <1>8, <1>11 DEF WithinLimits

\* _remove_tx keeps the entries and the index sound and the packages within
\* their limits, and takes exactly what is removed out of every list.
LEMMA RemoveKeeps ==
  ASSUME NEW m, PoolGood(m), NEW gone \in SUBSET DOMAIN m.entries
  PROVE  LET r == RemoveEntries(m, gone)
         IN  /\ PoolGood(r)
             /\ DOMAIN r.entries = DOMAIN m.entries \ gone
             /\ PoolSmall(m) => PoolSmall(r)
             /\ DOMAIN r.spends = DOMAIN m.spends \ Inputs[gone]
             /\ \A t \in DOMAIN r.entries : r.entries[t].anc = m.entries[t].anc \ gone
                                         /\ r.entries[t].desc = m.entries[t].desc \ gone
  <1> DEFINE all == DOMAIN m.entries
  <1>1. PICK r : r = RemoveEntries(m, gone) OBVIOUS
  <1>2. /\ r.entries = [t \in all \ gone |-> [m.entries[t] EXCEPT !.anc = @ \ gone, !.desc = @ \ gone]]
        /\ r.spends = [i \in DOMAIN m.spends \ Inputs[gone] |-> m.spends[i]]
    BY <1>1 DEF RemoveEntries
  <1>3. DOMAIN r.entries = all \ gone /\ DOMAIN r.spends = DOMAIN m.spends \ Inputs[gone]
    BY <1>2
  <1>4. ASSUME NEW t \in all \ gone
        PROVE  /\ r.entries[t] \in Entry
               /\ r.entries[t].anc = m.entries[t].anc \ gone
               /\ r.entries[t].desc = m.entries[t].desc \ gone
    <2>1. m.entries[t] \in Entry BY DEF PoolGood
    <2>2. r.entries[t] = [m.entries[t] EXCEPT !.anc = @ \ gone, !.desc = @ \ gone] BY <1>2
    <2> QED BY <2>1, <2>2 DEF Entry
  <1>5. all \in SUBSET Txs /\ gone \in SUBSET Txs /\ all \ gone \in SUBSET Txs BY DEF PoolGood
  <1>6. DOMAIN r.spends = Inputs[all \ gone]
    <2>1. \A ts \in SUBSET Txs : \A i : i \in Inputs[ts] <=> \E t \in ts : i \in Ins[t]
      BY DEF Inputs
    <2>2. \A t, u \in all : \A i : i \in Ins[t] /\ i \in Ins[u] => t = u BY DEF PoolGood
    <2>3. DOMAIN m.spends = Inputs[all] BY DEF PoolGood
    <2>4. \A i : i \in Inputs[all] /\ i \notin Inputs[gone] <=> i \in Inputs[all \ gone]
      BY <1>5, <2>1, <2>2
    <2> QED BY <1>3, <2>3, <2>4
  <1>7. ASSUME NEW t \in all \ gone, NEW i \in Ins[t] PROVE r.spends[i] = t
    <2>1. i \in DOMAIN r.spends BY <1>5, <1>6 DEF Inputs
    <2>2. r.spends[i] = m.spends[i] BY <1>2, <1>3, <2>1
    <2> QED BY <2>2 DEF PoolGood
  <1>8. PoolGood(r)
    <2>1. \A t \in all \ gone :
             /\ r.entries[t].anc \subseteq all \ gone /\ t \notin r.entries[t].anc
             /\ r.entries[t].desc \subseteq all \ gone /\ t \notin r.entries[t].desc
      BY <1>4 DEF PoolGood
    <2> QED BY <1>3, <1>4, <1>5, <1>6, <1>7, <2>1 DEF PoolGood
  <1>9. ASSUME PoolSmall(m) PROVE PoolSmall(r)
    <2>1. ASSUME NEW t \in all \ gone PROVE WithinLimits(t, r.entries[t].anc, r.entries[t].desc)
      <3>1. t \in Txs /\ m.entries[t].anc \in SUBSET Txs /\ m.entries[t].desc \in SUBSET Txs
        BY <1>5 DEF PoolGood
      <3>2. WithinLimits(t, m.entries[t].anc, m.entries[t].desc) BY <1>9 DEF PoolSmall
      <3>3. /\ r.entries[t].anc \in SUBSET m.entries[t].anc
            /\ r.entries[t].desc \in SUBSET m.entries[t].desc
        BY <1>4
      <3> QED BY <3>1, <3>2, <3>3, FewerWithin
    <2> QED BY <1>3, <2>1 DEF PoolSmall
  <1> QED BY <1>1, <1>3, <1>4, <1>8, <1>9

\* The candidate fits, and so does every one of its ancestors with it.
Fits(m, t, anc) ==
    /\ Cardinality(anc) + 1 <= MaxAncestors
    /\ Size[anc] + VBytes(t) <= MaxAncestorSize
    /\ \A a \in anc :
          /\ Cardinality(m.entries[a].desc) + 2 <= MaxDescendants
          /\ VBytes(a) + Size[m.entries[a].desc] + VBytes(t) <= MaxDescendantSize

\* The insertion of a transaction with no conflict left keeps them so too, if
\* it was found to fit together with its ancestors.
LEMMA InsertKeeps ==
  ASSUME NEW m, PoolGood(m), NEW t \in Txs, t \notin DOMAIN m.entries, Flaw[t] = "none",
         NEW anc \in SUBSET DOMAIN m.entries, Ins[t] \cap DOMAIN m.spends = {}, now \in Nat
  PROVE  LET r == Insert(m, t, anc)
         IN  /\ PoolGood(r)
             /\ DOMAIN r.entries = DOMAIN m.entries \cup {t}
             /\ PoolSmall(m) /\ Fits(m, t, anc) => PoolSmall(r)
  <1> DEFINE old == DOMAIN m.entries
             new == old \cup {t}
             grown(u) == [m.entries[u] EXCEPT !.desc = @ \cup {t}]
  <1>1. PICK r : r = Insert(m, t, anc) OBVIOUS
  <1>2. /\ r.entries = [u \in new |->
                           IF u = t THEN [anc |-> anc, desc |-> {}, arrival |-> now]
                           ELSE IF u \in anc THEN grown(u) ELSE m.entries[u]]
        /\ r.spends = [i \in DOMAIN m.spends \cup Ins[t] |-> IF i \in Ins[t] THEN t ELSE m.spends[i]]
    BY <1>1 DEF Insert
  <1>3. DOMAIN r.entries = new /\ DOMAIN r.spends = DOMAIN m.spends \cup Ins[t] BY <1>2
  <1>4. old \in SUBSET Txs /\ new \in SUBSET Txs BY DEF PoolGood
  <1>5. r.entries[t] \in Entry /\ r.entries[t].anc = anc /\ r.entries[t].desc = {}
    <2>1. r.entries[t] = [anc |-> anc, desc |-> {}, arrival |-> now] BY <1>2
    <2>2. anc \in SUBSET Txs /\ {} \in SUBSET Txs BY <1>4
    <2> QED BY <2>1, <2>2 DEF Entry
  <1>6. ASSUME NEW u \in old
        PROVE  /\ u # t /\ m.entries[u] \in Entry /\ r.entries[u] \in Entry
               /\ r.entries[u].anc = m.entries[u].anc
               /\ r.entries[u].desc = IF u \in anc THEN m.entries[u].desc \cup {t}
                                      ELSE m.entries[u].desc
    <2>1. m.entries[u] \in Entry BY DEF PoolGood
    <2>2. u # t OBVIOUS
    <2>3. r.entries[u] = IF u \in anc THEN grown(u) ELSE m.entries[u] BY <1>2, <2>2
    <2>4. grown(u) \in Entry /\ grown(u).anc = m.entries[u].anc
          /\ grown(u).desc = m.entries[u].desc \cup {t}
      BY <2>1 DEF Entry
    <2> QED BY <2>1, <2>2, <2>3, <2>4
  <1>7. DOMAIN r.spends = Inputs[new]
    <2>1. \A ts \in SUBSET Txs : \A i : i \in Inputs[ts] <=> \E u \in ts : i \in Ins[u]
      BY DEF Inputs
    <2>2. DOMAIN m.spends = Inputs[old] BY DEF PoolGood
    <2>3. \A i : i \in Inputs[new] <=> i \in Inputs[old] \/ i \in Ins[t] BY <1>4, <2>1
    <2> QED BY <1>3, <2>2, <2>3
  <1>8. ASSUME NEW u \in new, NEW i \in Ins[u] PROVE r.spends[i] = u
    <2>1. CASE u = t BY <1>2, <2>1
    <2>2. CASE u \in old
      <3>1. i \in Inputs[old] BY <1>4, <2>2 DEF Inputs
      <3>2. i \in DOMAIN m.spends BY <3>1 DEF PoolGood
      <3>3. r.spends[i] = m.spends[i] BY <1>2, <3>2
      <3> QED BY <2>2, <3>3 DEF PoolGood
    <2> QED BY <2>1, <2>2
  <1>9. PoolGood(r)
    <2>1. \A u \in new :
             /\ r.entries[u] \in Entry
             /\ r.entries[u].anc \subseteq new /\ u \notin r.entries[u].anc
             /\ r.entries[u].desc \subseteq new /\ u \notin r.entries[u].desc
      <3>1. ASSUME NEW u \in old
            PROVE  /\ r.entries[u].anc \subseteq new /\ u \notin r.entries[u].anc
                   /\ r.entries[u].desc \subseteq new /\ u \notin r.entries[u].desc
        <4>1. /\ m.entries[u].anc \subseteq old /\ u \notin m.entries[u].anc
              /\ m.entries[u].desc \subseteq old /\ u \notin m.entries[u].desc
          BY DEF PoolGood
        <4> QED BY <1>6, <4>1
      <3>2. /\ r.entries[t].anc \subseteq new /\ t \notin r.entries[t].anc
            /\ r.entries[t].desc \subseteq new /\ t \notin r.entries[t].desc
        BY <1>5
      <3> QED BY <1>5, <1>6, <3>1, <3>2
    <2> QED BY <1>3, <1>4, <1>7, <1>8, <2>1 DEF PoolGood
  <1>10. ASSUME PoolSmall(m), Fits(m, t, anc) PROVE PoolSmall(r)
    <2>1. ASSUME NEW u \in old PROVE WithinLimits(u, r.entries[u].anc, r.entries[u].desc)
      <3>1. WithinLimits(u, m.entries[u].anc, m.entries[u].desc) BY <1>10 DEF PoolSmall
      <3>2. CASE u \notin anc BY <1>6, <3>1, <3>2
      <3>3. CASE u \in anc
        <4> DEFINE d == m.entries[u].desc
        <4>1. d \in SUBSET Txs /\ t \notin d /\ d \cup {t} \in SUBSET Txs /\ u \in Txs
          BY <1>4 DEF PoolGood
        <4>2. Cardinality(d) + 2 <= MaxDescendants /\ VBytes(u) + Size[d] + VBytes(t) <= MaxDescendantSize
          BY <1>10, <3>3 DEF Fits
        <4>3. IsFiniteSet(d) BY <4>1, MempoolAssumption, FS_Subset
        <4> HIDE DEF d
        <4>4. Cardinality(d \cup {t}) = Cardinality(d) + 1 /\ Cardinality(d) \in Nat
          BY <4>1, <4>3, FS_AddElement, FS_CardinalityType
        <4>5. Size[d \cup {t}] = VBytes(t) + Size[d]
          <5>1. (d \cup {t}) \ {t} = d BY <4>1
          <5> QED BY <4>1, <5>1, SizeFacts
        <4>6. VBytes(t) \in Nat /\ VBytes(u) \in Nat /\ Size[d] \in Nat
          BY <4>1, VBytesPositive, SizeFacts
        <4>7. MaxDescendants \in Nat /\ MaxDescendantSize \in Nat BY MempoolAssumption
        <4>8. PICK c, s, vt, vu : c = Cardinality(d) /\ s = Size[d] /\ vt = VBytes(t) /\ vu = VBytes(u)
          OBVIOUS
        <4>9. (c + 1) + 1 <= MaxDescendants /\ (vt + s) + vu <= MaxDescendantSize
          BY <4>2, <4>4, <4>6, <4>7, <4>8
        <4>10. r.entries[u].anc = m.entries[u].anc /\ r.entries[u].desc = d \cup {t}
          BY <1>6, <3>3 DEF d
        <4> QED BY <3>1, <4>4, <4>5, <4>8, <4>9, <4>10 DEF WithinLimits
      <3> QED BY <3>2, <3>3
    <2>2. WithinLimits(t, r.entries[t].anc, r.entries[t].desc)
      <3>1. Cardinality({}) = 0 /\ Size[{}] = 0 BY FS_EmptySet, SizeFacts
      <3>2. VBytes(t) <= MaxDescendantSize /\ VBytes(t) \in Nat BY MempoolAssumption, VBytesPositive DEF VBytes
      <3>3. MaxDescendants \in Nat \ {0} BY MempoolAssumption
      <3>4. 0 + 1 <= MaxDescendants BY <3>3
      <3>5. 0 + VBytes(t) <= MaxDescendantSize BY <3>2
      <3> QED BY <1>5, <1>10, <3>1, <3>4, <3>5 DEF WithinLimits, Fits
    <2> QED BY <1>3, <2>1, <2>2 DEF PoolSmall
  <1> QED BY <1>1, <1>3, <1>9, <1>10

\* The descendants of entries are entries.
LEMMA DescendantsListed ==
  ASSUME NEW m, PoolGood(m), NEW ts \in SUBSET DOMAIN m.entries
  PROVE  WithDescendants(m, ts) \in SUBSET DOMAIN m.entries /\ ts \subseteq WithDescendants(m, ts)
  <1>1. \A t \in ts : m.entries[t].desc \subseteq DOMAIN m.entries BY DEF PoolGood
  <1> QED BY <1>1 DEF WithDescendants

\* What is evicted for a transaction are entries, and holds every spend the
\* transaction conflicts with: the index is exact.
LEMMA EvictedSpends ==
  ASSUME NEW m, PoolGood(m), NEW t \in Txs
  PROVE  /\ Conflicts(m, t) \in SUBSET DOMAIN m.entries
         /\ Evicted(m, t) \in SUBSET DOMAIN m.entries
         /\ \A i \in Ins[t] : i \in DOMAIN m.spends => i \in Inputs[Evicted(m, t)]
  <1>1. DOMAIN m.entries \in SUBSET Txs BY DEF PoolGood
  <1>2. ASSUME NEW i \in Ins[t], i \in DOMAIN m.spends
        PROVE  \E u \in DOMAIN m.entries : m.spends[i] = u /\ i \in Ins[u]
    <2>1. PICK u \in DOMAIN m.entries : i \in Ins[u] BY <1>1, <1>2 DEF PoolGood, Inputs
    <2>2. m.spends[i] = u BY <2>1 DEF PoolGood
    <2> QED BY <2>1, <2>2
  <1>3. Conflicts(m, t) \in SUBSET DOMAIN m.entries BY <1>2 DEF Conflicts
  <1>4. /\ Evicted(m, t) \in SUBSET DOMAIN m.entries
        /\ Conflicts(m, t) \subseteq Evicted(m, t)
    BY <1>3, DescendantsListed DEF Evicted
  <1>5. ASSUME NEW i \in Ins[t], i \in DOMAIN m.spends PROVE i \in Inputs[Evicted(m, t)]
    <2>1. PICK u \in DOMAIN m.entries : m.spends[i] = u /\ i \in Ins[u] BY <1>2, <1>5
    <2>2. u \in Conflicts(m, t) BY <1>5, <2>1 DEF Conflicts
    <2> QED BY <1>1, <1>4, <2>1, <2>2 DEF Inputs
  <1> QED BY <1>3, <1>4, <1>5

\* The ancestors found for a candidate are entries that are not evicted for it.
LEMMA AncestorsListed ==
  ASSUME NEW m, PoolGood(m), NEW t \in Txs, NEW gone
  PROVE  Ancestors(m, t, gone) \in SUBSET (DOMAIN m.entries \ gone)
  <1>1. \A u \in DOMAIN m.entries : m.entries[u].anc \subseteq DOMAIN m.entries BY DEF PoolGood
  <1> QED BY <1>1 DEF Ancestors

\* The pool after the conflicts are gone and the transaction has come, before it
\* is trimmed: _check_package_limits has looked at the pool that is to be.
LEMMA AdmittedGood ==
  ASSUME NEW m, PoolGood(m), PoolSmall(m), NEW t \in Txs, ~ Refusable(m, t),
         Missing(m, t) = {}, Admissible(m, t), now \in Nat
  PROVE  LET gone  == Evicted(m, t)
             added == Insert(RemoveEntries(m, gone), t, Ancestors(m, t, gone))
         IN  /\ PoolGood(added) /\ PoolSmall(added)
             /\ DOMAIN added.entries = (DOMAIN m.entries \ gone) \cup {t}
  <1>1. PICK gone : gone = Evicted(m, t) OBVIOUS
  <1>2. PICK r : r = RemoveEntries(m, gone) OBVIOUS
  <1>3. PICK anc : anc = Ancestors(m, t, gone) OBVIOUS
  <1>4. gone \in SUBSET DOMAIN m.entries BY <1>1, EvictedSpends
  <1>5. /\ PoolGood(r) /\ DOMAIN r.entries = DOMAIN m.entries \ gone /\ PoolSmall(r)
        /\ DOMAIN r.spends = DOMAIN m.spends \ Inputs[gone]
        /\ \A a \in DOMAIN r.entries : r.entries[a].desc = m.entries[a].desc \ gone
    BY <1>2, <1>4, RemoveKeeps
  <1>6. t \notin DOMAIN m.entries /\ Flaw[t] = "none" BY DEF Refusable
  <1>7. Ins[t] \cap DOMAIN r.spends = {} BY <1>1, <1>5, EvictedSpends
  <1>8. anc \in SUBSET DOMAIN r.entries BY <1>3, <1>5, AncestorsListed
  <1>9. WithinPackageLimits(m, t, anc, gone)
    <2>1. CASE Conflicts(m, t) = {}
      <3>1. gone = {} BY <1>1, <2>1 DEF Evicted, WithDescendants
      <3> QED BY <1>3, <2>1, <3>1 DEF Admissible
    <2>2. CASE Conflicts(m, t) # {} BY <1>1, <1>3, <2>2 DEF Admissible
    <2> QED BY <2>1, <2>2
  <1>10. Fits(r, t, anc)
    <2>1. \A a \in anc : r.entries[a].desc = m.entries[a].desc \ gone BY <1>5, <1>8
    <2> QED BY <1>9, <2>1 DEF WithinPackageLimits, Fits
  <1>11. t \notin DOMAIN r.entries BY <1>5, <1>6
  <1>12. LET added == Insert(r, t, anc)
         IN  /\ PoolGood(added) /\ PoolSmall(added)
             /\ DOMAIN added.entries = DOMAIN r.entries \cup {t}
    BY <1>5, <1>6, <1>7, <1>8, <1>10, <1>11, InsertKeeps
  <1> QED BY <1>1, <1>2, <1>3, <1>5, <1>12

\* The pool after trimming is sound, and within its size.
LEMMA TrimmedGood ==
  ASSUME NEW m, PoolGood(m), PoolSmall(m)
  PROVE  LET r == RemoveEntries(m, UNION ToSet(Trimmed(m)))
         IN  /\ PoolGood(r) /\ PoolSmall(r) /\ Size[DOMAIN r.entries] <= MaxSize
             /\ DOMAIN r.entries \subseteq DOMAIN m.entries
  <1>1. PICK v : v = Trimmed(m) OBVIOUS
  <1>2. DOMAIN m.entries \in SUBSET Txs BY DEF PoolGood
  <1>3. TrimsTo(m, v, DOMAIN m.entries) BY <1>1, <1>2, Trims
  <1>4. \A t : t \in UNION ToSet(v) <=> \E k \in DOMAIN v : t \in v[k] BY DEF ToSet
  <1>5. PICK gone : gone = UNION ToSet(v) OBVIOUS
  <1>6. gone \in SUBSET DOMAIN m.entries BY <1>3, <1>4, <1>5 DEF TrimsTo
  <1>7. PICK r : r = RemoveEntries(m, gone) OBVIOUS
  <1>8. PoolGood(r) /\ PoolSmall(r) /\ DOMAIN r.entries = DOMAIN m.entries \ gone
    BY <1>6, <1>7, RemoveKeeps
  <1>9. \A t \in DOMAIN m.entries : t \in DOMAIN r.entries <=> \A k \in DOMAIN v : t \notin v[k]
    BY <1>4, <1>5, <1>8
  <1>10. Size[DOMAIN r.entries] <= MaxSize
    <2>1. DOMAIN r.entries \in SUBSET DOMAIN m.entries BY <1>8
    <2> QED BY <1>3, <1>9, <2>1 DEF TrimsTo
  <1> QED BY <1>1, <1>5, <1>7, <1>8, <1>10

-----------------------------------------------------------------------------
(* The orphan pool *)

Orphan == [tx : Txs, missing : (SUBSET (Txs \cup {Coinbase})) \ {{}}, arrival : Nat]

\* The places of the orphans to drop.
PlacesOf(os, ts) == {k \in DOMAIN os : os[k].tx \in ts}

\* The fold by which orphans are dropped keeps the others, in their order.
LEMMA DropKeeps ==
  ASSUME NEW os \in Seq(Orphan), NEW ts
  PROVE  /\ OrphanDrop(os, ts) \in Seq(Orphan)
         /\ KeptOf(OrphanDrop(os, ts), os, Len(os), PlacesOf(os, ts))
  <1> DEFINE iter == CHOOSE g : g = [s \in SUBSET DOMAIN os |->
                        IF s = {} THEN << >>
                        ELSE IF os[Max(s)].tx \in ts THEN g[s \ {Max(s)}]
                             ELSE Append(g[s \ {Max(s)}], os[Max(s)])]
             out == PlacesOf(os, ts)
  <1>1. OrphanDrop(os, ts) = iter[DOMAIN os] BY DEF OrphanDrop, FoldLeft, MapThenFoldSet
  <1>2. Len(os) \in Nat /\ DOMAIN os = 1 .. Len(os) OBVIOUS
  <1>3. ASSUME NEW s \in SUBSET DOMAIN os, s # {}
        PROVE  Max(s) \in out <=> os[Max(s)].tx \in ts
    <2>1. s \in SUBSET Nat /\ \A m \in s : m <= Len(os) BY <1>2
    <2>2. Max(s) \in s BY <1>2, <1>3, <2>1, MaxIsGreatest
    <2> QED BY <2>2 DEF PlacesOf
  <1> HIDE DEF out
  <1>4. PICK g : Sifts(g, os, out) BY SiftKeeps
  <1>5. g = [s \in SUBSET DOMAIN os |->
                        IF s = {} THEN << >>
                        ELSE IF os[Max(s)].tx \in ts THEN g[s \ {Max(s)}]
                             ELSE Append(g[s \ {Max(s)}], os[Max(s)])]
    BY <1>3, <1>4 DEF Sifts
  <1>6. iter = [s \in SUBSET DOMAIN os |->
                        IF s = {} THEN << >>
                        ELSE IF os[Max(s)].tx \in ts THEN iter[s \ {Max(s)}]
                             ELSE Append(iter[s \ {Max(s)}], os[Max(s)])]
    BY <1>5
  <1> HIDE DEF iter
  <1>7. Sifts(iter, os, out) BY <1>3, <1>6 DEF Sifts
  <1> QED BY <1>1, <1>7, SiftKeeps DEF out

\* The size of the orphan pool adds the sizes of its entries.
LEMMA OrphanSizeAdds ==
  ASSUME NEW os \in Seq(Orphan)
  PROVE  \E sum : /\ Adds(1 .. Len(os), [k \in 1 .. Len(os) |-> VBytes(os[k].tx)], sum)
                  /\ OrphanSize(os) = sum[1 .. Len(os)]
  <1> DEFINE D == 1 .. Len(os)
             w == [k \in D |-> VBytes(os[k].tx)]
             iter == CHOOSE g : g = [s \in SUBSET DOMAIN os |->
                  IF s = {} THEN 0
                  ELSE VBytes(os[CHOOSE x \in s : TRUE].tx) + g[s \ {CHOOSE x \in s : TRUE}]]
  <1>1. OrphanSize(os) = iter[DOMAIN os] BY DEF OrphanSize, MapThenSumSet, MapThenFoldSet
  <1>2. IsFiniteSet(D) /\ DOMAIN os = D
    <2>1. Len(os) \in Nat /\ DOMAIN os = D OBVIOUS
    <2> QED BY <2>1, FS_Interval
  <1>3. w \in [D -> Nat]
    <2>1. \A k \in D : os[k] \in Orphan BY <1>2
    <2>2. \A k \in D : os[k].tx \in Txs BY <2>1 DEF Orphan
    <2>3. \A k \in D : VBytes(os[k].tx) \in Nat BY <2>2, VBytesPositive
    <2> QED BY <2>3
  <1>4. \A k \in D : w[k] = VBytes(os[k].tx) OBVIOUS
  <1> HIDE DEF w, D
  <1>5. PICK sum : Adds(D, w, sum) BY <1>2, <1>3, SumExists
  <1>6. D \in SUBSET D OBVIOUS
  <1>7. PICK g : Iterates(g, D, w) BY <1>2, <1>3, <1>5, <1>6, SumIterates
  <1>8. \A s \in SUBSET D : s # {} =>
           w[CHOOSE x \in s : TRUE] = VBytes(os[CHOOSE x \in s : TRUE].tx)
    BY <1>4
  <1>9. g = [s \in SUBSET DOMAIN os |->
                  IF s = {} THEN 0
                  ELSE VBytes(os[CHOOSE x \in s : TRUE].tx) + g[s \ {CHOOSE x \in s : TRUE}]]
    BY <1>2, <1>7, <1>8 DEF Iterates
  <1>10. iter = [s \in SUBSET DOMAIN os |->
                  IF s = {} THEN 0
                  ELSE VBytes(os[CHOOSE x \in s : TRUE].tx) + iter[s \ {CHOOSE x \in s : TRUE}]]
    BY <1>9
  <1> HIDE DEF iter
  <1>11. Iterates(iter, D, w) BY <1>2, <1>8, <1>10 DEF Iterates
  <1>12. iter[D] = sum[D] BY <1>2, <1>3, <1>5, <1>6, <1>11, SumIterates
  <1> QED BY <1>1, <1>2, <1>5, <1>12 DEF w, D

\* No transaction is held twice.
Distinct(os) == \A i, j \in DOMAIN os : i # j => os[i].tx # os[j].tx

\* Dropping orphans breaks no limit and adds nothing.
LEMMA DropFacts ==
  ASSUME NEW os \in Seq(Orphan), NEW ts
  PROVE  LET r == OrphanDrop(os, ts)
         IN  /\ r \in Seq(Orphan)
             /\ Held(r) \subseteq Held(os) \ ts
             /\ \A i \in DOMAIN r : \E j \in DOMAIN os : r[i] = os[j]
             /\ Distinct(os) => Distinct(r)
             /\ Bounded(os) => Bounded(r)
  <1>1. PICK r : r = OrphanDrop(os, ts) OBVIOUS
  <1>2. r \in Seq(Orphan) /\ KeptOf(r, os, Len(os), PlacesOf(os, ts)) BY <1>1, DropKeeps
  <1>3. PICK n \in Nat : n = Len(os) OBVIOUS
  <1>4. PICK l \in Nat : l = Len(r) BY <1>2
  <1>5. PICK f \in [1 .. l -> 1 .. n] :
           /\ \A i, j \in 1 .. l : i < j => f[i] < f[j]
           /\ \A i \in 1 .. l : r[i] = os[f[i]] /\ f[i] \notin PlacesOf(os, ts)
    BY <1>2, <1>3, <1>4 DEF KeptOf
  <1>6. DOMAIN r = 1 .. l /\ DOMAIN os = 1 .. n BY <1>2, <1>3, <1>4
  <1>7. ASSUME NEW i \in 1 .. l, NEW j \in 1 .. l, f[i] = f[j] PROVE i = j
    <2>1. i \in Int /\ j \in Int /\ f[i] \in Int /\ f[j] \in Int BY <1>5
    <2>2. ~ (f[i] < f[j]) /\ ~ (f[j] < f[i]) BY <1>7, <2>1
    <2>3. ~ (i < j) /\ ~ (j < i) BY <1>5, <2>2
    <2> QED BY <2>1, <2>3
  <1>8. \A i \in 1 .. l : r[i].tx \notin ts BY <1>5, <1>6 DEF PlacesOf
  <1>9. Held(r) \subseteq Held(os) \ ts BY <1>5, <1>6, <1>8 DEF Held
  <1>10. \A i \in DOMAIN r : \E j \in DOMAIN os : r[i] = os[j] BY <1>5, <1>6
  <1>11. Distinct(os) => Distinct(r) BY <1>5, <1>6, <1>7 DEF Distinct
  <1>12. ASSUME Bounded(os) PROVE Bounded(r)
    <2>1. PICK w : w = [k \in 1 .. Len(os) |-> VBytes(os[k].tx)] OBVIOUS
    <2>2. PICK u : u = [k \in 1 .. Len(r) |-> VBytes(r[k].tx)] OBVIOUS
    <2>3. PICK sum : Adds(1 .. Len(os), w, sum) /\ OrphanSize(os) = sum[1 .. Len(os)]
      BY <2>1, OrphanSizeAdds
    <2>4. PICK part : Adds(1 .. Len(r), u, part) /\ OrphanSize(r) = part[1 .. Len(r)]
      BY <1>2, <2>2, OrphanSizeAdds
    <2>5. w \in [1 .. Len(os) -> Nat] /\ u \in [1 .. Len(r) -> Nat]
      <3>1. \A k \in 1 .. Len(os) : os[k] \in Orphan OBVIOUS
      <3>2. \A k \in 1 .. Len(r) : r[k] \in Orphan BY <1>2
      <3>3. /\ \A k \in 1 .. Len(os) : VBytes(os[k].tx) \in Nat
            /\ \A k \in 1 .. Len(r) : VBytes(r[k].tx) \in Nat
        BY <3>1, <3>2, VBytesPositive DEF Orphan
      <3> QED BY <2>1, <2>2, <3>3
    <2>6. \A i \in 1 .. Len(r), j \in 1 .. Len(os) : r[i] = os[j] => u[i] = w[j]
      BY <2>1, <2>2
    <2>7. Len(r) <= Len(os) /\ part[1 .. Len(r)] <= sum[1 .. Len(os)]
      <3>1. PICK out : KeptOf(r, os, Len(os), out) BY <1>2
      <3> QED BY <1>2, <2>3, <2>4, <2>5, <2>6, <3>1, KeptWeighs
    <2>8. part[1 .. Len(r)] \in Nat /\ sum[1 .. Len(os)] \in Nat
      <3>1. 1 .. Len(r) \in SUBSET (1 .. Len(r)) /\ 1 .. Len(os) \in SUBSET (1 .. Len(os)) OBVIOUS
      <3> QED BY <2>3, <2>4, <3>1 DEF Adds
    <2>9. MaxOrphans \in Nat /\ MaxOrphanSize \in Nat BY MempoolAssumption
    <2> QED BY <1>3, <1>4, <1>12, <2>3, <2>4, <2>7, <2>8, <2>9 DEF Bounded
  <1> QED BY <1>1, <1>2, <1>9, <1>10, <1>11, <1>12

\* The size of a pool of one.
LEMMA OneOrphan ==
  ASSUME NEW o \in Orphan
  PROVE  OrphanSize(<<o>>) = VBytes(o.tx)
  <1>1. <<o>> \in Seq(Orphan) /\ Len(<<o>>) = 1 /\ <<o>>[1] = o OBVIOUS
  <1>2. PICK os \in Seq(Orphan) : os = <<o>> BY <1>1
  <1>3. PICK w : w = [k \in 1 .. Len(os) |-> VBytes(os[k].tx)] OBVIOUS
  <1>4. PICK sum : Adds(1 .. Len(os), w, sum) /\ OrphanSize(os) = sum[1 .. Len(os)]
    BY <1>3, OrphanSizeAdds
  <1>5. 1 .. Len(os) = {1} /\ os[1] = o BY <1>1, <1>2
  <1>6. w[1] = VBytes(o.tx) BY <1>3, <1>5
  <1>7. sum[{1}] = w[1] + sum[{1} \ {1}] /\ sum[{}] = 0 BY <1>4, <1>5 DEF Adds
  <1>8. {1} \ {1} = {} OBVIOUS
  <1>9. VBytes(o.tx) \in Nat BY VBytesPositive DEF Orphan
  <1>10. sum[{1}] = VBytes(o.tx) + 0 BY <1>6, <1>7, <1>8
  <1>11. \A v \in Nat : v + 0 = v OBVIOUS
  <1>12. sum[{1}] = VBytes(o.tx) BY <1>9, <1>10, <1>11
  <1> QED BY <1>2, <1>4, <1>5, <1>12

\* OrphanTransactionPool.add keeps both limits by letting the oldest go: in the
\* end the new one alone, which fits.
LEMMA AddFacts ==
  ASSUME NEW os \in Seq(Orphan), NEW t \in Txs, now \in Nat,
         NEW missing \in SUBSET (Txs \cup {Coinbase}), missing # {},
         Bounded(os), Distinct(os)
  PROVE  LET r == OrphanAdd(os, t, missing)
         IN  /\ r \in Seq(Orphan)
             /\ Held(r) \subseteq Held(os) \cup {t}
             /\ \A i \in DOMAIN r : \/ r[i] = [tx |-> t, missing |-> missing, arrival |-> now]
                                    \/ \E j \in DOMAIN os : r[i] = os[j]
             /\ Distinct(r)
             /\ Bounded(r)
  <1>1. CASE t \in Held(os) \/ VBytes(t) > MaxOrphanSize
    <2>1. OrphanAdd(os, t, missing) = os BY <1>1 DEF OrphanAdd
    <2> QED BY <2>1
  <1>2. CASE ~ (t \in Held(os) \/ VBytes(t) > MaxOrphanSize)
    <2>1. PICK o : o = [tx |-> t, missing |-> missing, arrival |-> now] OBVIOUS
    <2>2. o \in Orphan /\ o.tx = t /\ o.arrival = now
      <3>1. o.tx = t /\ o.arrival = now BY <2>1
      <3> QED BY <2>1, <3>1 DEF Orphan
    <2>3. PICK all \in Seq(Orphan) : all = Append(os, o)
      <3>1. o \in Orphan BY <2>2
      <3>2. Append(os, o) \in Seq(Orphan) BY <3>1
      <3> QED BY <3>2
    <2>4. PICK n \in Nat : n = Len(os) OBVIOUS
    <2>5. /\ Len(all) = n + 1 /\ all[n + 1] = o /\ \A k \in 1 .. n : all[k] = os[k]
          /\ DOMAIN os = 1 .. n /\ DOMAIN all = 1 .. n + 1
      BY <2>2, <2>3, <2>4
    <2> DEFINE Fit(k) == Bounded(SubSeq(all, k + 1, Len(all)))
               cut == CHOOSE k \in 0 .. Len(os) : Fit(k) /\ \A j \in 0 .. k - 1 : ~ Fit(j)
               r == SubSeq(all, cut + 1, Len(all))
    <2>6. OrphanAdd(os, t, missing) = r BY <1>2, <2>1, <2>3 DEF OrphanAdd
    <2>7. Fit(n)
      <3>1. PICK q : q = SubSeq(all, n + 1, n + 1) OBVIOUS
      <3>2. Len(q) = 1 /\ q[1] = o /\ q = <<o>>
        <4>1. n + 1 \in 1 .. n + 1 /\ n + 1 \in 1 .. Len(all) BY <2>5
        <4>2. q \in Seq(Orphan) /\ Len(q) = 1 BY <3>1, <4>1
        <4>3. q[1] = all[n + 1] BY <3>1, <4>1
        <4>4. q[1] = o BY <2>5, <4>3
        <4>5. <<o>> \in Seq(Orphan) /\ Len(<<o>>) = 1 /\ <<o>>[1] = o BY <2>2
        <4>6. \A i \in 1 .. 1 : i = 1 OBVIOUS
        <4> QED BY <4>2, <4>4, <4>5, <4>6, SeqEqual
      <3>3. OrphanSize(q) = VBytes(t) BY <2>2, <3>2, OneOrphan
      <3>4. VBytes(t) \in Nat /\ MaxOrphanSize \in Nat /\ MaxOrphans \in Nat \ {0}
        BY VBytesPositive, MempoolAssumption
      <3>5. VBytes(t) <= MaxOrphanSize BY <1>2, <3>4
      <3>6. Len(q) <= MaxOrphans BY <3>2, <3>4
      <3>7. Bounded(q) BY <3>3, <3>5, <3>6 DEF Bounded
      <3> QED BY <2>5, <3>1, <3>7
    <2> DEFINE K == {k \in 0 .. n : Fit(k)}
    <2>8. K \in SUBSET Nat /\ n \in K BY <2>7
    <2>9. PICK k \in K : \A j \in K : k <= j BY <2>8, LeastNatural
    <2> HIDE DEF Fit
    <2>10. k \in 0 .. n /\ Fit(k) BY <2>9
    <2>11. \A j \in 0 .. k - 1 : ~ Fit(j)
      <3>1. ASSUME NEW j \in 0 .. k - 1, Fit(j) PROVE FALSE
        <4>1. j \in 0 .. n /\ j < k /\ k \in Int /\ j \in Int BY <2>10, <3>1
        <4>2. j \in K BY <3>1, <4>1
        <4>3. k <= j BY <2>9, <4>2
        <4> QED BY <4>1, <4>3
      <3> QED BY <3>1
    <2>12. cut \in 0 .. n /\ Fit(cut) BY <2>4, <2>10, <2>11
    <2> HIDE DEF cut
    <2>13. r \in Seq(Orphan) /\ Len(r) = n + 1 - cut /\ \A i \in 1 .. n + 1 - cut : r[i] = all[cut + i]
      BY <2>5, <2>12
    <2>14. Bounded(r) BY <2>12 DEF Fit
    <2> HIDE DEF r
    <2>15. DOMAIN r = 1 .. n + 1 - cut BY <2>12, <2>13
    <2>16. ASSUME NEW i \in DOMAIN r
           PROVE  cut + i \in 1 .. n + 1 /\ r[i] = all[cut + i]
                  /\ (r[i] = o \/ (cut + i \in 1 .. n /\ r[i] = os[cut + i]))
      <3>1. i \in 1 .. n + 1 - cut /\ cut \in 0 .. n BY <2>12, <2>15
      <3>2. cut + i \in 1 .. n + 1 BY <3>1
      <3>3. cut + i = n + 1 \/ cut + i \in 1 .. n BY <3>2
      <3> QED BY <2>5, <2>13, <3>1, <3>2, <3>3
    <2>17. Held(r) \subseteq Held(os) \cup {t} BY <2>2, <2>5, <2>16 DEF Held
    <2>18. \A i \in DOMAIN r : \/ r[i] = [tx |-> t, missing |-> missing, arrival |-> now]
                              \/ \E j \in DOMAIN os : r[i] = os[j]
      BY <2>1, <2>5, <2>16
    <2>19. Distinct(all)
      <3>1. \A i \in 1 .. n : os[i].tx # t BY <1>2, <2>5 DEF Held
      <3>2. \A i \in 1 .. n + 1 : i = n + 1 \/ i \in 1 .. n OBVIOUS
      <3> QED BY <2>2, <2>5, <3>1, <3>2 DEF Distinct
    <2>20. Distinct(r)
      <3>1. ASSUME NEW i \in DOMAIN r, NEW j \in DOMAIN r, i # j PROVE r[i].tx # r[j].tx
        <4>1. cut + i # cut + j BY <2>12, <2>15, <3>1
        <4> QED BY <2>5, <2>16, <2>19, <4>1 DEF Distinct
      <3> QED BY <3>1 DEF Distinct
    <2> QED BY <2>6, <2>13, <2>14, <2>17, <2>18, <2>20
  <1> QED BY <1>1, <1>2

-----------------------------------------------------------------------------
(* The rolling fee *)

Fraction == [n : Nat, d : Nat \ {0}]

\* The decayed floor is a fraction.
LEMMA DecayedType ==
  ASSUME floor.n \in Nat, floor.d \in Nat \ {0}, now \in Nat, floorAt \in Nat, floorAt <= now
  PROVE  Decayed \in Fraction
  <1>1. now - floorAt \in Nat OBVIOUS
  <1>2. 2 ^ (now - floorAt) \in Nat \ {0} BY <1>1, PowerOfTwo
  <1>3. PICK x : x = 2 ^ (now - floorAt) OBVIOUS
  <1>4. floor.d * x \in Nat \ {0}
    <2>1. PICK d \in Nat : d = floor.d /\ d # 0 OBVIOUS
    <2>2. x \in Nat /\ x # 0 BY <1>2, <1>3
    <2>3. \A a, b \in Nat : a # 0 /\ b # 0 => a * b \in Nat /\ a * b # 0 OBVIOUS
    <2> QED BY <2>1, <2>2, <2>3
  <1>5. [n |-> floor.n, d |-> floor.d * x] \in Fraction BY <1>4 DEF Fraction
  <1>6. NoFloor \in Fraction BY DEF NoFloor, Fraction
  <1> QED BY <1>3, <1>5, <1>6 DEF Decayed

\* So is the floor that an evicted package leaves.
LEMMA HigherType ==
  ASSUME NEW p \in SUBSET Txs, p # {}, NEW old \in Fraction
  PROVE  Higher([n |-> Fees[p] + MinFee * Size[p], d |-> Size[p]], old) \in Fraction
  <1>1. Fees[p] \in Nat /\ Size[p] \in Nat /\ Size[p] > 0 BY SizeFacts
  <1>2. MinFee \in Nat BY MempoolAssumption
  <1>3. \A a, b, c \in Nat : a + b * c \in Nat OBVIOUS
  <1>4. Fees[p] + MinFee * Size[p] \in Nat BY <1>1, <1>2, <1>3
  <1>5. [n |-> Fees[p] + MinFee * Size[p], d |-> Size[p]] \in Fraction
    BY <1>1, <1>4 DEF Fraction
  <1> QED BY <1>5 DEF Higher

\* And the one all the packages of a trimming leave.
LEMMA FloorAfterType ==
  ASSUME NEW packs \in Seq(SUBSET Txs), \A k \in DOMAIN packs : packs[k] # {},
         NEW old \in Fraction
  PROVE  FloorAfter(packs, old) \in Fraction
  <1> DEFINE n == Len(packs)
             raised(r, p) == Higher([n |-> Fees[p] + MinFee * Size[p], d |-> Size[p]], r)
             next == [x \in (1 .. n) \X Fraction |-> raised(x[2], packs[x[1]])]
             stage == [k \in 0 .. n |-> Fraction]
             iter == CHOOSE g : g = [s \in SUBSET DOMAIN packs |->
                        IF s = {} THEN old ELSE raised(g[s \ {Max(s)}], packs[Max(s)])]
  <1>1. FloorAfter(packs, old) = iter[DOMAIN packs]
    BY DEF FloorAfter, FoldLeft, MapThenFoldSet
  <1>2. n \in Nat /\ DOMAIN packs = 1 .. n OBVIOUS
  <1>3. \A k \in 1 .. n : \A v \in Fraction : raised(v, packs[k]) \in Fraction
    <2>1. \A k \in 1 .. n : packs[k] \in SUBSET Txs /\ packs[k] # {} BY <1>2
    <2> QED BY <2>1, HigherType
  <1> HIDE DEF raised
  <1>4. \A k \in 1 .. n, v \in Fraction : next[<<k, v>>] = raised(v, packs[k]) OBVIOUS
  <1>5. stage \in [0 .. n -> SUBSET Fraction] /\ \A k \in 0 .. n : stage[k] = Fraction OBVIOUS
  <1>6. 0 \in 0 .. n /\ n \in 0 .. n /\ \A k \in 1 .. n : k \in 0 .. n /\ k - 1 \in 0 .. n BY <1>2
  <1> HIDE DEF next, stage, n
  <1>7. Staged(n, Fraction, old, next, stage) BY <1>3, <1>4, <1>5, <1>6 DEF Staged
  <1>8. /\ \E g \in [SUBSET (1 .. n) -> Fraction] : Folds(g, n, Fraction, old, next)
        /\ \A g : Folds(g, n, Fraction, old, next) => g[1 .. n] \in stage[n]
    BY <1>2, <1>7, FoldReaches
  <1>9. PICK g \in [SUBSET (1 .. n) -> Fraction] : Folds(g, n, Fraction, old, next) BY <1>8
  <1>10. ASSUME NEW s \in SUBSET (1 .. n), s # {} PROVE Max(s) \in 1 .. n
    <2>1. s \in SUBSET Nat /\ \A m \in s : m <= n BY <1>2
    <2>2. Max(s) \in s BY <1>2, <1>10, <2>1, MaxIsGreatest
    <2> QED BY <2>2
  <1>11. ASSUME NEW s \in SUBSET (1 .. n)
         PROVE  g[s] = IF s = {} THEN old ELSE raised(g[s \ {Max(s)}], packs[Max(s)])
    <2>1. CASE s = {} BY <1>9, <2>1 DEF Folds
    <2>2. CASE s # {}
      <3>1. s \ {Max(s)} \in SUBSET (1 .. n) /\ g[s \ {Max(s)}] \in Fraction BY <1>9
      <3>2. g[s] = next[<<Max(s), g[s \ {Max(s)}]>>] BY <1>9, <2>2, <3>1 DEF Folds
      <3> QED BY <1>4, <1>10, <2>2, <3>1, <3>2
    <2> QED BY <2>1, <2>2
  <1>12. g = [s \in SUBSET DOMAIN packs |->
                IF s = {} THEN old ELSE raised(g[s \ {Max(s)}], packs[Max(s)])]
    BY <1>2, <1>9, <1>11
  <1>13. iter = [s \in SUBSET DOMAIN packs |->
                IF s = {} THEN old ELSE raised(iter[s \ {Max(s)}], packs[Max(s)])]
    BY <1>12
  <1> HIDE DEF iter
  <1>14. ASSUME NEW s \in SUBSET (1 .. n), s # {}, iter[s \ {Max(s)}] \in Fraction
         PROVE  iter[s] = next[<<Max(s), iter[s \ {Max(s)}]>>]
    <2>1. iter[s] = raised(iter[s \ {Max(s)}], packs[Max(s)]) BY <1>2, <1>13, <1>14
    <2> QED BY <1>4, <1>10, <1>14, <2>1
  <1>15. iter[{}] = old
    <2>1. {} \in SUBSET DOMAIN packs OBVIOUS
    <2> QED BY <1>13, <2>1
  <1>16. Folds(iter, n, Fraction, old, next) BY <1>14, <1>15 DEF Folds
  <1>17. iter[1 .. n] \in stage[n] BY <1>8, <1>16
  <1> QED BY <1>1, <1>2, <1>5, <1>6, <1>17


-----------------------------------------------------------------------------
(* The inductive invariant *)

PoolOK(m) == PoolGood(m) /\ PoolSmall(m) /\ Size[DOMAIN m.entries] <= MaxSize

OrphansOK(os) ==
    /\ os \in Seq(Orphan)
    /\ \A k \in DOMAIN os : os[k].arrival <= now
    /\ Bounded(os) /\ Distinct(os)

FloorOK ==
    /\ floor.n \in Nat /\ floor.d \in Nat \ {0}
    /\ floorAt \in Nat /\ floorAt <= now

IInv ==
    /\ PoolOK(pool)
    /\ OrphansOK(orphans) /\ Held(orphans) \cap Entries = {}
    /\ FloorOK
    /\ forks \in 0 .. MaxForks /\ confirmed \in SUBSET Txs /\ now \in 0 .. MaxClock
    /\ confirming \in Seq(Txs) /\ parents \in Seq(Txs) /\ retrying \in Seq(Txs)

\* Removals keep the pool sound.
LEMMA RemovalOK ==
  ASSUME NEW m, PoolOK(m), NEW gone \in SUBSET DOMAIN m.entries
  PROVE  LET r == RemoveEntries(m, gone)
         IN  PoolOK(r) /\ DOMAIN r.entries = DOMAIN m.entries \ gone
  <1>1. PICK r : r = RemoveEntries(m, gone) OBVIOUS
  <1>2. PoolGood(r) /\ PoolSmall(r) /\ DOMAIN r.entries = DOMAIN m.entries \ gone
    BY <1>1, RemoveKeeps DEF PoolOK
  <1>3. DOMAIN m.entries \in SUBSET Txs BY DEF PoolOK, PoolGood
  <1>4. DOMAIN r.entries \in SUBSET DOMAIN m.entries BY <1>2
  <1>5. Size[DOMAIN r.entries] <= Size[DOMAIN m.entries]
        /\ Size[DOMAIN m.entries] \in Nat
    BY <1>3, <1>4, SizeFacts
  <1>6. Size[DOMAIN r.entries] \in Nat
    <2>1. DOMAIN r.entries \in SUBSET Txs BY <1>3, <1>4
    <2> QED BY <2>1, SizeFacts
  <1>7. MaxSize \in Nat BY MempoolAssumption
  <1>8. Size[DOMAIN r.entries] <= MaxSize BY <1>5, <1>6, <1>7 DEF PoolOK
  <1> QED BY <1>1, <1>2, <1>8 DEF PoolOK

\* So does the eviction of expired entries.
LEMMA UnexpiredOK ==
  ASSUME PoolOK(pool)
  PROVE  PoolOK(Unexpired) /\ DOMAIN Unexpired.entries \subseteq Entries
  <1>1. Expired \in SUBSET DOMAIN pool.entries BY DEF Expired, Entries
  <1>2. WithDescendants(pool, Expired) \in SUBSET DOMAIN pool.entries
    BY <1>1, DescendantsListed DEF PoolOK
  <1> QED BY <1>2, RemovalOK DEF Unexpired, Entries

\* Dropping orphans keeps the orphan pool sound.
LEMMA DropOK ==
  ASSUME NEW os, OrphansOK(os), NEW ts
  PROVE  OrphansOK(OrphanDrop(os, ts)) /\ Held(OrphanDrop(os, ts)) \subseteq Held(os) \ ts
  BY DropFacts DEF OrphansOK

\* So does the eviction of expired orphans.
LEMMA DueOK ==
  ASSUME OrphansOK(orphans)
  PROVE  OrphansOK(OrphansDue) /\ Held(OrphansDue) \subseteq Held(orphans)
  <1>1. PICK ts : OrphansDue = OrphanDrop(orphans, ts) BY DEF OrphansDue
  <1> QED BY <1>1, DropOK

\* So does a new orphan.
LEMMA AddOK ==
  ASSUME NEW os, OrphansOK(os), NEW t \in Txs, now \in Nat,
         NEW missing \in SUBSET (Txs \cup {Coinbase}), missing # {}
  PROVE  OrphansOK(OrphanAdd(os, t, missing))
         /\ Held(OrphanAdd(os, t, missing)) \subseteq Held(os) \cup {t}
  <1>1. PICK r : r = OrphanAdd(os, t, missing) OBVIOUS
  <1>2. /\ r \in Seq(Orphan) /\ Held(r) \subseteq Held(os) \cup {t}
        /\ \A i \in DOMAIN r : \/ r[i] = [tx |-> t, missing |-> missing, arrival |-> now]
                               \/ \E j \in DOMAIN os : r[i] = os[j]
        /\ Distinct(r) /\ Bounded(r)
    BY <1>1, AddFacts DEF OrphansOK
  <1>3. \A i \in DOMAIN r : r[i].arrival <= now BY <1>2 DEF OrphansOK
  <1> QED BY <1>1, <1>2, <1>3 DEF OrphansOK

\* What is left of the pool, the orphans and the fee after a call or a part of it.
Sound(m, os, fl, at) ==
    /\ PoolOK(m)
    /\ OrphansOK(os) /\ Held(os) \cap DOMAIN m.entries = {}
    /\ fl.n \in Nat /\ fl.d \in Nat \ {0} /\ at \in Nat /\ at <= now

\* accept_tx on each of its paths, the one that ends in KeyError included, leaves
\* the pool, the orphans and the floor sound.
LEMMA AcceptSound ==
  ASSUME IInv, NEW t \in Txs, NEW left \in Seq(Txs), AcceptTx(t, left)
  PROVE  Sound(pool', orphans', floor', floorAt')
  <1> USE DEF IInv
  <1>1. now \in Nat BY MempoolAssumption
  <1>2. CASE ExpireAndRaise
    <2>1. PICK done \in SUBSET Expired : pool' = RemoveEntries(pool, WithDescendants(pool, done))
      BY <1>2 DEF ExpireAndRaise
    <2>2. done \in SUBSET DOMAIN pool.entries BY <2>1 DEF Expired, Entries
    <2>3. WithDescendants(pool, done) \in SUBSET DOMAIN pool.entries
      BY <2>2, DescendantsListed DEF PoolOK
    <2>4. PoolOK(pool') /\ DOMAIN pool'.entries \subseteq DOMAIN pool.entries
      BY <2>1, <2>3, RemovalOK
    <2>5. orphans' = orphans /\ floor' = floor /\ floorAt' = floorAt BY <1>2 DEF ExpireAndRaise
    <2> QED BY <2>4, <2>5 DEF Sound, FloorOK, Entries
  <1>3. ASSUME NEW p, p = Unexpired,
               Refuse(p, t, left) \/ KeepOrphan(p, t, left) \/ RefuseByPolicy(p, t, left)
               \/ Admit(p, t, left)
        PROVE  Sound(pool', orphans', floor', floorAt')
    <2>1. PoolOK(p) /\ DOMAIN p.entries \subseteq DOMAIN pool.entries
      BY <1>3, UnexpiredOK DEF Entries
    <2>2. OrphansOK(OrphansDue) /\ Held(OrphansDue) \subseteq Held(orphans) BY DueOK
    <2>3. Held(OrphansDue) \cap DOMAIN p.entries = {} BY <2>1, <2>2 DEF Entries
    <2>4. Decayed \in Fraction BY <1>1, DecayedType DEF FloorOK
    <2>5. CASE Refuse(p, t, left)
      <3>1. pool' = p /\ orphans' = OrphansDue /\ floor' = floor /\ floorAt' = floorAt
        BY <2>5 DEF Refuse
      <3> QED BY <2>1, <2>2, <2>3, <3>1 DEF Sound, FloorOK
    <2>6. CASE KeepOrphan(p, t, left)
      <3>1. /\ pool' = p /\ floor' = floor /\ floorAt' = floorAt
            /\ orphans' = OrphanAdd(OrphansDue, t, {i.tx : i \in Missing(p, t)})
            /\ ~ Refusable(p, t) /\ Missing(p, t) # {}
        BY <2>6 DEF KeepOrphan
      <3>2. t \notin DOMAIN p.entries BY <3>1 DEF Refusable
      <3>3. PICK missing : missing = {i.tx : i \in Missing(p, t)} OBVIOUS
      <3>4. missing \in SUBSET (Txs \cup {Coinbase}) /\ missing # {}
        <4>1. Ins[t] \subseteq Outpoints BY MempoolAssumption
        <4>2. Missing(p, t) \subseteq Outpoints BY <4>1 DEF Missing
        <4>3. \A i \in Missing(p, t) : i.tx \in Txs \cup {Coinbase} BY <4>2 DEF Outpoints
        <4> QED BY <3>1, <3>3, <4>3
      <3>5. OrphansOK(orphans') /\ Held(orphans') \subseteq Held(OrphansDue) \cup {t}
        BY <1>1, <2>2, <3>1, <3>3, <3>4, AddOK
      <3> QED BY <2>1, <2>3, <3>1, <3>2, <3>5 DEF Sound, FloorOK
    <2>7. CASE RefuseByPolicy(p, t, left)
      <3>1. /\ pool' = p /\ orphans' = OrphansDue /\ floor' = Decayed
            /\ floorAt' = floorAt \/ floorAt' = now
        BY <2>7 DEF RefuseByPolicy, ReadFloor
      <3>2. floorAt' \in Nat /\ floorAt' <= now BY <1>1, <3>1 DEF FloorOK
      <3> QED BY <2>1, <2>2, <2>3, <2>4, <3>1, <3>2 DEF Sound, Fraction
    <2>8. CASE Admit(p, t, left)
      <3>1. PICK added : added = Insert(RemoveEntries(p, Evicted(p, t)), t,
                                        Ancestors(p, t, Evicted(p, t)))
        OBVIOUS
      <3>2. PICK packs : packs = Trimmed(added) OBVIOUS
      <3>3. /\ ~ Refusable(p, t) /\ Missing(p, t) = {} /\ Admissible(p, t)
            /\ pool' = RemoveEntries(added, UNION ToSet(packs))
            /\ floor' = FloorAfter(packs, Decayed)
            /\ floorAt' = floorAt \/ floorAt' = now
            /\ IF t \in Entries' THEN orphans' = OrphanDrop(OrphansDue, {t})
               ELSE orphans' = OrphansDue
        BY <2>8, <3>1, <3>2 DEF Admit
      <3>4. /\ PoolGood(added) /\ PoolSmall(added)
            /\ DOMAIN added.entries = (DOMAIN p.entries \ Evicted(p, t)) \cup {t}
        BY <1>1, <2>1, <3>1, <3>3, AdmittedGood DEF PoolOK
      <3>5. PoolOK(pool') /\ DOMAIN pool'.entries \subseteq DOMAIN p.entries \cup {t}
        BY <3>2, <3>3, <3>4, TrimmedGood DEF PoolOK
      <3>6. floor' \in Fraction
        <4>1. DOMAIN added.entries \in SUBSET Txs BY <3>4 DEF PoolGood
        <4>2. packs \in Seq(SUBSET Txs) /\ \A k \in DOMAIN packs : packs[k] # {}
          BY <3>2, <4>1, Trims DEF TrimsTo
        <4> QED BY <2>4, <3>3, <4>2, FloorAfterType
      <3>7. floorAt' \in Nat /\ floorAt' <= now BY <1>1, <3>3 DEF FloorOK
      <3>8. OrphansOK(orphans') /\ Held(orphans') \cap DOMAIN pool'.entries = {}
        <4>1. CASE t \in Entries'
          <5>1. orphans' = OrphanDrop(OrphansDue, {t}) BY <3>3, <4>1
          <5>2. OrphansOK(orphans') /\ Held(orphans') \subseteq Held(OrphansDue) \ {t}
            BY <2>2, <5>1, DropOK
          <5> QED BY <2>3, <3>5, <5>2
        <4>2. CASE t \notin Entries'
          <5>1. orphans' = OrphansDue BY <3>3, <4>2
          <5>2. t \notin DOMAIN pool'.entries BY <4>2 DEF Entries
          <5> QED BY <2>2, <2>3, <3>5, <5>1, <5>2
        <4> QED BY <4>1, <4>2
      <3> QED BY <3>5, <3>6, <3>7, <3>8 DEF Sound, Fraction
    <2> QED BY <1>3, <2>5, <2>6, <2>7, <2>8
  <1> QED BY <1>2, <1>3 DEF AcceptTx


\* accept_tx keeps the invariant.
LEMMA AcceptInv ==
  ASSUME IInv, NEW t \in Txs, NEW left \in Seq(Txs), AcceptTx(t, left)
  PROVE  IInv'
  <1>1. Sound(pool', orphans', floor', floorAt') BY AcceptSound
  <1>2. /\ forks' = forks /\ confirmed' = confirmed /\ now' = now
        /\ confirming' \in Seq(Txs) /\ parents' \in Seq(Txs) /\ retrying' \in Seq(Txs)
    <2>1. CASE ExpireAndRaise
      <3>1. << >> \in Seq(Txs) OBVIOUS
      <3> QED BY <2>1, <3>1 DEF ExpireAndRaise
    <2>2. ASSUME NEW p,
                 Refuse(p, t, left) \/ KeepOrphan(p, t, left) \/ RefuseByPolicy(p, t, left)
                 \/ Admit(p, t, left)
          PROVE  /\ forks' = forks /\ confirmed' = confirmed /\ now' = now
                 /\ confirming' = confirming /\ retrying' = left
                 /\ parents' = parents \/ parents' = Append(parents, t)
      BY <2>2 DEF Refuse, KeepOrphan, RefuseByPolicy, Admit, Return
    <2>3. Append(parents, t) \in Seq(Txs) BY DEF IInv
    <2> QED BY <2>1, <2>2, <2>3 DEF AcceptTx, IInv
  <1>3. Held(orphans') \cap Entries' = {} BY <1>1 DEF Sound, Entries
  <1> QED BY <1>1, <1>2, <1>3 DEF IInv, Sound, FloorOK, OrphansOK

\* An order of a set of transactions is a sequence of transactions.
LEMMA OrdersAreSequences ==
  ASSUME NEW ts \in SUBSET Txs, NEW order \in SetToSeqs(ts)
  PROVE  order \in Seq(Txs)
  <1>1. IsFiniteSet(ts) BY MempoolAssumption, FS_Subset
  <1>2. PICK n \in Nat : n = Cardinality(ts) BY <1>1, FS_CardinalityType
  <1>3. order \in [1 .. n -> ts] BY <1>2 DEF SetToSeqs
  <1> QED BY <1>3

\* The empty pool satisfies the invariant.
LEMMA InitInv == Init => IInv
  <1> SUFFICES ASSUME Init PROVE IInv OBVIOUS
  <1> USE DEF Init
  <1>1. DOMAIN pool.entries = {} /\ DOMAIN pool.spends = {} OBVIOUS
  <1>2. Inputs[{}] = {} BY DEF Inputs
  <1>3. PoolGood(pool) /\ PoolSmall(pool) BY <1>1, <1>2 DEF PoolGood, PoolSmall
  <1>4. Size[DOMAIN pool.entries] <= MaxSize
    <2>1. Size[{}] = 0 /\ MaxSize \in Nat BY SizeFacts, MempoolAssumption
    <2> QED BY <1>1, <2>1
  <1>5. orphans \in Seq(Orphan) /\ DOMAIN orphans = {} /\ Len(orphans) = 0 OBVIOUS
  <1>6. OrphanSize(orphans) = 0
    <2>1. PICK os \in Seq(Orphan) : os = << >> BY <1>5
    <2>2. PICK w : w = [k \in 1 .. Len(os) |-> VBytes(os[k].tx)] OBVIOUS
    <2>3. PICK sum : Adds(1 .. Len(os), w, sum) /\ OrphanSize(os) = sum[1 .. Len(os)]
      BY <2>2, OrphanSizeAdds
    <2>4. 1 .. Len(os) = {} BY <2>1
    <2> QED BY <2>1, <2>3, <2>4 DEF Adds
  <1>7. 0 <= MaxOrphans /\ 0 <= MaxOrphanSize /\ 0 \in 0 .. MaxForks /\ 0 \in 0 .. MaxClock
    BY MempoolAssumption
  <1>8. OrphansOK(orphans) BY <1>5, <1>6, <1>7 DEF OrphansOK, Bounded, Distinct
  <1>9. Held(orphans) = {} BY <1>5 DEF Held
  <1>10. FloorOK BY DEF FloorOK, NoFloor
  <1> QED BY <1>3, <1>4, <1>7, <1>8, <1>9, <1>10 DEF IInv, PoolOK

\* _reconsider_orphans keeps the invariant when it pops the orphans of a parent.
LEMMA PopInv == IInv /\ PopDependents => IInv'
  <1> SUFFICES ASSUME IInv, PopDependents PROVE IInv' OBVIOUS
  <1> USE DEF IInv
  <1>1. PICK waiting : /\ waiting = {o.tx : o \in {x \in ToSet(orphans) : Head(parents) \in x.missing}}
                       /\ retrying' \in SetToSeqs(waiting)
                       /\ orphans' = OrphanDrop(orphans, waiting)
    BY DEF PopDependents
  <1>2. waiting \in SUBSET Txs
    <2>1. \A x \in ToSet(orphans) : x \in Orphan BY DEF ToSet, OrphansOK
    <2> QED BY <1>1, <2>1 DEF Orphan
  <1>3. retrying' \in Seq(Txs) BY <1>1, <1>2, OrdersAreSequences
  <1>4. OrphansOK(orphans') /\ Held(orphans') \subseteq Held(orphans) BY <1>1, DropOK
  <1>5. /\ parents # << >> /\ parents' = Tail(parents)
        /\ UNCHANGED <<forks, confirmed, pool, floor, floorAt, confirming, now>>
    BY DEF PopDependents
  <1>6. parents' \in Seq(Txs) BY <1>5
  <1>7. Held(orphans') \cap Entries' = {} BY <1>4, <1>5 DEF Entries
  <1> QED BY <1>3, <1>4, <1>5, <1>6, <1>7 DEF FloorOK, OrphansOK

\* confirm_block keeps the invariant.
LEMMA ConfirmInv == IInv /\ ConfirmNext => IInv'
  <1> SUFFICES ASSUME IInv, ConfirmNext PROVE IInv' OBVIOUS
  <1> USE DEF IInv
  <1>1. PICK t : t = Head(confirming) OBVIOUS
  <1>2. /\ confirming # << >> /\ confirming' = Tail(confirming)
        /\ pool' = RemoveEntries(pool, {t} \cap Entries) /\ parents' = <<t>>
        /\ UNCHANGED <<forks, confirmed, orphans, floor, floorAt, retrying, now>>
    BY <1>1 DEF ConfirmNext
  <1>3. t \in Txs /\ confirming' \in Seq(Txs) BY <1>1, <1>2
  <1>4. parents' \in Seq(Txs) BY <1>2, <1>3
  <1>5. {t} \cap Entries \in SUBSET DOMAIN pool.entries BY DEF Entries
  <1>6. PoolOK(pool') /\ DOMAIN pool'.entries \subseteq DOMAIN pool.entries
    BY <1>2, <1>5, RemovalOK
  <1>7. Held(orphans') \cap Entries' = {} BY <1>2, <1>6 DEF Entries
  <1> QED BY <1>2, <1>3, <1>4, <1>6, <1>7 DEF FloorOK, OrphansOK

\* So does a new block, on the active branch or off it.
LEMMA BlockInv == IInv /\ (Extend \/ StoreSideBlock \/ SwitchBranch) => IInv'
  <1> SUFFICES ASSUME IInv, Extend \/ StoreSideBlock \/ SwitchBranch PROVE IInv' OBVIOUS
  <1> USE DEF IInv
  <1>1. /\ UNCHANGED <<pool, orphans, floor, floorAt, parents, retrying, now>>
        /\ \E ts \in SUBSET Txs : confirming' \in SetToSeqs(ts)
        /\ confirmed' \in SUBSET Txs
        /\ forks' \in 0 .. MaxForks
    <2>1. CASE Extend
      BY <2>1 DEF Extend, Confirm, BlockOrders, BlockSets
    <2>2. CASE StoreSideBlock
      <3>1. forks < MaxForks /\ forks' = forks + 1 BY <2>2 DEF StoreSideBlock, Fork
      <3>2. forks' \in 0 .. MaxForks BY <3>1, MempoolAssumption
      <3> QED BY <2>2, <3>2 DEF StoreSideBlock, Confirm, BlockSets
    <2>3. CASE SwitchBranch
      <3>1. forks < MaxForks /\ forks' = forks + 1 BY <2>3 DEF SwitchBranch, Fork
      <3>2. forks' \in 0 .. MaxForks BY <3>1, MempoolAssumption
      <3> QED BY <2>3, <3>2
            DEF SwitchBranch, Confirm, BlockOrders, BlockSets, Branches, Consistent
    <2> QED BY <2>1, <2>2, <2>3
  <1>2. confirming' \in Seq(Txs) BY <1>1, OrdersAreSequences
  <1>3. Held(orphans') \cap Entries' = {} BY <1>1 DEF Entries
  <1> QED BY <1>1, <1>2, <1>3 DEF FloorOK, OrphansOK

\* So does time.
LEMMA TickInv == IInv /\ Tick => IInv'
  <1> SUFFICES ASSUME IInv, Tick PROVE IInv' OBVIOUS
  <1> USE DEF IInv
  <1>1. /\ UNCHANGED <<forks, confirmed, pool, orphans, floor, floorAt, confirming, parents, retrying>>
        /\ now < MaxClock /\ now' = now + 1
    BY DEF Tick
  <1>2. now \in Nat /\ now' \in 0 .. MaxClock BY <1>1, MempoolAssumption
  <1>3. \A k \in DOMAIN orphans : orphans[k].arrival <= now'
    <2>1. \A k \in DOMAIN orphans : orphans[k].arrival \in Nat
      <3>1. \A k \in DOMAIN orphans : orphans[k] \in Orphan BY DEF OrphansOK
      <3> QED BY <3>1 DEF Orphan
    <2> QED BY <1>1, <1>2, <2>1 DEF OrphansOK
  <1>4. floorAt' <= now' BY <1>1, <1>2 DEF FloorOK
  <1>5. Held(orphans') \cap Entries' = {} BY <1>1 DEF Entries
  <1> QED BY <1>1, <1>2, <1>3, <1>4, <1>5 DEF FloorOK, OrphansOK

\* Every step keeps the invariant.
LEMMA StepInv == IInv /\ [Next]_vars => IInv'
  <1> SUFFICES ASSUME IInv, [Next]_vars PROVE IInv' OBVIOUS
  <1>1. CASE Submit
    <2>1. << >> \in Seq(Txs) OBVIOUS
    <2> QED BY <1>1, <2>1, AcceptInv DEF Submit
  <1>2. CASE Running
    <2>1. CASE Retry
      <3>1. retrying # << >> /\ retrying \in Seq(Txs) BY <2>1 DEF Retry, IInv
      <3>2. Head(retrying) \in Txs /\ Tail(retrying) \in Seq(Txs) BY <3>1
      <3> QED BY <2>1, <3>2, AcceptInv DEF Retry
    <2> QED BY <1>2, <2>1, PopInv, ConfirmInv DEF Running
  <1>3. CASE Extend \/ StoreSideBlock \/ SwitchBranch BY <1>3, BlockInv
  <1>4. CASE Tick BY <1>4, TickInv
  <1>5. CASE UNCHANGED vars
    <2>1. UNCHANGED <<forks, confirmed, pool, orphans, floor, floorAt, confirming, parents, retrying, now>>
      BY <1>5 DEF vars
    <2> QED BY <2>1 DEF IInv, FloorOK, OrphansOK, Entries
  <1> QED BY <1>1, <1>2, <1>3, <1>4, <1>5 DEF Next

-----------------------------------------------------------------------------
(* The lists as a graph *)

\* A set of transactions with all the parents of each.
Family(ts) == ts \in SUBSET Txs /\ \A t \in ts : Parents(t) \subseteq ts \cup {Coinbase}

\* No transaction spends what one of its ancestors spends.  The code does not see
\* to that: _check_replacement lets a transaction spend an output of one it evicts.
NoSelfRivals ==
    \A t \in Txs : \E ts : Family(ts) /\ t \in ts /\ \A u \in ts \ {t} : Ins[u] \cap Ins[t] = {}

\* Only ancestors are listed.
Kin(m) ==
    \A t \in DOMAIN m.entries : \A ts :
        Family(ts) /\ t \in ts => m.entries[t].anc \subseteq ts

\* A parent that is not listed is confirmed.
ParentsKnown(m, held) ==
    \A t \in DOMAIN m.entries : Parents(t) \subseteq m.entries[t].anc \cup held \cup {Coinbase}

\* Among the entries S the parents are listed, and all that is listed is a parent
\* or listed by one.
Exact(m, S) ==
    \A t \in S :
        /\ Parents(t) \cap S \subseteq m.entries[t].anc
        /\ \A a \in m.entries[t].anc :
              a \in Parents(t) \/ \E p \in Parents(t) \cap S : a \in m.entries[p].anc

\* The entries that descend from none of those that were left behind.
Told(m, behind) == DOMAIN m.entries \ WithDescendants(m, behind)

\* Descendants of members are members.
Closed(m, ts) == \A t \in ts : m.entries[t].desc \subseteq ts

\* A set with its descendants is closed.
LEMMA DescendantsClosed ==
  ASSUME NEW m, PoolGood(m), Related(m), NEW ts \in SUBSET DOMAIN m.entries
  PROVE  Closed(m, WithDescendants(m, ts))
  <1> SUFFICES ASSUME NEW t \in WithDescendants(m, ts), NEW u \in m.entries[t].desc
               PROVE  u \in WithDescendants(m, ts)
    BY DEF Closed
  <1>1. CASE t \in ts BY <1>1 DEF WithDescendants
  <1>2. CASE t \notin ts
    <2>1. PICK s \in ts : t \in m.entries[s].desc BY <1>2 DEF WithDescendants
    <2>2. t \in DOMAIN m.entries /\ u \in DOMAIN m.entries BY <2>1 DEF PoolGood
    <2>3. s \in m.entries[t].anc /\ t \in m.entries[u].anc BY <2>1, <2>2 DEF Related
    <2>4. s \in m.entries[u].anc BY <2>2, <2>3 DEF Related
    <2>5. u \in m.entries[s].desc BY <2>2, <2>4 DEF Related
    <2> QED BY <2>5 DEF WithDescendants
  <1> QED BY <1>1, <1>2

\* What is removed is gone from every list, so that the rest stay related.
LEMMA RemoveRelated ==
  ASSUME NEW m, PoolGood(m), Related(m), NEW gone \in SUBSET DOMAIN m.entries,
         NEW r, r = RemoveEntries(m, gone)
  PROVE  Related(r) /\ (Kin(m) => Kin(r))
  <1>1. /\ DOMAIN r.entries = DOMAIN m.entries \ gone
        /\ \A t \in DOMAIN r.entries : /\ r.entries[t].anc = m.entries[t].anc \ gone
                                       /\ r.entries[t].desc = m.entries[t].desc \ gone
    BY RemoveKeeps
  <1>2. \A t, u \in DOMAIN r.entries : u \in r.entries[t].desc <=> t \in r.entries[u].anc
    BY <1>1 DEF Related
  <1>3. ASSUME NEW t \in DOMAIN r.entries, NEW a \in r.entries[t].anc
        PROVE  r.entries[a].anc \subseteq r.entries[t].anc
    <2>1. a \in m.entries[t].anc /\ a \in DOMAIN r.entries BY <1>1 DEF PoolGood
    <2>2. m.entries[a].anc \subseteq m.entries[t].anc BY <1>1, <2>1 DEF Related
    <2> QED BY <1>1, <2>1, <2>2
  <1>4. Kin(m) => Kin(r) BY <1>1 DEF Kin
  <1> QED BY <1>2, <1>3, <1>4 DEF Related

\* Entries of which more are told stay exact when fewer are.
LEMMA FewerExact ==
  ASSUME NEW m, PoolGood(m), Related(m), NEW more \in SUBSET DOMAIN m.entries,
         NEW behind \in SUBSET more, Exact(m, Told(m, behind))
  PROVE  Exact(m, Told(m, more))
  <1>1. PICK S : S = Told(m, behind) OBVIOUS
  <1>2. PICK F : F = Told(m, more) OBVIOUS
  <1>3. F \subseteq S /\ S \subseteq DOMAIN m.entries BY <1>1, <1>2 DEF Told, WithDescendants
  <1>4. Closed(m, WithDescendants(m, more)) BY DescendantsClosed
  <1>5. ASSUME NEW t \in F PROVE Parents(t) \cap F \subseteq m.entries[t].anc
    BY <1>1, <1>3 DEF Exact
  <1>6. ASSUME NEW t \in F, NEW a \in m.entries[t].anc
        PROVE  a \in Parents(t) \/ \E p \in Parents(t) \cap F : a \in m.entries[p].anc
    <2>1. CASE a \in Parents(t) BY <2>1
    <2>2. CASE a \notin Parents(t)
      <3>1. PICK p \in Parents(t) \cap S : a \in m.entries[p].anc BY <1>1, <1>3, <2>2 DEF Exact
      <3>2. p \in m.entries[t].anc BY <1>1, <1>3, <3>1 DEF Exact
      <3>3. t \in m.entries[p].desc BY <1>3, <3>1, <3>2 DEF Related
      <3>4. p \in F BY <1>2, <1>3, <1>4, <3>1, <3>3 DEF Told, Closed
      <3> QED BY <3>1, <3>4
    <2> QED BY <2>1, <2>2
  <1>7. Exact(m, F) BY <1>5, <1>6 DEF Exact
  <1> QED BY <1>2, <1>7

\* Taking out entries with all their descendants keeps the lists exact, for each
\* choice of what was left behind.
LEMMA RemoveClosed ==
  ASSUME NEW m, PoolGood(m), Related(m), NEW gone \in SUBSET DOMAIN m.entries,
         Closed(m, gone), NEW r, r = RemoveEntries(m, gone),
         NEW behind \in SUBSET DOMAIN m.entries, NEW held
  PROVE  /\ Told(r, behind \ gone) = Told(m, behind) \ gone
         /\ Exact(m, Told(m, behind)) => Exact(r, Told(r, behind \ gone))
         /\ ParentsKnown(m, held) => ParentsKnown(r, held)
  <1>1. /\ DOMAIN r.entries = DOMAIN m.entries \ gone
        /\ \A t \in DOMAIN r.entries : /\ r.entries[t].anc = m.entries[t].anc \ gone
                                       /\ r.entries[t].desc = m.entries[t].desc \ gone
    BY RemoveKeeps
  <1>2. \A t \in DOMAIN r.entries, p \in gone : p \notin m.entries[t].anc
    BY <1>1 DEF Closed, Related
  <1>3. Told(r, behind \ gone) = Told(m, behind) \ gone
    <2>1. \A t \in DOMAIN r.entries : \A s \in behind \cap gone :
             t \notin m.entries[s].desc
      BY <1>1 DEF Closed
    <2>2. \A t \in DOMAIN r.entries :
             t \in WithDescendants(m, behind) <=> t \in WithDescendants(r, behind \ gone)
      BY <1>1, <2>1 DEF WithDescendants
    <2> QED BY <1>1, <2>2 DEF Told
  <1>4. ASSUME Exact(m, Told(m, behind)) PROVE Exact(r, Told(r, behind \ gone))
    <2>1. PICK S : S = Told(m, behind) OBVIOUS
    <2>2. S \subseteq DOMAIN m.entries BY <2>1 DEF Told
    <2>3. ASSUME NEW t \in S \ gone PROVE Parents(t) \cap (S \ gone) \subseteq r.entries[t].anc
      BY <1>1, <1>4, <2>1, <2>2 DEF Exact
    <2>4. ASSUME NEW t \in S \ gone, NEW a \in r.entries[t].anc
          PROVE  a \in Parents(t) \/ \E p \in Parents(t) \cap (S \ gone) : a \in r.entries[p].anc
      <3>1. a \in m.entries[t].anc /\ a \notin gone BY <1>1, <2>2
      <3>2. CASE a \in Parents(t) BY <3>2
      <3>3. CASE a \notin Parents(t)
        <4>1. PICK p \in Parents(t) \cap S : a \in m.entries[p].anc
          BY <1>4, <2>1, <3>1, <3>3 DEF Exact
        <4>2. p \in m.entries[t].anc BY <1>4, <2>1, <4>1 DEF Exact
        <4>3. p \notin gone BY <1>1, <1>2, <2>2, <4>2
        <4>4. a \in r.entries[p].anc BY <1>1, <2>2, <3>1, <4>1, <4>3
        <4> QED BY <4>1, <4>3, <4>4
      <3> QED BY <3>2, <3>3
    <2>5. Exact(r, S \ gone) BY <2>3, <2>4 DEF Exact
    <2> QED BY <1>3, <2>1, <2>5
  <1>5. ASSUME ParentsKnown(m, held) PROVE ParentsKnown(r, held)
    BY <1>1, <1>2, <1>5 DEF ParentsKnown
  <1> QED BY <1>3, <1>4, <1>5

\* What an insertion leaves in the lists.
Inserted(m, t, anc, r) ==
    /\ DOMAIN r.entries = DOMAIN m.entries \cup {t}
    /\ r.entries[t].anc = anc /\ r.entries[t].desc = {}
    /\ \A u \in DOMAIN m.entries :
          /\ r.entries[u].anc = m.entries[u].anc
          /\ r.entries[u].desc = IF u \in anc THEN m.entries[u].desc \cup {t}
                                 ELSE m.entries[u].desc

\* Insert adds the entry, and to the descendants of what it lists.
LEMMA InsertLists ==
  ASSUME NEW m, PoolGood(m), NEW t \in Txs, t \notin DOMAIN m.entries,
         NEW anc \in SUBSET DOMAIN m.entries, NEW r, r = Insert(m, t, anc)
  PROVE  Inserted(m, t, anc, r)
  <1> DEFINE old == DOMAIN m.entries
             grown(u) == [m.entries[u] EXCEPT !.desc = @ \cup {t}]
  <1>1. r.entries = [u \in old \cup {t} |->
                        IF u = t THEN [anc |-> anc, desc |-> {}, arrival |-> now]
                        ELSE IF u \in anc THEN grown(u) ELSE m.entries[u]]
    BY DEF Insert
  <1>2. DOMAIN r.entries = old \cup {t} BY <1>1
  <1>3. r.entries[t] = [anc |-> anc, desc |-> {}, arrival |-> now] BY <1>1
  <1>4. r.entries[t].anc = anc /\ r.entries[t].desc = {} BY <1>3
  <1>5. ASSUME NEW u \in old
        PROVE  /\ r.entries[u].anc = m.entries[u].anc
               /\ r.entries[u].desc = IF u \in anc THEN m.entries[u].desc \cup {t}
                                      ELSE m.entries[u].desc
    <2>1. m.entries[u] \in Entry /\ u # t BY DEF PoolGood
    <2>2. r.entries[u] = IF u \in anc THEN grown(u) ELSE m.entries[u] BY <1>1, <2>1
    <2>3. grown(u).anc = m.entries[u].anc /\ grown(u).desc = m.entries[u].desc \cup {t}
      BY <2>1 DEF Entry
    <2> QED BY <2>2, <2>3
  <1> QED BY <1>2, <1>4, <1>5 DEF Inserted

\* An entry that comes with its parents and what they list keeps the others related.
LEMMA InsertRelated ==
  ASSUME NEW m, PoolGood(m), Related(m), Kin(m), NEW t \in Txs, t \notin DOMAIN m.entries,
         NEW anc, anc = Ancestors(m, t, {}), NEW r, r = Insert(m, t, anc)
  PROVE  Related(r) /\ Kin(r)
  <1>1. PICK ps : ps = Parents(t) \cap DOMAIN m.entries OBVIOUS
  <1>2. \A a : a \in anc <=> a \in ps \/ \E p \in ps : a \in m.entries[p].anc
    BY <1>1 DEF Ancestors
  <1>3. anc \in SUBSET DOMAIN m.entries BY <1>1, <1>2 DEF PoolGood
  <1>4. /\ DOMAIN r.entries = DOMAIN m.entries \cup {t}
        /\ r.entries[t].anc = anc /\ r.entries[t].desc = {}
        /\ \A u \in DOMAIN m.entries :
              /\ r.entries[u].anc = m.entries[u].anc
              /\ r.entries[u].desc = IF u \in anc THEN m.entries[u].desc \cup {t}
                                     ELSE m.entries[u].desc
    <2>1. Inserted(m, t, anc, r) BY <1>3, InsertLists
    <2> QED BY <2>1 DEF Inserted
  <1>5. \A u \in DOMAIN m.entries :
           /\ m.entries[u].anc \subseteq DOMAIN m.entries
           /\ m.entries[u].desc \subseteq DOMAIN m.entries
    BY DEF PoolGood
  <1>6. ASSUME NEW u \in DOMAIN r.entries, NEW v \in DOMAIN r.entries
        PROVE  v \in r.entries[u].desc <=> u \in r.entries[v].anc
    <2>1. CASE u = t BY <1>3, <1>4, <1>5, <2>1
    <2>2. CASE v = t /\ u # t BY <1>4, <1>5, <2>2
    <2>3. CASE u # t /\ v # t
      <3>1. u \in DOMAIN m.entries /\ v \in DOMAIN m.entries BY <1>4, <2>3
      <3>2. v \in r.entries[u].desc <=> v \in m.entries[u].desc BY <1>4, <2>3, <3>1
      <3>3. r.entries[v].anc = m.entries[v].anc BY <1>4, <3>1
      <3> QED BY <3>1, <3>2, <3>3 DEF Related
    <2> QED BY <2>1, <2>2, <2>3
  <1>7. ASSUME NEW u \in DOMAIN r.entries, NEW a \in r.entries[u].anc
        PROVE  r.entries[a].anc \subseteq r.entries[u].anc
    <2>1. CASE u = t
      <3>1. a \in anc /\ a \in DOMAIN m.entries /\ r.entries[a].anc = m.entries[a].anc
        BY <1>3, <1>4, <2>1
      <3>2. CASE a \in ps BY <1>2, <1>4, <2>1, <3>1, <3>2
      <3>3. CASE a \notin ps
        <4>1. PICK p \in ps : a \in m.entries[p].anc BY <1>2, <3>1, <3>3
        <4>2. m.entries[a].anc \subseteq m.entries[p].anc BY <1>1, <4>1 DEF Related
        <4> QED BY <1>2, <1>4, <2>1, <3>1, <4>1, <4>2
      <3> QED BY <3>2, <3>3
    <2>2. CASE u # t
      <3>1. u \in DOMAIN m.entries /\ a \in m.entries[u].anc /\ a \in DOMAIN m.entries
        BY <1>4, <1>5, <2>2
      <3> QED BY <1>4, <3>1 DEF Related
    <2> QED BY <2>1, <2>2
  <1>8. ASSUME NEW u \in DOMAIN r.entries, NEW ts, Family(ts), u \in ts
        PROVE  r.entries[u].anc \subseteq ts
    <2>1. CASE u = t
      <3>1. ps \subseteq ts
        <4>1. ps \subseteq Txs BY <1>1 DEF PoolGood
        <4>2. Coinbase \notin Txs BY MempoolAssumption
        <4> QED BY <1>1, <1>8, <2>1, <4>1, <4>2 DEF Family
      <3>2. \A p \in ps : m.entries[p].anc \subseteq ts BY <1>1, <1>8, <3>1 DEF Kin
      <3> QED BY <1>2, <1>4, <2>1, <3>1, <3>2
    <2>2. CASE u # t BY <1>4, <1>8, <2>2 DEF Kin
    <2> QED BY <2>1, <2>2
  <1> QED BY <1>6, <1>7, <1>8 DEF Related, Kin

\* It also keeps the lists exact, unless the chain has the transaction already; then
\* it has to descend from one that was left behind.
LEMMA InsertExact ==
  ASSUME NEW m, PoolGood(m), Related(m), NEW t \in Txs, t \notin DOMAIN m.entries,
         NEW anc, anc = Ancestors(m, t, {}), NEW r, r = Insert(m, t, anc), Related(r),
         NEW held, Parents(t) \subseteq DOMAIN m.entries \cup held \cup {Coinbase},
         ParentsKnown(m, held),
         NEW behind \in SUBSET DOMAIN m.entries, Exact(m, Told(m, behind)),
         t \in held => anc \cap WithDescendants(m, behind) # {}
  PROVE  /\ ParentsKnown(r, held)
         /\ Told(r, behind) \subseteq Told(m, behind) \cup {t}
         /\ t \in held => t \notin Told(r, behind)
         /\ Exact(r, Told(r, behind))
  <1>1. PICK ps : ps = Parents(t) \cap DOMAIN m.entries OBVIOUS
  <1>2. \A a : a \in anc <=> a \in ps \/ \E p \in ps : a \in m.entries[p].anc
    BY <1>1 DEF Ancestors
  <1>3. anc \in SUBSET DOMAIN m.entries BY <1>1, <1>2 DEF PoolGood
  <1>4. /\ DOMAIN r.entries = DOMAIN m.entries \cup {t}
        /\ r.entries[t].anc = anc /\ r.entries[t].desc = {}
        /\ \A u \in DOMAIN m.entries :
              /\ r.entries[u].anc = m.entries[u].anc
              /\ r.entries[u].desc = IF u \in anc THEN m.entries[u].desc \cup {t}
                                     ELSE m.entries[u].desc
    <2>1. Inserted(m, t, anc, r) BY <1>3, InsertLists
    <2> QED BY <2>1 DEF Inserted
  <1>5. ParentsKnown(r, held)
    <2>1. Parents(t) \subseteq anc \cup held \cup {Coinbase} BY <1>1, <1>2
    <2> QED BY <1>4, <2>1 DEF ParentsKnown
  <1>6. PICK S : S = Told(m, behind) OBVIOUS
  <1>7. PICK F : F = Told(r, behind) OBVIOUS
  <1>8. S \subseteq DOMAIN m.entries BY <1>6 DEF Told
  <1>9. ASSUME NEW u \in DOMAIN m.entries PROVE u \in F <=> u \in S
    <2>1. u # t /\ u \in DOMAIN r.entries BY <1>4
    <2>2. ASSUME NEW s \in behind PROVE u \in r.entries[s].desc <=> u \in m.entries[s].desc
      <3>1. s \in DOMAIN m.entries OBVIOUS
      <3>2. r.entries[s].desc = IF s \in anc THEN m.entries[s].desc \cup {t} ELSE m.entries[s].desc
        BY <1>4, <3>1
      <3> QED BY <2>1, <3>2
    <2>3. u \in WithDescendants(r, behind) <=> u \in WithDescendants(m, behind)
      BY <2>2 DEF WithDescendants
    <2> QED BY <1>6, <1>7, <2>1, <2>3 DEF Told
  <1>10. ASSUME NEW a \in anc, a \in WithDescendants(m, behind) PROVE t \notin F
    <2>1. CASE a \in behind
      <3>1. t \in r.entries[a].desc BY <1>3, <1>4, <2>1
      <3> QED BY <1>7, <2>1, <3>1 DEF Told, WithDescendants
    <2>2. CASE a \notin behind
      <3>1. PICK s \in behind : a \in m.entries[s].desc BY <1>10, <2>2 DEF WithDescendants
      <3>2. s \in m.entries[a].anc /\ s \in DOMAIN m.entries BY <1>3, <3>1 DEF Related
      <3>3. s \in r.entries[a].anc /\ a \in r.entries[t].anc BY <1>3, <1>4, <3>2
      <3>4. s \in r.entries[t].anc BY <1>4, <3>3 DEF Related
      <3>5. t \in r.entries[s].desc BY <1>4, <3>2, <3>4 DEF Related
      <3> QED BY <1>7, <3>1, <3>5 DEF Told, WithDescendants
    <2> QED BY <2>1, <2>2
  <1>11. t \in held => t \notin F BY <1>10
  <1>12. ASSUME t \in F, NEW p \in ps PROVE p \in F
    <2>1. p \in anc /\ p \in DOMAIN m.entries BY <1>1, <1>2
    <2>2. p \notin WithDescendants(m, behind) BY <1>10, <1>12, <2>1
    <2> QED BY <1>6, <1>9, <2>1, <2>2 DEF Told
  <1>13. F \subseteq DOMAIN m.entries \cup {t} BY <1>4, <1>7 DEF Told
  <1>14. ASSUME NEW u \in F
         PROVE  /\ Parents(u) \cap F \subseteq r.entries[u].anc
                /\ \A a \in r.entries[u].anc :
                     a \in Parents(u) \/ \E p \in Parents(u) \cap F : a \in r.entries[p].anc
    <2>1. CASE u = t
      <3>1. t \notin held BY <1>11, <1>14, <2>1
      <3>2. t \notin Parents(t)
        <4>1. t # Coinbase BY MempoolAssumption
        <4> QED BY <3>1, <4>1
      <3>3. Parents(t) \cap F \subseteq ps BY <1>1, <1>13, <3>2
      <3>4. ps \subseteq Parents(t) \cap F BY <1>1, <1>12, <1>14, <2>1
      <3>5. \A p \in ps : r.entries[p].anc = m.entries[p].anc BY <1>1, <1>4
      <3> QED BY <1>2, <1>4, <2>1, <3>3, <3>4, <3>5
    <2>2. CASE u # t
      <3>1. u \in DOMAIN m.entries /\ u \in S BY <1>9, <1>13, <1>14, <2>2
      <3>2. t \in F => t \notin Parents(u)
        <4>1. t # Coinbase BY MempoolAssumption
        <4>2. t \notin m.entries[u].anc BY <3>1 DEF PoolGood
        <4>3. t \in Parents(u) => t \in held BY <3>1, <4>1, <4>2 DEF ParentsKnown
        <4> QED BY <1>11, <4>3
      <3>3. Parents(u) \cap F = Parents(u) \cap S BY <1>8, <1>9, <1>13, <3>2
      <3>4. Parents(u) \cap S \subseteq m.entries[u].anc BY <1>6, <3>1 DEF Exact
      <3>5. \A a \in m.entries[u].anc :
               a \in Parents(u) \/ \E p \in Parents(u) \cap S : a \in m.entries[p].anc
        BY <1>6, <3>1 DEF Exact
      <3>6. \A p \in S : r.entries[p].anc = m.entries[p].anc BY <1>4, <1>8
      <3>7. r.entries[u].anc = m.entries[u].anc BY <1>4, <3>1
      <3> QED BY <3>3, <3>4, <3>5, <3>6, <3>7
    <2> QED BY <2>1, <2>2
  <1>15. Exact(r, F) BY <1>14 DEF Exact
  <1> QED BY <1>5, <1>6, <1>7, <1>9, <1>11, <1>13, <1>15

\* What trimming evicts it evicts with all its descendants.
LEMMA TrimClosed ==
  ASSUME NEW m, PoolGood(m), Related(m), NEW gone, gone = UNION ToSet(Trimmed(m))
  PROVE  gone \in SUBSET DOMAIN m.entries /\ Closed(m, gone)
  <1>1. PICK v : v = Trimmed(m) OBVIOUS
  <1>2. DOMAIN m.entries \in SUBSET Txs BY DEF PoolGood
  <1>3. TrimsTo(m, v, DOMAIN m.entries) BY <1>1, <1>2, Trims
  <1>4. \A t : t \in gone <=> \E k \in DOMAIN v : t \in v[k] BY <1>1 DEF ToSet
  <1>5. gone \in SUBSET DOMAIN m.entries BY <1>3, <1>4 DEF TrimsTo
  <1>6. ASSUME NEW t \in gone, NEW u \in m.entries[t].desc PROVE u \in gone
    <2>1. PICK k \in DOMAIN v : t \in v[k] BY <1>4
    <2>2. t \in DOMAIN m.entries /\ u \in DOMAIN m.entries BY <1>5 DEF PoolGood
    <2>3. \E j \in DOMAIN v : u \in v[j] BY <1>3, <2>1, <2>2 DEF TrimsTo, Together
    <2> QED BY <1>4, <2>3
  <1> QED BY <1>5, <1>6 DEF Closed

\* The ancestors a candidate will have are those it finds once the evicted are gone.
LEMMA AncestorsLater ==
  ASSUME NEW m, PoolGood(m), NEW t \in Txs, NEW gone \in SUBSET DOMAIN m.entries,
         NEW r, r = RemoveEntries(m, gone)
  PROVE  Ancestors(m, t, gone) = Ancestors(r, t, {})
  <1>1. /\ DOMAIN r.entries = DOMAIN m.entries \ gone
        /\ \A u \in DOMAIN r.entries : r.entries[u].anc = m.entries[u].anc \ gone
    BY RemoveKeeps
  <1>2. PICK ps : ps = (Parents(t) \cap DOMAIN m.entries) \ gone OBVIOUS
  <1>3. Parents(t) \cap DOMAIN r.entries = ps BY <1>1, <1>2
  <1>4. \A p \in ps : r.entries[p].anc = m.entries[p].anc \ gone BY <1>1, <1>2
  <1>5. Ancestors(m, t, gone) = (ps \cup UNION {m.entries[p].anc : p \in ps}) \ gone
    BY <1>2 DEF Ancestors
  <1>6. Ancestors(r, t, {}) = (ps \cup UNION {r.entries[p].anc : p \in ps}) \ {}
    BY <1>3 DEF Ancestors
  <1>7. \A a : a \in (ps \cup UNION {m.entries[p].anc : p \in ps}) \ gone
                <=> a \in ps \cup UNION {r.entries[p].anc : p \in ps}
    BY <1>2, <1>4
  <1> QED BY <1>5, <1>6, <1>7

\* No parent of a transaction is evicted for it, if none of its ancestors is its rival.
LEMMA ParentsStay ==
  ASSUME NoSelfRivals, NEW m, PoolGood(m), Related(m), Kin(m), NEW t \in Txs,
         t \notin DOMAIN m.entries
  PROVE  Parents(t) \cap Evicted(m, t) = {}
  <1> SUFFICES ASSUME NEW x \in Parents(t), x \in Evicted(m, t) PROVE FALSE OBVIOUS
  <1>1. /\ Conflicts(m, t) \in SUBSET DOMAIN m.entries
        /\ Evicted(m, t) \in SUBSET DOMAIN m.entries
    BY EvictedSpends
  <1>2. PICK c \in Conflicts(m, t) : x = c \/ x \in m.entries[c].desc
    BY DEF Evicted, WithDescendants
  <1>3. c \in DOMAIN m.entries /\ x \in DOMAIN m.entries BY <1>1, <1>2
  <1>4. x = c \/ c \in m.entries[x].anc BY <1>2, <1>3 DEF Related
  <1>5. PICK ts : Family(ts) /\ t \in ts /\ \A u \in ts \ {t} : Ins[u] \cap Ins[t] = {}
    BY DEF NoSelfRivals
  <1>6. x \in ts
    <2>1. x \in Txs BY <1>3 DEF PoolGood
    <2>2. x # Coinbase BY <2>1, MempoolAssumption
    <2> QED BY <1>5, <2>2 DEF Family
  <1>7. c \in ts BY <1>3, <1>4, <1>5, <1>6 DEF Kin
  <1>8. PICK i \in Ins[t] : i \in DOMAIN m.spends /\ m.spends[i] = c BY <1>2 DEF Conflicts
  <1>9. i \in Ins[c]
    <2>1. i \in Inputs[DOMAIN m.entries] /\ DOMAIN m.entries \in SUBSET Txs BY <1>8 DEF PoolGood
    <2>2. PICK u \in DOMAIN m.entries : i \in Ins[u] BY <2>1 DEF Inputs
    <2>3. m.spends[i] = u BY <2>2 DEF PoolGood
    <2> QED BY <1>8, <2>2, <2>3
  <1>10. c # t BY <1>3
  <1> QED BY <1>5, <1>7, <1>8, <1>9, <1>10

\* What is still in the pool of the transactions the chain holds, apart from those
\* about to be confirmed.
Behind(m, held, due) == (DOMAIN m.entries \cap held) \ due

\* The lists are those of the graph, as far as the pool was told of the chain.
Whole(m, held, due) ==
    ParentsKnown(m, held) /\ Exact(m, Told(m, Behind(m, held, due)))

\* The entries about to be confirmed that descend from none left behind.
Waiting(m, held, due) == Told(m, Behind(m, held, due)) \cap due

\* Entries that leave with their descendants leave the lists whole.
LEMMA RemoveWhole ==
  ASSUME NEW m, PoolGood(m), Related(m), Kin(m), NEW gone \in SUBSET DOMAIN m.entries,
         Closed(m, gone), NEW r, r = RemoveEntries(m, gone), NEW held, NEW due
  PROVE  /\ Related(r) /\ Kin(r)
         /\ Behind(r, held, due) = Behind(m, held, due) \ gone
         /\ Told(r, Behind(r, held, due)) = Told(m, Behind(m, held, due)) \ gone
         /\ Whole(m, held, due) => Whole(r, held, due)
  <1>1. Related(r) /\ Kin(r) BY RemoveRelated
  <1>2. DOMAIN r.entries = DOMAIN m.entries \ gone BY RemoveKeeps
  <1>3. Behind(r, held, due) = Behind(m, held, due) \ gone BY <1>2 DEF Behind
  <1>4. PICK behind \in SUBSET DOMAIN m.entries : behind = Behind(m, held, due) BY DEF Behind
  <1>5. /\ Told(r, behind \ gone) = Told(m, behind) \ gone
        /\ Exact(m, Told(m, behind)) => Exact(r, Told(r, behind \ gone))
        /\ ParentsKnown(m, held) => ParentsKnown(r, held)
    BY RemoveClosed
  <1> QED BY <1>1, <1>3, <1>4, <1>5 DEF Whole

\* An admission keeps the entries related.
LEMMA AdmitRelated ==
  ASSUME NEW m, PoolGood(m), Related(m), Kin(m), NEW t \in Txs, t \notin DOMAIN m.entries,
         NEW gone, gone = Evicted(m, t), NEW r, r = RemoveEntries(m, gone),
         NEW added, added = Insert(r, t, Ancestors(m, t, gone))
  PROVE  /\ gone \in SUBSET DOMAIN m.entries /\ Closed(m, gone)
         /\ PoolGood(r) /\ Related(r) /\ Kin(r) /\ DOMAIN r.entries = DOMAIN m.entries \ gone
         /\ Ancestors(m, t, gone) = Ancestors(r, t, {})
         /\ Related(added) /\ Kin(added)
         /\ DOMAIN added.entries = DOMAIN r.entries \cup {t}
  <1>1. PICK direct : direct = Conflicts(m, t) OBVIOUS
  <1>2. direct \in SUBSET DOMAIN m.entries /\ gone \in SUBSET DOMAIN m.entries
    BY <1>1, EvictedSpends
  <1>3. gone = WithDescendants(m, direct) BY <1>1 DEF Evicted
  <1>4. Closed(m, gone) BY <1>2, <1>3, DescendantsClosed
  <1>5. PoolGood(r) /\ DOMAIN r.entries = DOMAIN m.entries \ gone BY <1>2, RemoveKeeps
  <1>6. Related(r) /\ Kin(r) BY <1>2, RemoveRelated
  <1>7. PICK anc : anc = Ancestors(m, t, gone) OBVIOUS
  <1>8. anc = Ancestors(r, t, {}) BY <1>2, <1>7, AncestorsLater
  <1>9. t \notin DOMAIN r.entries BY <1>5
  <1>10. added = Insert(r, t, anc) BY <1>7
  <1>11. Related(added) /\ Kin(added) BY <1>5, <1>6, <1>8, <1>9, <1>10, InsertRelated
  <1>12. DOMAIN added.entries = DOMAIN r.entries \cup {t} BY <1>10 DEF Insert
  <1> QED BY <1>2, <1>4, <1>5, <1>6, <1>7, <1>8, <1>11, <1>12

\* An admission keeps the lists whole: the candidate's parents are entries that stay,
\* or confirmed; and if the chain holds the candidate too, it descends from an entry
\* that was left behind.
LEMMA AdmitWhole ==
  ASSUME NoSelfRivals, NEW m, PoolGood(m), Related(m), Kin(m), NEW t \in Txs,
         ~ Refusable(m, t), Missing(m, t) = {},
         NEW gone, gone = Evicted(m, t), NEW r, r = RemoveEntries(m, gone),
         NEW added, added = Insert(r, t, Ancestors(m, t, gone)), PoolGood(added),
         NEW due \in SUBSET confirmed, Family(confirmed), Whole(m, confirmed, due),
         ~ (Parents(t) \subseteq Waiting(m, confirmed, due))
  PROVE  /\ Whole(added, confirmed, due)
         /\ Waiting(added, confirmed, due) \subseteq Waiting(m, confirmed, due) \ {t}
  <1>1. t \notin DOMAIN m.entries BY DEF Refusable
  <1>2. PICK anc : anc = Ancestors(m, t, gone) OBVIOUS
  <1>3. /\ gone \in SUBSET DOMAIN m.entries /\ Closed(m, gone)
        /\ PoolGood(r) /\ Related(r) /\ Kin(r) /\ DOMAIN r.entries = DOMAIN m.entries \ gone
        /\ anc = Ancestors(r, t, {})
        /\ Related(added) /\ Kin(added)
        /\ DOMAIN added.entries = DOMAIN r.entries \cup {t}
    BY <1>1, <1>2, AdmitRelated
  <1>4. Parents(t) \cap gone = {} BY <1>1, ParentsStay
  <1>5. PICK behind : behind = Behind(r, confirmed, due) OBVIOUS
  <1>6. /\ behind = Behind(m, confirmed, due) \ gone
        /\ Told(r, behind) = Told(m, Behind(m, confirmed, due)) \ gone
        /\ Whole(r, confirmed, due)
    BY <1>3, <1>5, RemoveWhole
  <1>7. \A i \in Ins[t] : i.tx \in DOMAIN m.entries \/ i \in Coins[confirmed] BY DEF Missing
  <1>8. confirmed \in SUBSET Txs BY DEF Family
  <1>9. \A i \in Coins[confirmed] :
           i \notin Inputs[confirmed] /\ i.tx \in confirmed \cup {Coinbase}
    BY <1>8 DEF Coins
  <1>10. Parents(t) \subseteq DOMAIN r.entries \cup confirmed \cup {Coinbase}
    BY <1>3, <1>4, <1>7, <1>9 DEF Parents
  <1>11. ASSUME t \in confirmed PROVE anc \cap WithDescendants(r, behind) # {}
    <2>1. \A i \in Ins[t] : i \in Inputs[confirmed] BY <1>8, <1>11 DEF Inputs
    <2>2. Parents(t) \subseteq DOMAIN m.entries BY <1>7, <1>9, <2>1 DEF Parents
    <2>3. PICK x \in Parents(t) : x \notin Waiting(m, confirmed, due) OBVIOUS
    <2>4. x \in DOMAIN r.entries BY <1>3, <1>4, <2>2
    <2>5. x \in confirmed
      <3>1. x # Coinbase BY <2>4, <1>3, MempoolAssumption DEF PoolGood
      <3> QED BY <1>11, <3>1 DEF Family
    <2>6. x \in anc BY <1>3, <2>4 DEF Ancestors
    <2>7. x \in WithDescendants(r, behind)
      <3>1. CASE x \in due
        <4>1. x \notin Told(m, Behind(m, confirmed, due)) BY <2>3, <3>1 DEF Waiting
        <4>2. x \notin Told(r, behind) BY <1>6, <4>1
        <4> QED BY <2>4, <4>2 DEF Told
      <3>2. CASE x \notin due
        <4>1. x \in behind BY <1>5, <2>4, <2>5, <3>2 DEF Behind
        <4> QED BY <4>1 DEF WithDescendants
      <3> QED BY <3>1, <3>2
    <2> QED BY <2>6, <2>7
  <1>12. behind \in SUBSET DOMAIN r.entries BY <1>5 DEF Behind
  <1>13. ParentsKnown(r, confirmed) /\ Exact(r, Told(r, behind)) BY <1>5, <1>6 DEF Whole
  <1>14. added = Insert(r, t, anc) /\ t \notin DOMAIN r.entries BY <1>1, <1>2, <1>3
  <1>15. /\ ParentsKnown(added, confirmed)
         /\ Told(added, behind) \subseteq Told(r, behind) \cup {t}
         /\ t \in confirmed => t \notin Told(added, behind)
         /\ Exact(added, Told(added, behind))
    BY <1>3, <1>10, <1>11, <1>12, <1>13, <1>14, InsertExact
  <1>16. PICK more : more = Behind(added, confirmed, due) OBVIOUS
  <1>17. more \in SUBSET DOMAIN added.entries /\ behind \in SUBSET more
    BY <1>3, <1>5, <1>16 DEF Behind
  <1>18. Exact(added, Told(added, more)) BY <1>3, <1>15, <1>17, FewerExact
  <1>19. Told(added, more) \subseteq Told(added, behind) BY <1>17 DEF Told, WithDescendants
  <1> QED BY <1>6, <1>15, <1>16, <1>18, <1>19 DEF Whole, Waiting

-----------------------------------------------------------------------------
(* The invariant of the graph *)

\* What an orphan waits for are parents of it.
OrphansTrue(os) == \A k \in DOMAIN os : os[k].missing \subseteq Parents(os[k].tx)

\* Dropping orphans and adding one keep that.
LEMMA OrphansStayTrue ==
  ASSUME NEW os, OrphansOK(os), OrphansTrue(os)
  PROVE  /\ \A ts : OrphansTrue(OrphanDrop(os, ts))
         /\ \A t \in Txs, missing \in SUBSET (Txs \cup {Coinbase}) :
               now \in Nat /\ missing # {} /\ missing \subseteq Parents(t)
               => OrphansTrue(OrphanAdd(os, t, missing))
  <1>1. ASSUME NEW ts PROVE OrphansTrue(OrphanDrop(os, ts))
    <2>1. PICK r : r = OrphanDrop(os, ts) OBVIOUS
    <2>2. \A i \in DOMAIN r : \E j \in DOMAIN os : r[i] = os[j] BY <2>1, DropFacts DEF OrphansOK
    <2> QED BY <2>1, <2>2 DEF OrphansTrue
  <1>2. ASSUME NEW t \in Txs, NEW missing \in SUBSET (Txs \cup {Coinbase}),
               now \in Nat, missing # {}, missing \subseteq Parents(t)
        PROVE  OrphansTrue(OrphanAdd(os, t, missing))
    <2>1. PICK r : r = OrphanAdd(os, t, missing) OBVIOUS
    <2>2. \A i \in DOMAIN r : \/ r[i] = [tx |-> t, missing |-> missing, arrival |-> now]
                              \/ \E j \in DOMAIN os : r[i] = os[j]
      BY <1>2, <2>1, AddFacts DEF OrphansOK
    <2>3. ASSUME NEW i \in DOMAIN r PROVE r[i].missing \subseteq Parents(r[i].tx)
      <3>1. CASE r[i] = [tx |-> t, missing |-> missing, arrival |-> now]
        <4>1. r[i].tx = t /\ r[i].missing = missing BY <3>1
        <4> QED BY <1>2, <4>1
      <3>2. CASE \E j \in DOMAIN os : r[i] = os[j] BY <3>2 DEF OrphansTrue
      <3> QED BY <2>2, <3>1, <3>2
    <2> QED BY <2>1, <2>3 DEF OrphansTrue
  <1> QED BY <1>1, <1>2

\* The queue holds transactions of the chain, parents first.
InOrder(queue, held) ==
    /\ ToSet(queue) \subseteq held
    /\ \A i, j \in DOMAIN queue : queue[i] \in Parents(queue[j]) => i < j

\* No parent that orphans are looked up for is an entry to be confirmed, and no
\* orphan to be retried has only such parents.
Fresh(waiting, ps, os) ==
    /\ ToSet(ps) \cap waiting = {}
    /\ \A t \in ToSet(os) : ~ (Parents(t) \subseteq waiting)

\* The pool follows the chain.
Follows(m, held, queue, ps, os) ==
    /\ Family(held)
    /\ InOrder(queue, held)
    /\ Whole(m, held, ToSet(queue))
    /\ Fresh(Waiting(m, held, ToSet(queue)), ps, os)

GInv ==
    /\ Related(pool) /\ Kin(pool)
    /\ OrphansTrue(orphans)
    /\ forks = 0 => Follows(pool, confirmed, confirming, parents, retrying)

\* The next transaction to be confirmed lists no ancestors, unless it descends from
\* an entry left behind.
LEMMA NextIsFirst ==
  ASSUME NEW m, PoolGood(m), Related(m), NEW held, Family(held),
         NEW queue \in Seq(Txs), queue # << >>, InOrder(queue, held),
         Whole(m, held, ToSet(queue)),
         NEW t, t = Head(queue), t \in Told(m, Behind(m, held, ToSet(queue)))
  PROVE  m.entries[t].anc = {}
  <1>1. PICK due : due = ToSet(queue) OBVIOUS
  <1>2. PICK S : S = Told(m, Behind(m, held, due)) OBVIOUS
  <1>3. t \in DOMAIN m.entries /\ t \in S /\ S \subseteq DOMAIN m.entries BY <1>1, <1>2 DEF Told
  <1>4. 1 \in DOMAIN queue /\ queue[1] = t OBVIOUS
  <1>5. t \in held BY <1>4 DEF InOrder, ToSet
  <1>6. ASSUME NEW p \in Parents(t), p \in m.entries[t].anc PROVE FALSE
    <2>1. p \in DOMAIN m.entries BY <1>3, <1>6 DEF PoolGood
    <2>2. p \in held
      <3>1. p # Coinbase BY <2>1, MempoolAssumption DEF PoolGood
      <3> QED BY <1>5, <1>6, <3>1 DEF Family
    <2>3. CASE p \in due
      <3>1. PICK j \in DOMAIN queue : queue[j] = p BY <1>1, <2>3 DEF ToSet
      <3>2. j < 1 BY <1>4, <1>6, <3>1 DEF InOrder
      <3>3. j \in 1 .. Len(queue) OBVIOUS
      <3> QED BY <3>2, <3>3
    <2>4. CASE p \notin due
      <3>1. p \in Behind(m, held, due) BY <2>1, <2>2, <2>4 DEF Behind
      <3>2. t \in m.entries[p].desc BY <1>3, <1>6, <2>1 DEF Related
      <3> QED BY <1>2, <1>3, <3>1, <3>2 DEF Told, WithDescendants
    <2> QED BY <2>3, <2>4
  <1>7. Exact(m, S) BY <1>1, <1>2 DEF Whole
  <1>8. ASSUME NEW a \in m.entries[t].anc PROVE FALSE
    <2>1. a \notin Parents(t) BY <1>6, <1>8
    <2>2. PICK p \in Parents(t) \cap S : a \in m.entries[p].anc BY <1>3, <1>7, <2>1 DEF Exact
    <2>3. p \in m.entries[t].anc BY <1>3, <1>7, <2>2 DEF Exact
    <2> QED BY <1>6, <2>2, <2>3
  <1> QED BY <1>8

\* Confirming it leaves the lists whole.
LEMMA ConfirmWhole ==
  ASSUME NEW m, PoolGood(m), Related(m), Kin(m), NEW held, NEW due \in SUBSET held,
         Whole(m, held, due), NEW t \in due,
         t \in Told(m, Behind(m, held, due)) => m.entries[t].anc = {},
         NEW r, r = RemoveEntries(m, {t} \cap DOMAIN m.entries),
         NEW left \in SUBSET due, due \ {t} \subseteq left
  PROVE  /\ Whole(r, held, left)
         /\ Waiting(r, held, left) \subseteq Waiting(m, held, due) \ {t}
  <1>1. PICK gone \in SUBSET DOMAIN m.entries : gone = {t} \cap DOMAIN m.entries OBVIOUS
  <1>2. /\ DOMAIN r.entries = DOMAIN m.entries \ {t}
        /\ \A u \in DOMAIN r.entries : /\ r.entries[u].anc = m.entries[u].anc \ {t}
                                       /\ r.entries[u].desc = m.entries[u].desc \ {t}
    <2>1. /\ DOMAIN r.entries = DOMAIN m.entries \ gone
          /\ \A u \in DOMAIN r.entries : /\ r.entries[u].anc = m.entries[u].anc \ gone
                                         /\ r.entries[u].desc = m.entries[u].desc \ gone
      BY <1>1, RemoveKeeps
    <2>2. \A u \in DOMAIN m.entries : /\ m.entries[u].anc \ gone = m.entries[u].anc \ {t}
                                     /\ m.entries[u].desc \ gone = m.entries[u].desc \ {t}
      BY <1>1 DEF PoolGood
    <2>3. \A u \in DOMAIN r.entries : u \in DOMAIN m.entries BY <2>1
    <2>4. DOMAIN r.entries = DOMAIN m.entries \ {t} BY <1>1, <2>1
    <2> QED BY <2>1, <2>2, <2>3, <2>4
  <1>3. PICK behind : behind = Behind(m, held, due) OBVIOUS
  <1>4. Behind(r, held, left) = behind BY <1>2, <1>3 DEF Behind
  <1>5. behind \subseteq DOMAIN r.entries BY <1>2, <1>3 DEF Behind
  <1>6. PICK S : S = Told(m, behind) OBVIOUS
  <1>7. Told(r, behind) = S \ {t}
    <2>1. ASSUME NEW u \in DOMAIN r.entries
          PROVE  u \in WithDescendants(r, behind) <=> u \in WithDescendants(m, behind)
      <3>1. u # t BY <1>2
      <3>2. \A s \in behind : u \in r.entries[s].desc <=> u \in m.entries[s].desc
        BY <1>2, <1>5, <3>1
      <3> QED BY <3>2 DEF WithDescendants
    <2> QED BY <1>2, <1>6, <2>1 DEF Told
  <1>8. S \subseteq DOMAIN m.entries BY <1>6 DEF Told
  <1>9. Exact(m, S) BY <1>3, <1>6 DEF Whole
  <1>10. ASSUME NEW u \in S \ {t}
         PROVE  /\ Parents(u) \cap (S \ {t}) \subseteq r.entries[u].anc
                /\ \A a \in r.entries[u].anc :
                     a \in Parents(u) \/ \E p \in Parents(u) \cap (S \ {t}) : a \in r.entries[p].anc
    <2>1. u \in DOMAIN r.entries /\ r.entries[u].anc = m.entries[u].anc \ {t} BY <1>2, <1>8
    <2>2. Parents(u) \cap (S \ {t}) \subseteq r.entries[u].anc BY <1>9, <2>1 DEF Exact
    <2>3. ASSUME NEW a \in r.entries[u].anc, a \notin Parents(u)
          PROVE  \E p \in Parents(u) \cap (S \ {t}) : a \in r.entries[p].anc
      <3>1. a \in m.entries[u].anc /\ a # t BY <2>1
      <3>2. PICK p \in Parents(u) \cap S : a \in m.entries[p].anc BY <1>9, <2>3, <3>1 DEF Exact
      <3>3. p # t BY <1>3, <1>6, <3>2
      <3>4. a \in r.entries[p].anc BY <1>2, <1>8, <3>1, <3>2, <3>3
      <3> QED BY <3>2, <3>3, <3>4
    <2> QED BY <2>2, <2>3
  <1>11. Exact(r, S \ {t}) BY <1>10 DEF Exact
  <1>12. ParentsKnown(r, held)
    <2>1. ParentsKnown(m, held) BY DEF Whole
    <2>2. \A u \in DOMAIN r.entries : /\ u \in DOMAIN m.entries
                                     /\ r.entries[u].anc = m.entries[u].anc \ {t}
      BY <1>2
    <2> QED BY <2>1, <2>2 DEF ParentsKnown
  <1> QED BY <1>3, <1>4, <1>6, <1>7, <1>11, <1>12 DEF Whole, Waiting

\* A pool that was told as much, with fewer entries waiting, follows the chain too.
LEMMA FollowsOn ==
  ASSUME NEW m, NEW held, NEW queue, NEW ps, NEW os, Follows(m, held, queue, ps, os),
         NEW r, Whole(r, held, ToSet(queue)),
         Waiting(r, held, ToSet(queue)) \subseteq Waiting(m, held, ToSet(queue)),
         NEW ps2, ToSet(ps2) \cap Waiting(r, held, ToSet(queue)) = {},
         NEW os2, \A u \in ToSet(os2) : ~ (Parents(u) \subseteq Waiting(m, held, ToSet(queue)))
  PROVE  Follows(r, held, queue, ps2, os2)
  <1>1. \A u \in ToSet(os2) : ~ (Parents(u) \subseteq Waiting(r, held, ToSet(queue))) OBVIOUS
  <1> QED BY <1>1 DEF Follows, Fresh

\* The eviction of expired entries leaves the lists whole.
LEMMA UnexpiredWhole ==
  ASSUME PoolOK(pool), Related(pool), Kin(pool), NEW ts \in SUBSET Entries,
         NEW r, r = RemoveEntries(pool, WithDescendants(pool, ts)), NEW held, NEW due
  PROVE  /\ PoolGood(r) /\ Related(r) /\ Kin(r)
         /\ Waiting(r, held, due) \subseteq Waiting(pool, held, due)
         /\ Whole(pool, held, due) => Whole(r, held, due)
  <1>1. PICK gone : gone = WithDescendants(pool, ts) OBVIOUS
  <1>2. PoolGood(pool) /\ ts \in SUBSET DOMAIN pool.entries BY DEF PoolOK, Entries
  <1>3. gone \in SUBSET DOMAIN pool.entries BY <1>1, <1>2, DescendantsListed
  <1>4. Closed(pool, gone) BY <1>1, <1>2, DescendantsClosed
  <1>5. r = RemoveEntries(pool, gone) BY <1>1
  <1>6. PoolGood(r) BY <1>2, <1>3, <1>5, RemoveKeeps
  <1>7. /\ Related(r) /\ Kin(r)
        /\ Told(r, Behind(r, held, due)) = Told(pool, Behind(pool, held, due)) \ gone
        /\ Whole(pool, held, due) => Whole(r, held, due)
    BY <1>2, <1>3, <1>4, <1>5, RemoveWhole
  <1> QED BY <1>6, <1>7 DEF Waiting

\* A KeyError in the eviction cuts confirm_block short: what was still to be confirmed
\* is left behind.
LEMMA RaiseGraph ==
  ASSUME IInv, GInv, ExpireAndRaise
  PROVE  GInv'
  <1>1. PICK done \in SUBSET Expired : pool' = RemoveEntries(pool, WithDescendants(pool, done))
    BY DEF ExpireAndRaise
  <1>2. /\ confirming' = << >> /\ parents' = << >> /\ retrying' = << >>
        /\ forks' = forks /\ confirmed' = confirmed /\ orphans' = orphans
    BY DEF ExpireAndRaise
  <1>3. PICK r : r = RemoveEntries(pool, WithDescendants(pool, done)) OBVIOUS
  <1>4. done \in SUBSET Entries BY DEF Expired
  <1>5. PICK due : due = ToSet(confirming) OBVIOUS
  <1>6. PoolOK(pool) /\ Related(pool) /\ Kin(pool) BY DEF IInv, GInv
  <1>7. /\ PoolGood(r) /\ Related(r) /\ Kin(r)
        /\ Whole(pool, confirmed, due) => Whole(r, confirmed, due)
    BY <1>3, <1>4, <1>6, UnexpiredWhole
  <1>8. ASSUME forks = 0 PROVE Follows(r, confirmed, << >>, << >>, << >>)
    <2>1. ToSet(<< >>) = {} BY DEF ToSet
    <2>2. Whole(r, confirmed, due) /\ Family(confirmed) BY <1>5, <1>7, <1>8 DEF GInv, Follows
    <2>3. PICK behind \in SUBSET DOMAIN r.entries : behind = Behind(r, confirmed, due)
      BY DEF Behind
    <2>4. PICK more \in SUBSET DOMAIN r.entries : more = Behind(r, confirmed, {}) BY DEF Behind
    <2>5. behind \in SUBSET more BY <2>3, <2>4 DEF Behind
    <2>6. Exact(r, Told(r, behind)) BY <2>2, <2>3 DEF Whole
    <2>7. Exact(r, Told(r, more)) BY <1>7, <2>5, <2>6, FewerExact
    <2>8. Whole(r, confirmed, {}) BY <2>2, <2>4, <2>7 DEF Whole
    <2>9. Waiting(r, confirmed, {}) = {} BY DEF Waiting
    <2>10. InOrder(<< >>, confirmed) BY <2>1 DEF InOrder
    <2>11. Fresh(Waiting(r, confirmed, {}), << >>, << >>) BY <2>1, <2>9 DEF Fresh
    <2> QED BY <2>1, <2>2, <2>8, <2>10, <2>11 DEF Follows
  <1>9. pool' = r BY <1>1, <1>3
  <1> QED BY <1>2, <1>7, <1>8, <1>9 DEF GInv

\* accept_tx on the paths that end without KeyError keeps the graph.
LEMMA PathGraph ==
  ASSUME NoSelfRivals, IInv, GInv, NEW t \in Txs, NEW left \in Seq(Txs),
         forks = 0 => \A u \in ToSet(left) \cup {t} :
             ~ (Parents(u) \subseteq Waiting(pool, confirmed, ToSet(confirming))),
         NEW p, p = Unexpired,
         Refuse(p, t, left) \/ KeepOrphan(p, t, left) \/ RefuseByPolicy(p, t, left)
         \/ Admit(p, t, left)
  PROVE  GInv'
  <1>1. PICK due : due = ToSet(confirming) OBVIOUS
  <1>2. /\ forks' = forks /\ confirmed' = confirmed /\ confirming' = confirming
        /\ retrying' = left
    BY DEF Refuse, KeepOrphan, RefuseByPolicy, Admit, Return
  <1>3. Expired \in SUBSET Entries BY DEF Expired
  <1>4. PoolOK(pool) /\ Related(pool) /\ Kin(pool) BY DEF IInv, GInv
  <1>5. /\ PoolGood(p) /\ Related(p) /\ Kin(p)
        /\ Waiting(p, confirmed, due) \subseteq Waiting(pool, confirmed, due)
        /\ Whole(pool, confirmed, due) => Whole(p, confirmed, due)
    BY <1>3, <1>4, UnexpiredWhole DEF Unexpired
  <1>6. OrphansOK(OrphansDue) /\ OrphansTrue(OrphansDue)
    <2>1. OrphansOK(orphans) /\ OrphansTrue(orphans) BY DEF IInv, GInv
    <2>2. PICK ts : OrphansDue = OrphanDrop(orphans, ts) BY DEF OrphansDue
    <2> QED BY <2>1, <2>2, DropOK, OrphansStayTrue
  <1>7. ASSUME pool' = p, parents' = parents, OrphansTrue(orphans') PROVE GInv'
    <2>1. ASSUME forks = 0 PROVE Follows(p, confirmed, confirming, parents, left)
      <3>1. Follows(pool, confirmed, confirming, parents, retrying) BY <2>1 DEF GInv
      <3>2. Whole(p, confirmed, due) BY <1>1, <1>5, <3>1 DEF Follows
      <3>3. ToSet(parents) \cap Waiting(p, confirmed, due) = {}
        BY <1>1, <1>5, <3>1 DEF Follows, Fresh
      <3>4. \A u \in ToSet(left) : ~ (Parents(u) \subseteq Waiting(pool, confirmed, due))
        BY <1>1, <2>1
      <3> QED BY <1>1, <1>5, <3>1, <3>2, <3>3, <3>4, FollowsOn
    <2> QED BY <1>2, <1>5, <1>7, <2>1 DEF GInv
  <1>8. CASE Refuse(p, t, left) BY <1>6, <1>7, <1>8 DEF Refuse
  <1>9. CASE RefuseByPolicy(p, t, left) BY <1>6, <1>7, <1>9 DEF RefuseByPolicy
  <1>10. CASE KeepOrphan(p, t, left)
    <2>1. PICK missing : missing = {i.tx : i \in Missing(p, t)} OBVIOUS
    <2>2. /\ pool' = p /\ parents' = parents /\ Missing(p, t) # {}
          /\ orphans' = OrphanAdd(OrphansDue, t, missing)
      BY <1>10, <2>1 DEF KeepOrphan
    <2>3. missing # {} /\ missing \subseteq Parents(t) BY <2>1, <2>2 DEF Missing, Parents
    <2>4. missing \in SUBSET (Txs \cup {Coinbase})
      <3>1. Ins[t] \subseteq Outpoints BY MempoolAssumption
      <3>2. \A i \in Missing(p, t) : i.tx \in Txs \cup {Coinbase} BY <3>1 DEF Missing, Outpoints
      <3> QED BY <2>1, <3>2
    <2>5. now \in Nat BY MempoolAssumption DEF IInv
    <2>6. OrphansTrue(OrphanAdd(OrphansDue, t, missing)) BY <1>6, <2>3, <2>4, <2>5, OrphansStayTrue
    <2> QED BY <1>7, <2>2, <2>6
  <1>11. CASE Admit(p, t, left)
    <2>1. PICK gone : gone = Evicted(p, t) OBVIOUS
    <2>2. PICK r : r = RemoveEntries(p, gone) OBVIOUS
    <2>3. PICK added : added = Insert(r, t, Ancestors(p, t, gone)) OBVIOUS
    <2>4. PICK out : out = UNION ToSet(Trimmed(added)) OBVIOUS
    <2>5. /\ ~ Refusable(p, t) /\ Missing(p, t) = {} /\ Admissible(p, t)
          /\ pool' = RemoveEntries(added, out)
          /\ IF t \in Entries' THEN orphans' = OrphanDrop(OrphansDue, {t})
                                  /\ parents' = Append(parents, t)
             ELSE orphans' = OrphansDue /\ parents' = parents
      BY <1>11, <2>1, <2>2, <2>3, <2>4 DEF Admit
    <2>6. PICK q : q = RemoveEntries(added, out) OBVIOUS
    <2>7. t \notin DOMAIN p.entries BY <2>5 DEF Refusable
    <2>8. PoolGood(added)
      <3>1. PoolSmall(p) BY <1>4, UnexpiredOK DEF PoolOK
      <3>2. now \in Nat BY MempoolAssumption DEF IInv
      <3> QED BY <1>5, <2>1, <2>2, <2>3, <2>5, <3>1, <3>2, AdmittedGood
    <2>9. Related(added) /\ Kin(added) BY <1>5, <2>1, <2>2, <2>3, <2>7, AdmitRelated
    <2>10. out \in SUBSET DOMAIN added.entries /\ Closed(added, out)
      BY <2>4, <2>8, <2>9, TrimClosed
    <2>11. /\ Related(q) /\ Kin(q)
           /\ Told(q, Behind(q, confirmed, due)) = Told(added, Behind(added, confirmed, due)) \ out
           /\ Whole(added, confirmed, due) => Whole(q, confirmed, due)
      BY <2>6, <2>8, <2>9, <2>10, RemoveWhole
    <2>12. OrphansTrue(orphans') BY <1>6, <2>5, OrphansStayTrue
    <2>13. ASSUME forks = 0 PROVE Follows(q, confirmed, confirming, parents', left)
      <3>1. Follows(pool, confirmed, confirming, parents, retrying) BY <2>13 DEF GInv
      <3>2. Whole(p, confirmed, due) /\ Family(confirmed) BY <1>1, <1>5, <3>1 DEF Follows
      <3>3. due \in SUBSET confirmed BY <1>1, <3>1 DEF Follows, InOrder
      <3>4. ~ (Parents(t) \subseteq Waiting(p, confirmed, due)) BY <1>1, <1>5, <2>13
      <3>5. /\ Whole(added, confirmed, due)
            /\ Waiting(added, confirmed, due) \subseteq Waiting(p, confirmed, due) \ {t}
        BY <1>5, <2>1, <2>2, <2>3, <2>5, <2>8, <3>2, <3>3, <3>4, AdmitWhole
      <3>6. Whole(q, confirmed, due) BY <2>11, <3>5
      <3>7. Waiting(q, confirmed, due) \subseteq Waiting(p, confirmed, due) \ {t}
        BY <2>11, <3>5 DEF Waiting
      <3>8. Waiting(q, confirmed, due) \subseteq Waiting(pool, confirmed, due) BY <1>5, <3>7
      <3>9. ToSet(parents') \cap Waiting(q, confirmed, due) = {}
        <4>1. ToSet(parents) \cap Waiting(pool, confirmed, due) = {}
          BY <1>1, <3>1 DEF Follows, Fresh
        <4>2. parents \in Seq(Txs) BY DEF IInv
        <4>3. ToSet(Append(parents, t)) \subseteq ToSet(parents) \cup {t} BY <4>2 DEF ToSet
        <4>4. ToSet(parents') \subseteq ToSet(parents) \cup {t} BY <2>5, <4>3
        <4> QED BY <3>7, <3>8, <4>1, <4>4
      <3>10. \A u \in ToSet(left) : ~ (Parents(u) \subseteq Waiting(pool, confirmed, due))
        BY <1>1, <2>13
      <3> QED BY <1>1, <3>1, <3>6, <3>8, <3>9, <3>10, FollowsOn
    <2>14. pool' = q BY <2>5, <2>6
    <2> QED BY <1>2, <2>11, <2>12, <2>13, <2>14 DEF GInv
  <1> QED BY <1>8, <1>9, <1>10, <1>11

\* A transaction spends something, so its parents are not all in an empty set.
LEMMA HasParents ==
  ASSUME NEW t \in Txs
  PROVE  Parents(t) # {}
  <1>1. PICK i : i \in Ins[t] BY MempoolAssumption
  <1>2. i.tx \in Parents(t) BY <1>1 DEF Parents
  <1> QED BY <1>2

\* Nothing waits when no block is being confirmed.
LEMMA NothingWaits ==
  ASSUME confirming = << >>
  PROVE  ToSet(confirming) = {} /\ Waiting(pool, confirmed, ToSet(confirming)) = {}
  BY DEF ToSet, Waiting

\* accept_tx keeps the graph, for a transaction submitted or for an orphan retried.
LEMMA AcceptGraph ==
  ASSUME NoSelfRivals, IInv, GInv, Submit \/ Retry
  PROVE  GInv'
  <1>1. CASE Submit
    <2>1. PICK t \in Txs : AcceptTx(t, << >>) BY <1>1 DEF Submit
    <2>2. confirming = << >> BY <1>1 DEF Submit, Quiet
    <2>3. << >> \in Seq(Txs) /\ ToSet(<< >>) = {} BY DEF ToSet
    <2>4. \A u \in ToSet(<< >>) \cup {t} :
             ~ (Parents(u) \subseteq Waiting(pool, confirmed, ToSet(confirming)))
      BY <2>2, <2>3, HasParents, NothingWaits
    <2>5. CASE ExpireAndRaise BY <2>5, RaiseGraph
    <2>6. CASE ~ ExpireAndRaise
      <3>1. PICK p : p = Unexpired OBVIOUS
      <3>2. Refuse(p, t, << >>) \/ KeepOrphan(p, t, << >>) \/ RefuseByPolicy(p, t, << >>)
            \/ Admit(p, t, << >>)
        BY <2>1, <2>6, <3>1 DEF AcceptTx
      <3> QED BY <2>3, <2>4, <3>1, <3>2, PathGraph
    <2> QED BY <2>5, <2>6
  <1>2. CASE Retry
    <2>1. retrying # << >> /\ retrying \in Seq(Txs) BY <1>2 DEF Retry, IInv
    <2>2. PICK t : t = Head(retrying) OBVIOUS
    <2>3. PICK left : left = Tail(retrying) OBVIOUS
    <2>4. t \in Txs /\ left \in Seq(Txs) BY <2>1, <2>2, <2>3
    <2>5. ToSet(left) \cup {t} \subseteq ToSet(retrying)
      <3>1. t = retrying[1] /\ 1 \in DOMAIN retrying BY <2>1, <2>2
      <3>2. \A k \in DOMAIN left : k + 1 \in DOMAIN retrying /\ left[k] = retrying[k + 1]
        BY <2>1, <2>3
      <3> QED BY <3>1, <3>2 DEF ToSet
    <2>6. forks = 0 => \A u \in ToSet(left) \cup {t} :
             ~ (Parents(u) \subseteq Waiting(pool, confirmed, ToSet(confirming)))
      BY <2>5 DEF GInv, Follows, Fresh
    <2>7. AcceptTx(t, left) BY <1>2, <2>2, <2>3 DEF Retry
    <2>8. CASE ExpireAndRaise BY <2>8, RaiseGraph
    <2>9. CASE ~ ExpireAndRaise
      <3>1. PICK p : p = Unexpired OBVIOUS
      <3>2. Refuse(p, t, left) \/ KeepOrphan(p, t, left) \/ RefuseByPolicy(p, t, left)
            \/ Admit(p, t, left)
        BY <2>7, <2>9, <3>1 DEF AcceptTx
      <3> QED BY <2>4, <2>6, <3>1, <3>2, PathGraph
    <2> QED BY <2>8, <2>9
  <1> QED BY <1>1, <1>2

\* The orphans popped for a parent wait for it, and it does not wait itself.
LEMMA PopGraph ==
  ASSUME IInv, GInv, PopDependents
  PROVE  GInv'
  <1>1. PICK waiting : /\ waiting = {o.tx : o \in {x \in ToSet(orphans) : Head(parents) \in x.missing}}
                       /\ retrying' \in SetToSeqs(waiting)
                       /\ orphans' = OrphanDrop(orphans, waiting)
    BY DEF PopDependents
  <1>2. /\ parents # << >> /\ parents' = Tail(parents) /\ parents \in Seq(Txs)
        /\ forks' = forks /\ confirmed' = confirmed /\ pool' = pool /\ confirming' = confirming
    BY DEF PopDependents, IInv
  <1>3. OrphansTrue(orphans') BY <1>1, OrphansStayTrue DEF IInv, GInv
  <1>4. ASSUME forks = 0 PROVE Follows(pool, confirmed, confirming, parents', retrying')
    <2>1. PICK wait : wait = Waiting(pool, confirmed, ToSet(confirming)) OBVIOUS
    <2>2. Follows(pool, confirmed, confirming, parents, retrying) BY <1>4 DEF GInv
    <2>3. Head(parents) \in ToSet(parents) /\ ToSet(parents') \subseteq ToSet(parents)
      <3>1. Head(parents) = parents[1] /\ 1 \in DOMAIN parents BY <1>2
      <3>2. \A k \in DOMAIN parents' : k + 1 \in DOMAIN parents /\ parents'[k] = parents[k + 1]
        BY <1>2
      <3> QED BY <3>1, <3>2 DEF ToSet
    <2>4. ToSet(parents) \cap wait = {} BY <2>1, <2>2 DEF Follows, Fresh
    <2>5. ToSet(retrying') \subseteq waiting
      <3>1. retrying' \in [1 .. Cardinality(waiting) -> waiting] BY <1>1 DEF SetToSeqs
      <3> QED BY <3>1 DEF ToSet
    <2>6. ASSUME NEW u \in waiting PROVE ~ (Parents(u) \subseteq wait)
      <3>1. PICK k \in DOMAIN orphans : orphans[k].tx = u /\ Head(parents) \in orphans[k].missing
        BY <1>1 DEF ToSet
      <3>2. Head(parents) \in Parents(u) BY <3>1 DEF GInv, OrphansTrue
      <3> QED BY <2>3, <2>4, <3>2
    <2>7. Fresh(wait, parents', retrying') BY <2>3, <2>4, <2>5, <2>6 DEF Fresh
    <2> QED BY <2>1, <2>2, <2>7 DEF Follows
  <1> QED BY <1>2, <1>3, <1>4 DEF GInv

\* confirm_block takes the transactions of a block out in their order.
LEMMA ConfirmGraph ==
  ASSUME IInv, GInv, ConfirmNext
  PROVE  GInv'
  <1>1. PICK t : t = Head(confirming) OBVIOUS
  <1>2. PICK queue : queue = confirming OBVIOUS
  <1>3. PICK rest : rest = Tail(queue) OBVIOUS
  <1>4. /\ queue # << >> /\ queue \in Seq(Txs) /\ confirming' = rest
        /\ pool' = RemoveEntries(pool, {t} \cap Entries) /\ parents' = <<t>> /\ retrying' = << >>
        /\ forks' = forks /\ confirmed' = confirmed /\ orphans' = orphans
    BY <1>1, <1>2, <1>3 DEF ConfirmNext, IInv
  <1>5. PICK r : r = RemoveEntries(pool, {t} \cap DOMAIN pool.entries) OBVIOUS
  <1>6. PoolGood(pool) /\ Related(pool) /\ Kin(pool) BY DEF IInv, PoolOK, GInv
  <1>7. PICK due : due = ToSet(queue) OBVIOUS
  <1>8. PICK left : left = ToSet(rest) OBVIOUS
  <1>9. /\ t = queue[1] /\ 1 \in DOMAIN queue
        /\ \A k \in DOMAIN rest : k + 1 \in DOMAIN queue /\ rest[k] = queue[k + 1]
        /\ \A k \in DOMAIN queue : k = 1 \/ (k - 1 \in DOMAIN rest /\ rest[k - 1] = queue[k])
    BY <1>1, <1>2, <1>3, <1>4
  <1>10. t \in due /\ left \in SUBSET due /\ due \ {t} \subseteq left
    <2>1. t \in due /\ left \in SUBSET due BY <1>7, <1>8, <1>9 DEF ToSet
    <2>2. ASSUME NEW u \in due, u # t PROVE u \in left
      <3>1. PICK k \in DOMAIN queue : queue[k] = u BY <1>7 DEF ToSet
      <3>2. k - 1 \in DOMAIN rest /\ rest[k - 1] = u BY <1>9, <2>2, <3>1
      <3> QED BY <1>8, <3>2 DEF ToSet
    <2> QED BY <2>1, <2>2
  <1>11. Related(r) /\ Kin(r)
    <2>1. PICK gone \in SUBSET DOMAIN pool.entries : gone = {t} \cap DOMAIN pool.entries OBVIOUS
    <2> QED BY <1>5, <1>6, <2>1, RemoveRelated
  <1>12. ASSUME forks = 0 PROVE Follows(r, confirmed, rest, <<t>>, << >>)
    <2>1. /\ Family(confirmed) /\ InOrder(queue, confirmed) /\ Whole(pool, confirmed, due)
      BY <1>2, <1>7, <1>12 DEF GInv, Follows
    <2>2. t \in Told(pool, Behind(pool, confirmed, due)) => pool.entries[t].anc = {}
      BY <1>1, <1>2, <1>4, <1>6, <1>7, <2>1, NextIsFirst
    <2>3. due \in SUBSET confirmed BY <1>7, <2>1 DEF InOrder
    <2>4. /\ Whole(r, confirmed, left)
          /\ Waiting(r, confirmed, left) \subseteq Waiting(pool, confirmed, due) \ {t}
      BY <1>5, <1>6, <1>10, <2>1, <2>2, <2>3, ConfirmWhole
    <2>5. InOrder(rest, confirmed)
      <3>1. ToSet(rest) \subseteq confirmed BY <1>8, <1>10, <2>3
      <3>2. ASSUME NEW i \in DOMAIN rest, NEW j \in DOMAIN rest, rest[i] \in Parents(rest[j])
            PROVE  i < j
        <4>1. i + 1 \in DOMAIN queue /\ j + 1 \in DOMAIN queue
              /\ queue[i + 1] \in Parents(queue[j + 1])
          BY <1>9, <3>2
        <4>2. i + 1 < j + 1 BY <2>1, <4>1 DEF InOrder
        <4>3. i \in Nat /\ j \in Nat BY <1>3, <1>4
        <4> QED BY <4>2, <4>3
      <3> QED BY <3>1, <3>2 DEF InOrder
    <2>6. ToSet(<<t>>) = {t} /\ ToSet(<< >>) = {} BY DEF ToSet
    <2>7. Fresh(Waiting(r, confirmed, left), <<t>>, << >>) BY <2>4, <2>6 DEF Fresh
    <2> QED BY <1>8, <2>1, <2>4, <2>5, <2>7 DEF Follows
  <1>13. pool' = r BY <1>4, <1>5 DEF Entries
  <1>14. OrphansTrue(orphans') BY <1>4 DEF GInv
  <1> QED BY <1>4, <1>11, <1>12, <1>13, <1>14 DEF GInv

\* A block on top of the chain: what the pool has of it is about to be confirmed.
LEMMA ExtendGraph ==
  ASSUME IInv, GInv, Extend
  PROVE  GInv'
  <1>1. PICK ts \in BlockSets(MaxBlock) :
           /\ ts \cap confirmed = {} /\ confirmed \cup ts \in Consistent
           /\ confirmed' = confirmed \cup ts
           /\ Confirm(BlockOrders(ts))
    BY DEF Extend
  <1>2. /\ confirming = << >> /\ parents = << >> /\ retrying = << >>
        /\ confirming' \in BlockOrders(ts) /\ forks' = forks
        /\ UNCHANGED <<pool, orphans, parents, retrying>>
    BY <1>1 DEF Extend, Quiet, Confirm
  <1>3. PICK queue : queue = confirming' OBVIOUS
  <1>4. PICK held : held = confirmed \cup ts OBVIOUS
  <1>5. PICK due : due = ToSet(queue) OBVIOUS
  <1>6. due \subseteq ts /\ \A i, j \in DOMAIN queue : queue[i] \in Parents(queue[j]) => i < j
    <2>1. queue \in SetToSeqs(ts)
          /\ \A i, j \in DOMAIN queue : queue[i] \in Parents(queue[j]) => i < j
      BY <1>2, <1>3 DEF BlockOrders
    <2>2. queue \in [1 .. Cardinality(ts) -> ts] BY <2>1 DEF SetToSeqs
    <2>3. due \subseteq ts BY <1>5, <2>2 DEF ToSet
    <2> QED BY <2>1, <2>3
  <1>7. ASSUME forks = 0 PROVE Follows(pool, held, queue, << >>, << >>)
    <2>1. ToSet(<< >>) = {} BY DEF ToSet
    <2>2. Whole(pool, confirmed, {}) BY <1>2, <1>7, <2>1 DEF GInv, Follows
    <2>3. PICK behind \in SUBSET DOMAIN pool.entries : behind = Behind(pool, confirmed, {})
      BY DEF Behind
    <2>4. PICK more \in SUBSET DOMAIN pool.entries : more = Behind(pool, held, due) BY DEF Behind
    <2>5. behind \in SUBSET more BY <1>1, <1>4, <1>6, <2>3, <2>4 DEF Behind
    <2>6. PoolGood(pool) /\ Related(pool) BY DEF IInv, PoolOK, GInv
    <2>7. Exact(pool, Told(pool, behind)) BY <2>2, <2>3 DEF Whole
    <2>8. Exact(pool, Told(pool, more)) BY <2>5, <2>6, <2>7, FewerExact
    <2>9. ParentsKnown(pool, held) BY <1>4, <2>2 DEF Whole, ParentsKnown
    <2>10. Whole(pool, held, due) BY <2>4, <2>8, <2>9 DEF Whole
    <2>11. Family(held) BY <1>1, <1>4 DEF Consistent, Family, Parents
    <2>12. InOrder(queue, held) BY <1>4, <1>5, <1>6 DEF InOrder
    <2>13. Fresh(Waiting(pool, held, due), << >>, << >>) BY <2>1 DEF Fresh
    <2> QED BY <1>5, <2>10, <2>11, <2>12, <2>13 DEF Follows
  <1> QED BY <1>1, <1>2, <1>3, <1>4, <1>7 DEF GInv

\* The empty pool has the graph of its transactions.
LEMMA InitGraph == Init => GInv
  <1> SUFFICES ASSUME Init PROVE GInv OBVIOUS
  <1> USE DEF Init
  <1>1. DOMAIN pool.entries = {} /\ DOMAIN orphans = {} OBVIOUS
  <1>2. Related(pool) /\ Kin(pool) /\ OrphansTrue(orphans) BY <1>1 DEF Related, Kin, OrphansTrue
  <1>3. ToSet(<< >>) = {} BY DEF ToSet
  <1>4. Whole(pool, {}, {}) BY <1>1 DEF Whole, ParentsKnown, Exact, Told
  <1>5. Family({}) /\ InOrder(<< >>, {}) BY <1>3 DEF Family, InOrder
  <1>6. Fresh(Waiting(pool, {}, {}), << >>, << >>) BY <1>3 DEF Fresh
  <1>7. Follows(pool, {}, << >>, << >>, << >>) BY <1>3, <1>4, <1>5, <1>6 DEF Follows
  <1> QED BY <1>2, <1>7 DEF GInv

\* Every step keeps the graph.
LEMMA StepGraph == NoSelfRivals /\ IInv /\ GInv /\ [Next]_vars => GInv'
  <1> SUFFICES ASSUME NoSelfRivals, IInv, GInv, [Next]_vars PROVE GInv' OBVIOUS
  <1>1. CASE Submit \/ Retry BY <1>1, AcceptGraph
  <1>2. CASE PopDependents BY <1>2, PopGraph
  <1>3. CASE ConfirmNext BY <1>3, ConfirmGraph
  <1>4. CASE Extend BY <1>4, ExtendGraph
  <1>5. CASE StoreSideBlock \/ SwitchBranch
    <2>1. /\ pool' = pool /\ orphans' = orphans /\ forks' = forks + 1
      BY <1>5 DEF StoreSideBlock, SwitchBranch, Confirm, Fork
    <2>2. forks' # 0 BY <2>1, MempoolAssumption DEF IInv
    <2> QED BY <2>1, <2>2 DEF GInv
  <1>6. CASE Tick \/ UNCHANGED vars
    <2>1. UNCHANGED <<forks, confirmed, pool, orphans, confirming, parents, retrying>>
      BY <1>6 DEF Tick, vars
    <2> QED BY <2>1 DEF GInv
  <1> QED BY <1>1, <1>2, <1>3, <1>4, <1>5, <1>6 DEF Next, Running

-----------------------------------------------------------------------------
(* What the lists are of *)

\* Exact lists hold the transitive ancestors: what is reached by going from parent
\* to parent as often as there are entries.
LEMMA ListsAreAncestors ==
  ASSUME NEW m, PoolGood(m), Related(m), NEW S, S = DOMAIN m.entries, Exact(m, S), NEW t \in S
  PROVE  TrueAncestors(S, t) = m.entries[t].anc
  <1>1. S \in SUBSET Txs /\ IsFiniteSet(S) BY MempoolAssumption, FS_Subset DEF PoolGood
  <1>2. PICK n \in Nat : n = Cardinality(S) + 1 /\ n \in 1 .. n BY <1>1, FS_CardinalityType
  <1> DEFINE step(W) == W \cup UNION {Parents(u) \cap S : u \in W}
             next == [W \in SUBSET S |-> step(W)]
             reach == CHOOSE g : g = [k \in 1 .. n |-> step(IF k = 1 THEN {t} ELSE g[k - 1])]
  <1>3. TrueAncestors(S, t) = reach[n] \ {t} BY <1>2 DEF TrueAncestors
  <1>4. \A W \in SUBSET S : /\ step(W) \in SUBSET S /\ W \subseteq step(W)
                           /\ \A u \in W : Parents(u) \cap S \subseteq step(W)
    OBVIOUS
  <1>5. next \in [SUBSET S -> SUBSET S] /\ \A W \in SUBSET S : next[W] = step(W) BY <1>4
  <1>6. {t} \in SUBSET S /\ {t} # {} OBVIOUS
  <1>7. \A W \in SUBSET S, X \in SUBSET S :
           (\A u \in X : Parents(u) \cap S \subseteq W) /\ X \subseteq W => step(X) \subseteq W
    OBVIOUS
  <1> HIDE DEF step, next
  <1>8. PICK f : Repeats(f, n, SUBSET S, {t}, next) BY <1>5, <1>6, RepeatExists
  <1>9. f \in [1 .. n -> SUBSET S] BY <1>5, <1>6, <1>8, RepeatExists
  <1>10. f = [k \in 1 .. n |-> step(IF k = 1 THEN {t} ELSE f[k - 1])]
    <2>1. ASSUME NEW k \in 1 .. n PROVE f[k] = step(IF k = 1 THEN {t} ELSE f[k - 1])
      <3>1. CASE k = 1
        <4>1. f[k] = next[{t}] BY <1>6, <1>8, <3>1 DEF Repeats
        <4> QED BY <1>5, <1>6, <3>1, <4>1
      <3>2. CASE k # 1
        <4>1. k - 1 \in 1 .. n BY <3>2
        <4>2. f[k - 1] \in SUBSET S BY <1>9, <4>1
        <4>3. f[k] = next[f[k - 1]] BY <1>8, <3>2, <4>2 DEF Repeats
        <4> QED BY <1>5, <3>2, <4>2, <4>3
      <3> QED BY <3>1, <3>2
    <2> QED BY <1>9, <2>1
  <1>11. reach = [k \in 1 .. n |-> step(IF k = 1 THEN {t} ELSE reach[k - 1])] BY <1>10
  <1> HIDE DEF reach
  <1>12. Repeats(reach, n, SUBSET S, {t}, next)
    <2>1. \A k \in 1 .. n : reach[k] = step(IF k = 1 THEN {t} ELSE reach[k - 1]) BY <1>11
    <2>2. reach = [k \in 1 .. n |-> reach[k]] BY <1>11
    <2>3. ASSUME NEW k \in 1 .. n, NEW last, last = (IF k = 1 THEN {t} ELSE reach[k - 1]),
                 last \in SUBSET S
          PROVE  reach[k] = next[last]
      BY <1>5, <2>1, <2>3
    <2> QED BY <2>2, <2>3 DEF Repeats
  <1>13. PICK all : all = reach[n] OBVIOUS
  <1>14. Widens(next, S) BY <1>4, <1>5 DEF Widens
  <1>15. all \in SUBSET S /\ {t} \subseteq all /\ next[all] = all
    BY <1>1, <1>2, <1>6, <1>12, <1>13, <1>14, RepeatSettles
  <1>16. \A u \in all : Parents(u) \cap S \subseteq all BY <1>4, <1>5, <1>15
  <1>17. all \subseteq {t} \cup m.entries[t].anc
    <2>1. PICK W : W = {t} \cup m.entries[t].anc OBVIOUS
    <2>2. W \in SUBSET S BY <2>1 DEF PoolGood
    <2>3. ASSUME NEW u \in W PROVE Parents(u) \cap S \subseteq W
      <3>1. Parents(u) \cap S \subseteq m.entries[u].anc BY <2>2 DEF Exact
      <3>2. m.entries[u].anc \subseteq m.entries[t].anc BY <2>1, <2>3 DEF Related
      <3> QED BY <2>1, <3>1, <3>2
    <2>4. Confined(next, W)
      <3>1. ASSUME NEW X \in SUBSET W PROVE next[X] \subseteq W
        <4>1. X \in SUBSET S BY <2>2
        <4>2. step(X) \subseteq W BY <1>7, <2>2, <2>3, <4>1
        <4> QED BY <1>5, <4>1, <4>2
      <3> QED BY <3>1 DEF Confined
    <2>5. {t} \subseteq W BY <2>1
    <2>6. all \subseteq W
      BY <1>2, <1>6, <1>12, <1>13, <1>14, <2>2, <2>4, <2>5, RepeatStays
    <2> QED BY <2>1, <2>6
  <1>18. m.entries[t].anc \subseteq all
    <2> DEFINE Bad == {W \in SUBSET S : \E u \in all : W = m.entries[u].anc /\ ~ (W \subseteq all)}
    <2>1. \A u \in all : m.entries[u].anc \in SUBSET S BY <1>15 DEF PoolGood
    <2>2. SUFFICES ASSUME Bad # {} PROVE FALSE BY <1>15, <2>1
    <2>3. Bad \in SUBSET SUBSET S
          /\ \A W \in SUBSET S : W \in Bad <=> \E u \in all : W = m.entries[u].anc /\ ~ (W \subseteq all)
      OBVIOUS
    <2> HIDE DEF Bad
    <2>4. PICK A \in Bad : \A B \in Bad : B \subseteq A => B = A BY <1>1, <2>2, <2>3, LeastSet
    <2>5. PICK u \in all : A = m.entries[u].anc /\ ~ (A \subseteq all) BY <2>3, <2>4
    <2>6. PICK a \in A : a \notin all BY <2>5
    <2>7. a \in S BY <2>3, <2>4, <2>6
    <2>8. a \notin Parents(u) BY <1>16, <2>5, <2>6, <2>7
    <2>9. PICK p \in Parents(u) \cap S : a \in m.entries[p].anc
      BY <1>15, <2>5, <2>6, <2>8 DEF Exact
    <2>10. p \in all BY <1>16, <2>5, <2>9
    <2>11. p \in A BY <1>15, <2>5, <2>9 DEF Exact
    <2>12. m.entries[p].anc \subseteq A BY <1>15, <2>5, <2>11 DEF Related
    <2>13. m.entries[p].anc \in Bad BY <2>1, <2>3, <2>6, <2>9, <2>10
    <2>14. m.entries[p].anc = A BY <2>4, <2>12, <2>13
    <2>15. p \notin m.entries[p].anc BY <2>9 DEF PoolGood
    <2> QED BY <2>11, <2>14, <2>15
  <1>19. t \notin m.entries[t].anc BY DEF PoolGood
  <1> QED BY <1>3, <1>13, <1>15, <1>17, <1>18, <1>19

\* While the pool follows the chain, every list is complete.
LEMMA ListsComplete ==
  ASSUME IInv, GInv, Undisturbed
  PROVE  PoolGood(pool) /\ Related(pool) /\ Exact(pool, Entries)
  <1>1. PoolGood(pool) /\ Related(pool) BY DEF IInv, PoolOK, GInv
  <1>2. Whole(pool, confirmed, ToSet(confirming)) BY DEF GInv, Follows, Undisturbed
  <1>3. Behind(pool, confirmed, ToSet(confirming)) = {}
    BY DEF Undisturbed, LeftBehind, Behind, Entries
  <1>4. Told(pool, {}) = Entries BY DEF Told, WithDescendants, Entries
  <1> QED BY <1>1, <1>2, <1>3, <1>4 DEF Whole

\* In a pool that was told all of the chain the lists are those of the graph.
LEMMA GraphTrue ==
  ASSUME IInv, GInv, Undisturbed
  PROVE  /\ \A t \in Entries : TrueAncestors(Entries, t) = pool.entries[t].anc
         /\ \A t \in Entries : pool.entries[t].desc = {u \in Entries : t \in pool.entries[u].anc}
  <1>1. PoolGood(pool) /\ Related(pool) BY ListsComplete
  <1>2. Exact(pool, Entries) BY ListsComplete
  <1>3. PICK S : S = DOMAIN pool.entries /\ S = Entries BY DEF Entries
  <1>4. ASSUME NEW t \in Entries PROVE TrueAncestors(Entries, t) = pool.entries[t].anc
    BY <1>1, <1>2, <1>3, ListsAreAncestors
  <1>5. ASSUME NEW t \in Entries
        PROVE  pool.entries[t].desc = {u \in Entries : t \in pool.entries[u].anc}
    <2>1. pool.entries[t].desc \subseteq Entries BY <1>1 DEF PoolGood, Entries
    <2>2. \A u \in Entries : u \in pool.entries[t].desc <=> t \in pool.entries[u].anc
      BY <1>1 DEF Related, Entries
    <2> QED BY <2>1, <2>2
  <1> QED BY <1>4, <1>5

\* Only an admission brings a transaction into the pool.
LEMMA NewcomerAdmitted ==
  ASSUME IInv, [Next]_vars, NEW t \in Entries' \ Entries
  PROVE  t \in Txs /\ Admissible(Unexpired, t)
  <1>1. ASSUME NEW m, NEW gone, NEW r, r = RemoveEntries(m, gone)
        PROVE  DOMAIN r.entries = DOMAIN m.entries \ gone
    BY <1>1 DEF RemoveEntries
  <1>2. ASSUME NEW u \in Txs, NEW left, AcceptTx(u, left)
        PROVE  t = u /\ Admissible(Unexpired, t)
    <2>1. PICK p : p = Unexpired OBVIOUS
    <2>2. DOMAIN p.entries \subseteq Entries BY <1>1, <2>1 DEF Unexpired, Entries
    <2>3. ~ ExpireAndRaise
      <3>1. ASSUME NEW done, pool' = RemoveEntries(pool, WithDescendants(pool, done)) PROVE FALSE
        <4>1. PICK r : r = RemoveEntries(pool, WithDescendants(pool, done)) OBVIOUS
        <4>2. DOMAIN r.entries \subseteq DOMAIN pool.entries BY <1>1, <4>1
        <4>3. pool' = r BY <3>1, <4>1
        <4> QED BY <4>2, <4>3 DEF Entries
      <3> QED BY <3>1 DEF ExpireAndRaise
    <2>4. pool' # p BY <2>2 DEF Entries
    <2>5. Admit(p, u, left)
      BY <1>2, <2>1, <2>3, <2>4 DEF AcceptTx, Refuse, KeepOrphan, RefuseByPolicy
    <2>6. PICK r : r = RemoveEntries(p, Evicted(p, u)) OBVIOUS
    <2>7. PICK added : added = Insert(r, u, Ancestors(p, u, Evicted(p, u))) OBVIOUS
    <2>8. PICK q : q = RemoveEntries(added, UNION ToSet(Trimmed(added))) OBVIOUS
    <2>9. pool' = q /\ Admissible(p, u) BY <2>5, <2>6, <2>7, <2>8 DEF Admit
    <2>10. DOMAIN added.entries = DOMAIN r.entries \cup {u} BY <2>7 DEF Insert
    <2>11. DOMAIN q.entries \subseteq DOMAIN p.entries \cup {u} BY <1>1, <2>6, <2>8, <2>10
    <2>12. t = u BY <2>2, <2>9, <2>11 DEF Entries
    <2> QED BY <2>1, <2>9, <2>12
  <1>3. CASE Submit BY <1>2, <1>3 DEF Submit
  <1>4. CASE Retry
    <2>1. Head(retrying) \in Txs BY <1>4 DEF Retry, IInv
    <2> QED BY <1>2, <1>4, <2>1 DEF Retry
  <1>5. CASE ConfirmNext
    <2>1. PICK r : r = RemoveEntries(pool, {Head(confirming)} \cap Entries) OBVIOUS
    <2>2. pool' = r BY <1>5, <2>1 DEF ConfirmNext
    <2> QED BY <1>1, <2>1, <2>2 DEF Entries
  <1>6. CASE PopDependents \/ Extend \/ StoreSideBlock \/ SwitchBranch \/ Tick \/ UNCHANGED vars
    <2>1. pool' = pool
      BY <1>6 DEF PopDependents, Extend, StoreSideBlock, SwitchBranch, Tick, Confirm, vars
    <2> QED BY <2>1 DEF Entries
  <1> QED BY <1>3, <1>4, <1>5, <1>6 DEF Next, Running

\* What the code evicts for a candidate are the rivals of it that have not expired,
\* with all that descends from them.
LEMMA RivalsFound ==
  ASSUME IInv, GInv, Undisturbed, NEW t \in Txs
  PROVE  /\ Rivals(t) = Conflicts(Unexpired, t)
         /\ Replaced(t) = Evicted(Unexpired, t)
         /\ \A u \in Rivals(t) : /\ u \in Entries
                                 /\ Unexpired.entries[u].anc \subseteq pool.entries[u].anc
  <1>1. PoolGood(pool) /\ Related(pool) BY DEF IInv, PoolOK, GInv
  <1>2. PICK gone : gone = WithDescendants(pool, Expired) OBVIOUS
  <1>3. PICK p : p = Unexpired OBVIOUS
  <1>4. Expired \in SUBSET DOMAIN pool.entries BY DEF Expired, Entries
  <1>5. gone \in SUBSET DOMAIN pool.entries BY <1>1, <1>2, <1>4, DescendantsListed
  <1>6. p = RemoveEntries(pool, gone) BY <1>2, <1>3 DEF Unexpired
  <1>7. /\ PoolGood(p) /\ DOMAIN p.entries = DOMAIN pool.entries \ gone
        /\ \A u \in DOMAIN p.entries : /\ p.entries[u].anc = pool.entries[u].anc \ gone
                                       /\ p.entries[u].desc = pool.entries[u].desc \ gone
    BY <1>1, <1>5, <1>6, RemoveKeeps
  <1>8. \A u \in Entries : TrueAncestors(Entries, u) = pool.entries[u].anc BY GraphTrue
  <1>9. ASSUME NEW u \in Entries PROVE u \in Standing <=> u \in DOMAIN p.entries
    <2>1. u \in gone <=> u \in Expired \/ \E s \in Expired : u \in pool.entries[s].desc
      BY <1>2 DEF WithDescendants
    <2>2. \A s \in Expired : u \in pool.entries[s].desc <=> s \in pool.entries[u].anc
      BY <1>1, <1>4 DEF Related, Entries
    <2>3. u \in Standing <=> ({u} \cup pool.entries[u].anc) \cap Expired = {} BY <1>8 DEF Standing
    <2> QED BY <1>7, <2>1, <2>2, <2>3 DEF Entries
  <1>10. Standing = DOMAIN p.entries BY <1>7, <1>9 DEF Standing, Entries
  <1>11. DOMAIN p.entries \in SUBSET Txs BY <1>7 DEF PoolGood
  <1>12. Rivals(t) = Conflicts(p, t)
    <2>1. ASSUME NEW u \in Rivals(t) PROVE u \in Conflicts(p, t)
      <3>1. PICK i : i \in Ins[u] /\ i \in Ins[t] BY DEF Rivals
      <3>2. u \in DOMAIN p.entries BY <1>10 DEF Rivals
      <3>3. i \in DOMAIN p.spends BY <1>7, <1>11, <3>1, <3>2 DEF PoolGood, Inputs
      <3>4. p.spends[i] = u BY <1>7, <3>1, <3>2 DEF PoolGood
      <3> QED BY <3>1, <3>3, <3>4 DEF Conflicts
    <2>2. ASSUME NEW u \in Conflicts(p, t) PROVE u \in Rivals(t)
      <3>1. PICK i \in Ins[t] : i \in DOMAIN p.spends /\ p.spends[i] = u BY DEF Conflicts
      <3>2. i \in Inputs[DOMAIN p.entries] BY <1>7, <3>1 DEF PoolGood
      <3>3. PICK v \in DOMAIN p.entries : i \in Ins[v] BY <1>11, <3>2 DEF Inputs
      <3>4. v = u BY <1>7, <3>1, <3>3 DEF PoolGood
      <3> QED BY <1>10, <3>1, <3>3, <3>4 DEF Rivals
    <2> QED BY <2>1, <2>2
  <1>13. Rivals(t) \subseteq DOMAIN p.entries BY <1>10 DEF Rivals
  <1>14. Replaced(t) = Evicted(p, t)
    <2>1. PICK rivals : rivals = Rivals(t) OBVIOUS
    <2>2. ASSUME NEW u \in DOMAIN p.entries
          PROVE  u \in Replaced(t) <=> u \in WithDescendants(p, rivals)
      <3>1. u \in Entries BY <1>7 DEF Entries
      <3>2. u \in Replaced(t) <=> ({u} \cup pool.entries[u].anc) \cap rivals # {}
        BY <1>8, <1>10, <2>1, <3>1 DEF Replaced
      <3>3. u \in WithDescendants(p, rivals) <=> u \in rivals \/ \E s \in rivals : u \in p.entries[s].desc
        BY DEF WithDescendants
      <3>4. ASSUME NEW s \in rivals PROVE u \in p.entries[s].desc <=> s \in pool.entries[u].anc
        <4>1. s \in DOMAIN p.entries /\ s \in DOMAIN pool.entries /\ u \in DOMAIN pool.entries
          BY <1>7, <1>13, <2>1
        <4>2. u \in p.entries[s].desc <=> u \in pool.entries[s].desc BY <1>7, <4>1
        <4> QED BY <1>1, <4>1, <4>2 DEF Related
      <3> QED BY <3>2, <3>3, <3>4
    <2>3. Replaced(t) \subseteq DOMAIN p.entries BY <1>10 DEF Replaced
    <2>4. WithDescendants(p, rivals) \in SUBSET DOMAIN p.entries
      <3>1. rivals \in SUBSET DOMAIN p.entries BY <1>13, <2>1
      <3> QED BY <1>7, <3>1, DescendantsListed
    <2>5. Replaced(t) = WithDescendants(p, rivals) BY <2>2, <2>3, <2>4
    <2> QED BY <1>12, <2>1, <2>5 DEF Evicted
  <1>15. \A u \in Rivals(t) : u \in Entries /\ p.entries[u].anc \subseteq pool.entries[u].anc
    BY <1>7, <1>13 DEF Entries
  <1> QED BY <1>3, <1>12, <1>14, <1>15

-----------------------------------------------------------------------------
(* Block templates *)

\* Weights adds the weights of a set of transactions.
LEMMA WeightsAdds ==
  Adds(Txs, [t \in Txs |-> Weight[t]], Weights)
  <1> DEFINE w == [t \in Txs |-> Weight[t]]
  <1>1. w \in [Txs -> Nat] BY MempoolAssumption
  <1>2. \A t \in Txs : w[t] = Weight[t] OBVIOUS
  <1> HIDE DEF w
  <1>3. IsFiniteSet(Txs) BY MempoolAssumption
  <1>4. PICK sum : Adds(Txs, w, sum) BY <1>1, <1>3, SumExists
  <1>5. ASSUME NEW ts \in SUBSET Txs PROVE MapThenSumSet(LAMBDA t : Weight[t], ts) = sum[ts]
    <2> DEFINE iter == CHOOSE g : g = [s \in SUBSET ts |->
                  IF s = {} THEN 0 ELSE Weight[CHOOSE x \in s : TRUE] + g[s \ {CHOOSE x \in s : TRUE}]]
    <2>1. MapThenSumSet(LAMBDA t : Weight[t], ts) = iter[ts] BY DEF MapThenSumSet, MapThenFoldSet
    <2>2. PICK g : Iterates(g, ts, w) BY <1>1, <1>3, <1>4, SumIterates
    <2>3. \A s \in SUBSET ts : s # {} => w[CHOOSE x \in s : TRUE] = Weight[CHOOSE x \in s : TRUE]
      BY <1>2
    <2>4. g = [s \in SUBSET ts |->
                  IF s = {} THEN 0 ELSE Weight[CHOOSE x \in s : TRUE] + g[s \ {CHOOSE x \in s : TRUE}]]
      BY <2>2, <2>3 DEF Iterates
    <2>5. iter = [s \in SUBSET ts |->
                  IF s = {} THEN 0 ELSE Weight[CHOOSE x \in s : TRUE] + iter[s \ {CHOOSE x \in s : TRUE}]]
      BY <2>4
    <2> HIDE DEF iter
    <2>6. Iterates(iter, ts, w) BY <2>3, <2>5 DEF Iterates
    <2>7. iter[ts] = sum[ts] BY <1>1, <1>3, <1>4, <2>6, SumIterates
    <2> QED BY <2>1, <2>7
  <1>6. Weights = sum
    <2>1. sum \in [SUBSET Txs -> Nat] BY <1>4 DEF Adds
    <2> QED BY <1>5, <2>1 DEF Weights
  <1> QED BY <1>4, <1>6 DEF w

\* The weight of a template is that of its transactions.
LEMMA WeightOfList ==
  ASSUME NEW r \in Seq(Txs), Apart(r)
  PROVE  FoldLeft(LAMBDA w, t : w + Weight[t], 0, r) = Weights[ToSet(r)]
  <1> DEFINE u == [t \in Txs |-> Weight[t]]
             iter == CHOOSE g : g = [s \in SUBSET DOMAIN r |->
                        IF s = {} THEN 0 ELSE g[s \ {Max(s)}] + Weight[r[Max(s)]]]
  <1>1. FoldLeft(LAMBDA w, t : w + Weight[t], 0, r) = iter[DOMAIN r]
    BY DEF FoldLeft, MapThenFoldSet
  <1>2. u \in [Txs -> Nat] /\ \A t \in Txs : u[t] = Weight[t] BY MempoolAssumption
  <1>3. Adds(Txs, u, Weights) BY WeightsAdds
  <1> HIDE DEF u
  <1>4. /\ \E g : Totals(g, r, u)
        /\ \A g : Totals(g, r, u) => g[DOMAIN r] = Weights[{r[k] : k \in DOMAIN r}]
    BY <1>2, <1>3, FoldAdds
  <1>5. PICK g : Totals(g, r, u) BY <1>4
  <1>6. ASSUME NEW s \in SUBSET DOMAIN r, s # {} PROVE u[r[Max(s)]] = Weight[r[Max(s)]]
    <2>1. PICK n \in Nat : n = Len(r) /\ DOMAIN r = 1 .. n OBVIOUS
    <2>2. s \in SUBSET Nat /\ \A m \in s : m <= n BY <2>1
    <2>3. Max(s) \in s BY <1>6, <2>1, <2>2, MaxIsGreatest
    <2>4. r[Max(s)] \in Txs BY <2>3
    <2> QED BY <1>2, <2>4
  <1>7. g = [s \in SUBSET DOMAIN r |->
                IF s = {} THEN 0 ELSE g[s \ {Max(s)}] + Weight[r[Max(s)]]]
    BY <1>5, <1>6 DEF Totals
  <1>8. iter = [s \in SUBSET DOMAIN r |->
                IF s = {} THEN 0 ELSE iter[s \ {Max(s)}] + Weight[r[Max(s)]]]
    BY <1>7
  <1> HIDE DEF iter
  <1>9. Totals(iter, r, u) BY <1>6, <1>8 DEF Totals
  <1> QED BY <1>1, <1>4, <1>9 DEF ToSet

\* Before is a strict and total order of the entries.
Earlier(ts) == {x \in ts \X ts : Before(x[1], x[2])}

LEMMA BeforeOrders ==
  ASSUME PoolGood(pool), NEW ts \in SUBSET Entries
  PROVE  Orders(Earlier(ts), ts) /\ \A t, u \in ts : <<t, u>> \in Earlier(ts) <=> Before(t, u)
  <1>1. \A t, u \in ts : <<t, u>> \in Earlier(ts) <=> Before(t, u) BY DEF Earlier
  <1> DEFINE n(t) == Cardinality(pool.entries[t].anc)
             a(t) == pool.entries[t].arrival
  <1>2. ASSUME NEW t \in ts PROVE t \in Txs /\ n(t) \in Nat /\ a(t) \in Nat /\ Rank[t] \in Nat
    <2>1. t \in DOMAIN pool.entries BY DEF Entries
    <2>2. t \in Txs /\ pool.entries[t] \in Entry BY <2>1 DEF PoolGood
    <2>3. pool.entries[t].anc \in SUBSET Txs /\ pool.entries[t].arrival \in Nat BY <2>2 DEF Entry
    <2>4. IsFiniteSet(pool.entries[t].anc) BY <2>3, MempoolAssumption, FS_Subset
    <2> QED BY <2>2, <2>3, <2>4, FS_CardinalityType, MempoolAssumption
  <1>3. ASSUME NEW t \in ts, NEW u \in ts
        PROVE  Before(t, u) <=>
                  \/ n(t) < n(u)
                  \/ /\ n(t) = n(u)
                     /\ a(t) < a(u) \/ (a(t) = a(u) /\ Rank[t] < Rank[u])
    BY DEF Before
  <1>4. \A t, u \in ts : Rank[t] = Rank[u] => t = u BY <1>2, MempoolAssumption
  <1> HIDE DEF n, a
  <1>5. \A t \in ts : ~ Before(t, t) BY <1>2, <1>3
  <1>6. ASSUME NEW t \in ts, NEW u \in ts PROVE t = u \/ Before(t, u) \/ Before(u, t)
    <2>1. PICK i \in Nat, j \in Nat, k \in Nat : i = n(t) /\ j = a(t) /\ k = Rank[t] BY <1>2
    <2>2. PICK p \in Nat, q \in Nat, r \in Nat : p = n(u) /\ q = a(u) /\ r = Rank[u] BY <1>2
    <2>3. \/ k = r \/ i < p \/ (i = p /\ (j < q \/ (j = q /\ k < r)))
          \/ p < i \/ (p = i /\ (q < j \/ (q = j /\ r < k)))
      OBVIOUS
    <2>4. k = r => t = u BY <1>4, <2>1, <2>2
    <2>5. i < p \/ (i = p /\ (j < q \/ (j = q /\ k < r))) => Before(t, u) BY <1>3, <2>1, <2>2
    <2>6. p < i \/ (p = i /\ (q < j \/ (q = j /\ r < k))) => Before(u, t) BY <1>3, <2>1, <2>2
    <2> QED BY <2>3, <2>4, <2>5, <2>6
  <1>7. ASSUME NEW t \in ts, NEW u \in ts, NEW v \in ts, Before(t, u), Before(u, v)
        PROVE  Before(t, v)
    BY <1>2, <1>3, <1>7
  <1> QED BY <1>1, <1>5, <1>6, <1>7 DEF Orders

\* Ordered lists a set of entries in this order.
LEMMA OrderedLists ==
  ASSUME PoolGood(pool), NEW ts \in SUBSET Entries
  PROVE  Lists(Ordered(ts), ts, Earlier(ts))
  <1>1. IsFiniteSet(ts)
    <2>1. ts \in SUBSET Txs BY DEF PoolGood, Entries
    <2> QED BY <2>1, MempoolAssumption, FS_Subset
  <1>2. PICK R : R = Earlier(ts) OBVIOUS
  <1>3. Orders(R, ts) /\ \A t, u \in ts : <<t, u>> \in R <=> Before(t, u) BY <1>2, BeforeOrders
  <1>4. \A t \in ts : Place(R, ts, t) = Cardinality({u \in ts : Before(u, t)}) BY <1>3 DEF Place
  <1> DEFINE at(k) == CHOOSE t \in ts : Cardinality({u \in ts : Before(u, t)}) = k - 1
             placed(k) == CHOOSE t \in ts : Place(R, ts, t) = k - 1
  <1>5. ASSUME NEW k PROVE at(k) = placed(k) BY <1>4
  <1>6. Ordered(ts) = [k \in 1 .. Cardinality(ts) |-> at(k)] BY DEF Ordered
  <1> HIDE DEF at, placed
  <1>7. Ordered(ts) = [k \in 1 .. Cardinality(ts) |-> placed(k)] BY <1>5, <1>6
  <1>8. PICK r : r = Ordered(ts) OBVIOUS
  <1>9. r = [k \in 1 .. Cardinality(ts) |-> CHOOSE t \in ts : Place(R, ts, t) = k - 1]
    BY <1>7, <1>8 DEF placed
  <1>10. Lists(r, ts, R) BY <1>1, <1>3, <1>9, PlacesList
  <1> QED BY <1>2, <1>8, <1>10

\* What is taken with an entry has its parents in the pool taken before it.
LEMMA PackageFollows ==
  ASSUME PoolGood(pool), Related(pool), Exact(pool, Entries),
         NEW taken \in SUBSET Entries, NEW t \in Entries \ taken,
         NEW ts, ts = Package(t, taken)
  PROVE  /\ ts \in SUBSET (Entries \ taken) /\ t \in ts
         /\ \A u \in ts : \A p \in Parents(u) \cap Entries :
               p \in taken \/ (p \in ts /\ Before(p, u))
  <1> DEFINE anc(u) == pool.entries[u].anc
  <1>1. \A u \in Entries : u \in Txs /\ anc(u) \in SUBSET Entries /\ u \notin anc(u)
    BY DEF PoolGood, Entries
  <1>2. \A u \in Entries : Parents(u) \cap Entries \subseteq anc(u) BY DEF Exact
  <1>3. \A u \in Entries : \A a \in anc(u) : anc(a) \subseteq anc(u) BY DEF Related, Entries
  <1>4. ts = {t} \cup (anc(t) \ taken) BY DEF Package
  <1> HIDE DEF anc
  <1>5. ts \in SUBSET (Entries \ taken) /\ t \in ts BY <1>1, <1>4
  <1>6. ASSUME NEW u \in ts, NEW p \in Parents(u) \cap Entries, p \notin taken
        PROVE  p \in ts /\ Before(p, u)
    <2>1. p \in anc(u) /\ u \in Entries /\ p \in Entries BY <1>2, <1>5, <1>6
    <2>2. p \in anc(t) BY <1>3, <1>4, <1>6, <2>1
    <2>3. PICK A : A = anc(p) OBVIOUS
    <2>4. PICK B \in SUBSET Txs : B = anc(u) BY <1>1, <2>1
    <2>5. A \in SUBSET B /\ p \in B /\ p \notin A BY <1>1, <1>3, <2>1, <2>3, <2>4
    <2>6. IsFiniteSet(B) BY MempoolAssumption, FS_Subset
    <2>7. IsFiniteSet(A) /\ Cardinality(A) <= Cardinality(B) /\ Cardinality(A) # Cardinality(B)
      BY <2>5, <2>6, FS_Subset
    <2>8. Cardinality(A) \in Nat /\ Cardinality(B) \in Nat BY <2>6, <2>7, FS_CardinalityType
    <2>9. Cardinality(A) < Cardinality(B) BY <2>7, <2>8
    <2>10. Cardinality(pool.entries[p].anc) < Cardinality(pool.entries[u].anc)
      BY <2>3, <2>4, <2>9 DEF anc
    <2>11. Before(p, u) BY <2>10 DEF Before
    <2> QED BY <1>4, <1>6, <2>2, <2>11
  <1> QED BY <1>5, <1>6

\* r is what a template adds to the entries it has taken.
Continues(r, taken) ==
    /\ r \in Seq(Entries \ taken) /\ Apart(r)
    /\ \A i \in DOMAIN r : \A p \in Parents(r[i]) \cap Entries :
          p \in taken \/ \E j \in DOMAIN r : j < i /\ r[j] = p
    /\ Weights[taken] <= MaxBlockWeight => Weights[taken \cup ToSet(r)] <= MaxBlockWeight

\* A package in order, and what is added to it, are such.
LEMMA PackageContinues ==
  ASSUME PoolGood(pool), NEW taken \in SUBSET Entries, NEW ts \in SUBSET (Entries \ taken),
         \A u \in ts : \A p \in Parents(u) \cap Entries :
               p \in taken \/ (p \in ts /\ Before(p, u)),
         Weights[taken \cup ts] <= MaxBlockWeight,
         NEW b, Continues(b, taken \cup ts), NEW r, r = Ordered(ts) \o b
  PROVE  Continues(r, taken)
  <1>1. PICK a : a = Ordered(ts) OBVIOUS
  <1>2. PICK R : R = Earlier(ts) OBVIOUS
  <1>3. Lists(a, ts, R) /\ Orders(R, ts) /\ \A t, u \in ts : <<t, u>> \in R <=> Before(t, u)
    <2>1. ts \in SUBSET Entries OBVIOUS
    <2> QED BY <1>1, <1>2, <2>1, OrderedLists, BeforeOrders
  <1>4. PICK left : left = Entries \ taken OBVIOUS
  <1>5. a \in Seq(ts) /\ a \in Seq(left) /\ b \in Seq(left \ ts) /\ b \in Seq(left)
    <2>1. a \in Seq(ts) BY <1>3 DEF Lists
    <2>2. b \in Seq(left \ ts)
      <3>1. Entries \ (taken \cup ts) = left \ ts BY <1>4
      <3> QED BY <3>1 DEF Continues
    <2>3. \A x \in ts : x \in left BY <1>4
    <2> QED BY <2>1, <2>2, <2>3
  <1>6. PICK l \in Nat : l = Len(a) /\ DOMAIN a = 1 .. l BY <1>5
  <1>7. PICK m \in Nat : m = Len(b) /\ DOMAIN b = 1 .. m BY <1>5
  <1>8. /\ r \in Seq(left) /\ DOMAIN r = 1 .. l + m
        /\ \A i \in 1 .. l : r[i] = a[i]
        /\ \A i \in 1 .. m : r[l + i] = b[i]
    <2>1. r = a \o b /\ r \in Seq(left) BY <1>1, <1>5
    <2>2. Len(r) = l + m /\ DOMAIN r = 1 .. Len(r) BY <1>5, <1>6, <1>7, <2>1
    <2>3. \A i \in 1 .. l + m : r[i] = IF i <= l THEN a[i] ELSE b[i - l]
      BY <1>5, <1>6, <1>7, <2>1
    <2>4. \A i \in 1 .. l : i \in 1 .. l + m /\ i <= l BY <1>6, <1>7
    <2>5. \A i \in 1 .. m : l + i \in 1 .. l + m /\ ~ (l + i <= l) /\ (l + i) - l = i
      BY <1>6, <1>7
    <2>6. \A i \in 1 .. l : r[i] = a[i] BY <2>3, <2>4
    <2>7. \A i \in 1 .. m : r[l + i] = b[i] BY <2>3, <2>5
    <2> QED BY <2>1, <2>2, <2>6, <2>7
  <1>9. ASSUME NEW i \in 1 .. l + m
        PROVE  \/ i \in 1 .. l /\ r[i] = a[i] /\ r[i] \in ts
               \/ \E k \in 1 .. m : i = l + k /\ r[i] = b[k] /\ r[i] \in left \ ts
    <2>1. CASE i <= l
      <3>1. i \in 1 .. l BY <1>6, <2>1
      <3> QED BY <1>5, <1>6, <1>8, <3>1
    <2>2. CASE ~ (i <= l)
      <3>1. i - l \in 1 .. m /\ i = l + (i - l) BY <1>6, <1>7, <2>2
      <3>2. PICK k \in 1 .. m : i = l + k BY <3>1
      <3>3. b[k] \in left \ ts BY <1>5, <1>7
      <3> QED BY <1>8, <3>2, <3>3
    <2> QED BY <2>1, <2>2
  <1>10. \A i, j \in 1 .. l : i < j => Before(a[i], a[j]) /\ a[i] # a[j]
    <2>1. \A i, j \in 1 .. l : i < j => <<a[i], a[j]>> \in R /\ a[i] # a[j] BY <1>3, <1>6 DEF Lists
    <2>2. \A i \in 1 .. l : a[i] \in ts BY <1>5, <1>6
    <2> QED BY <1>3, <2>1, <2>2
  <1>11. \A x \in ts : \E k \in 1 .. l : a[k] = x BY <1>3, <1>6 DEF Lists
  <1>12. Apart(r)
    <2> SUFFICES ASSUME NEW i \in 1 .. l + m, NEW j \in 1 .. l + m, i < j, r[i] = r[j]
                 PROVE  FALSE
      BY <1>8 DEF Apart
    <2>1. CASE j \in 1 .. l
      <3>1. i \in 1 .. l BY <1>6, <2>1
      <3> QED BY <1>8, <1>10, <2>1, <3>1
    <2>2. CASE j \notin 1 .. l
      <3>1. PICK k \in 1 .. m : j = l + k /\ r[j] = b[k] /\ r[j] \in left \ ts BY <1>9, <2>2
      <3>2. PICK h \in 1 .. m : i = l + h /\ r[i] = b[h] BY <1>9, <3>1
      <3>3. h < k BY <1>6, <1>7, <3>1, <3>2
      <3>4. \A g, f \in 1 .. m : g < f => b[g] # b[f] BY <1>7 DEF Continues, Apart
      <3> QED BY <3>1, <3>2, <3>3, <3>4
    <2> QED BY <2>1, <2>2
  <1>13. ASSUME NEW i \in 1 .. l + m, NEW p \in Parents(r[i]) \cap Entries, p \notin taken
         PROVE  \E j \in 1 .. l + m : j < i /\ r[j] = p
    <2>1. \A k \in 1 .. l : k \in 1 .. l + m BY <1>6, <1>7
    <2>2. CASE i \in 1 .. l /\ r[i] = a[i] /\ r[i] \in ts
      <3>1. p \in ts /\ Before(p, a[i]) BY <1>13, <2>2
      <3>2. PICK k \in 1 .. l : a[k] = p BY <1>11, <3>1
      <3>3. k < i
        <4>1. ~ Before(a[i], a[i])
          <5>1. <<a[i], a[i]>> \notin R BY <1>3, <2>2 DEF Orders
          <5> QED BY <1>3, <2>2, <5>1
        <4>2. k # i BY <3>1, <3>2, <4>1
        <4>3. CASE i < k
          <5>1. Before(a[i], a[k]) BY <1>10, <2>2, <4>3
          <5>2. <<a[i], p>> \in R /\ <<p, a[i]>> \in R BY <1>3, <2>2, <3>1, <3>2, <5>1
          <5>3. <<p, p>> \in R BY <1>3, <2>2, <3>1, <5>2 DEF Orders
          <5> QED BY <1>3, <3>1, <5>3 DEF Orders
        <4> QED BY <2>2, <4>2, <4>3
      <3> QED BY <1>8, <2>1, <3>2, <3>3
    <2>3. CASE \E k \in 1 .. m : i = l + k /\ r[i] = b[k] /\ r[i] \in left \ ts
      <3>1. PICK k \in 1 .. m : i = l + k /\ r[i] = b[k] BY <2>3
      <3>2. CASE p \in ts
        <4>1. PICK j \in 1 .. l : a[j] = p BY <1>11, <3>2
        <4>2. j < l + k BY <1>6, <1>7
        <4> QED BY <1>8, <2>1, <3>1, <4>1, <4>2
      <3>3. CASE p \notin ts
        <4>1. p \in taken \cup ts \/ \E j \in DOMAIN b : j < k /\ b[j] = p
          BY <1>7, <1>13, <3>1 DEF Continues
        <4>2. PICK j \in 1 .. m : j < k /\ b[j] = p BY <1>7, <1>13, <3>3, <4>1
        <4>3. l + j \in 1 .. l + m /\ l + j < l + k BY <1>6, <1>7, <4>2
        <4> QED BY <1>8, <3>1, <4>2, <4>3
      <3> QED BY <3>2, <3>3
    <2> QED BY <1>9, <2>2, <2>3
  <1>14. ToSet(r) = ts \cup ToSet(b)
    <2>1. \A x \in ToSet(r) : x \in ts \cup ToSet(b)
      <3> SUFFICES ASSUME NEW i \in 1 .. l + m PROVE r[i] \in ts \cup ToSet(b)
        BY <1>8 DEF ToSet
      <3>1. \A k \in 1 .. m : b[k] \in ToSet(b) BY <1>7 DEF ToSet
      <3> QED BY <1>9, <3>1
    <2>2. \A k \in 1 .. l : a[k] \in ToSet(r)
      <3>1. \A k \in 1 .. l : k \in DOMAIN r BY <1>6, <1>7, <1>8
      <3> QED BY <1>8, <3>1 DEF ToSet
    <2>3. \A k \in 1 .. m : b[k] \in ToSet(r)
      <3>1. \A k \in 1 .. m : l + k \in DOMAIN r BY <1>6, <1>7, <1>8
      <3> QED BY <1>8, <3>1 DEF ToSet
    <2>4. \A x \in ToSet(b) : x \in ToSet(r) BY <1>7, <2>3 DEF ToSet
    <2>5. \A x \in ts : x \in ToSet(r) BY <1>11, <2>2
    <2> QED BY <2>1, <2>4, <2>5
  <1>15. Weights[taken \cup ToSet(r)] <= MaxBlockWeight
    <2>1. taken \cup ToSet(r) = (taken \cup ts) \cup ToSet(b) BY <1>14
    <2> QED BY <2>1 DEF Continues
  <1>16. ASSUME NEW i \in DOMAIN r, NEW p \in Parents(r[i]) \cap Entries
         PROVE  p \in taken \/ \E j \in DOMAIN r : j < i /\ r[j] = p
    BY <1>8, <1>13
  <1>17. r \in Seq(Entries \ taken) BY <1>4, <1>8
  <1> QED BY <1>12, <1>15, <1>16, <1>17 DEF Continues

Affordable(taken) ==
    {t \in Entries \ taken : Weights[taken \cup Package(t, taken)] <= MaxBlockWeight}

IsBest(t, taken) ==
    /\ t \in Affordable(taken)
    /\ \A u \in Affordable(taken) : Cheaper(Package(u, taken), u, Package(t, taken), t)

\* Of the packages that fit some one pays the best rate.
LEMMA BestExists ==
  ASSUME PoolGood(pool), NEW taken \in SUBSET Entries, Affordable(taken) # {}
  PROVE  \E t : IsBest(t, taken)
  <1>1. PICK fits : fits = Affordable(taken) OBVIOUS
  <1> DEFINE P == [t \in fits |-> Package(t, taken)]
  <1>2. \A t \in fits : P[t] = Package(t, taken) OBVIOUS
  <1>3. fits \in SUBSET Txs BY <1>1 DEF Affordable, PoolGood, Entries
  <1>4. ASSUME NEW t \in fits PROVE P[t] \in SUBSET Txs /\ P[t] # {}
    <2>1. t \in DOMAIN pool.entries BY <1>1 DEF Affordable, Entries
    <2>2. pool.entries[t].anc \in SUBSET Txs BY <2>1 DEF PoolGood
    <2> QED BY <1>3, <2>2 DEF Package
  <1> HIDE DEF P
  <1>5. PICK t \in fits : \A u \in fits : Cheaper(P[u], u, P[t], t) BY <1>1, <1>3, <1>4, RatesCompare
  <1> QED BY <1>1, <1>2, <1>5 DEF IsBest

Best(taken) == CHOOSE t \in Affordable(taken) : \A u \in Affordable(taken) :
                   Cheaper(Package(u, taken), u, Package(t, taken), t)

\* That is the one get_block_template takes.
LEMMA BestFits ==
  ASSUME PoolGood(pool), NEW taken \in SUBSET Entries, Affordable(taken) # {}
  PROVE  Best(taken) \in Affordable(taken)
  <1>1. \E t \in Affordable(taken) : \A u \in Affordable(taken) :
            Cheaper(Package(u, taken), u, Package(t, taken), t)
    BY BestExists DEF IsBest
  <1> QED BY <1>1 DEF Best

\* Nothing more fits.
LEMMA NothingMore ==
  ASSUME NEW taken \in SUBSET Entries
  PROVE  Continues(<< >>, taken)
  <1>1. << >> \in Seq(Entries \ taken) /\ DOMAIN << >> = {} OBVIOUS
  <1>2. ToSet(<< >>) = {} BY <1>1 DEF ToSet
  <1>3. taken \cup ToSet(<< >>) = taken BY <1>2
  <1> QED BY <1>1, <1>3 DEF Continues, Apart

\* get_block_template takes packages as long as one fits.
LEMMA TemplateContinues ==
  ASSUME PoolGood(pool), Related(pool), Exact(pool, Entries)
  PROVE  Continues(Template, {})
  <1> DEFINE E == Entries
             pack(taken) == Package(Best(taken), taken)
             rest == CHOOSE g : g = [taken \in SUBSET E |->
                IF Affordable(taken) = {} THEN << >>
                ELSE Ordered(pack(taken)) \o g[taken \cup pack(taken)]]
  <1>1. Template = rest[{}] BY DEF Template, Affordable, Best
  <1> DEFINE G == {left \in SUBSET E : Affordable(E \ left) # {}}
             step == [left \in SUBSET E |-> left \ pack(E \ left)]
             combine == [x \in (SUBSET E) \X Seq(Txs) |-> Ordered(pack(E \ x[1])) \o x[2]]
  <1>2. E \in SUBSET Txs /\ IsFiniteSet(E)
    <2>1. E \in SUBSET Txs BY DEF PoolGood, Entries
    <2> QED BY <2>1, MempoolAssumption, FS_Subset
  <1>3. ASSUME NEW taken \in SUBSET E, Affordable(taken) # {}
        PROVE  /\ pack(taken) \in SUBSET (E \ taken) /\ pack(taken) # {}
               /\ \A u \in pack(taken) : \A p \in Parents(u) \cap E :
                     p \in taken \/ (p \in pack(taken) /\ Before(p, u))
               /\ Weights[taken \cup pack(taken)] <= MaxBlockWeight
               /\ Ordered(pack(taken)) \in Seq(Txs)
    <2>1. PICK t : t = Best(taken) OBVIOUS
    <2>2. t \in E \ taken /\ Weights[taken \cup Package(t, taken)] <= MaxBlockWeight
      BY <1>3, <2>1, BestFits DEF Affordable
    <2>3. PICK ts : ts = Package(t, taken) OBVIOUS
    <2>4. /\ ts \in SUBSET (E \ taken) /\ t \in ts
          /\ \A u \in ts : \A p \in Parents(u) \cap E :
                p \in taken \/ (p \in ts /\ Before(p, u))
      BY <2>2, <2>3, PackageFollows
    <2>5. Ordered(ts) \in Seq(Txs)
      <3>1. ts \in SUBSET E BY <2>4
      <3>2. Ordered(ts) \in Seq(ts) BY <3>1, OrderedLists DEF Lists
      <3>3. \A x \in ts : x \in Txs BY <1>2, <3>1
      <3> QED BY <3>2, <3>3
    <2> QED BY <2>1, <2>2, <2>3, <2>4, <2>5
  <1> HIDE DEF pack
  <1>4. \A left \in SUBSET E : left \in G <=> Affordable(E \ left) # {} OBVIOUS
  <1>5. \A left \in SUBSET E : step[left] = left \ pack(E \ left) OBVIOUS
  <1>6. \A left \in SUBSET E, v \in Seq(Txs) :
           combine[<<left, v>>] = Ordered(pack(E \ left)) \o v
    OBVIOUS
  <1> HIDE DEF G, step, combine
  <1>7. \A left \in SUBSET E : E \ left \in SUBSET E /\ E \ (E \ left) = left OBVIOUS
  <1> HIDE DEF E
  <1>8. PICK f : f \in [SUBSET E -> Seq(Txs)] /\ Solves(SUBSET E, f, E, G, step, combine, << >>)
    <2> DEFINE V == Seq(Txs)
    <2>1. << >> \in V OBVIOUS
    <2>2. ASSUME NEW left \in SUBSET E, NEW v \in V, left \in G PROVE combine[<<left, v>>] \in V
      <3>1. Ordered(pack(E \ left)) \in V BY <1>3, <1>4, <1>7, <2>2
      <3>2. combine[<<left, v>>] = Ordered(pack(E \ left)) \o v BY <1>6
      <3> QED BY <3>1, <3>2
    <2>3. ASSUME NEW left \in SUBSET E, left \in G PROVE step[left] \subseteq left /\ step[left] # left
      <3>1. PICK taken \in SUBSET E : taken = E \ left BY <1>7
      <3>2. PICK ts : ts = pack(taken) OBVIOUS
      <3>3. ts \in SUBSET (E \ taken) /\ ts # {} BY <1>3, <1>4, <2>3, <3>1, <3>2
      <3>4. step[left] = left \ ts BY <1>5, <3>1, <3>2
      <3>5. ts \in SUBSET left BY <1>7, <3>1, <3>3
      <3> QED BY <3>3, <3>4, <3>5
    <2> HIDE DEF V
    <2>4. Descends(E, G, step, V, combine, << >>) BY <2>1, <2>2, <2>3 DEF Descends
    <2>5. \E f : f \in [SUBSET E -> V] /\ Solves(SUBSET E, f, E, G, step, combine, << >>)
      BY <1>2, <2>4, RecursionOnSubsets
    <2> QED BY <2>5 DEF V
  <1> DEFINE h == [taken \in SUBSET E |-> f[E \ taken]]
  <1>9. ASSUME NEW taken \in SUBSET E
        PROVE  h[taken] = IF Affordable(taken) = {} THEN << >>
                          ELSE Ordered(pack(taken)) \o h[taken \cup pack(taken)]
    <2>1. PICK left \in SUBSET E : left = E \ taken /\ taken = E \ left OBVIOUS
    <2>2. h[taken] = f[left] BY <2>1
    <2>3. CASE Affordable(taken) = {}
      <3>1. left \notin G BY <1>4, <2>1, <2>3
      <3>2. f[left] = << >> BY <1>8, <3>1 DEF Solves
      <3> QED BY <2>2, <2>3, <3>2
    <2>4. CASE Affordable(taken) # {}
      <3>1. left \in G BY <1>4, <2>1, <2>4
      <3>2. step[left] \in SUBSET E /\ f[left] = combine[<<left, f[step[left]]>>]
        BY <1>8, <3>1 DEF Solves
      <3>3. PICK ts : ts = pack(taken) OBVIOUS
      <3>4. step[left] = left \ ts BY <1>5, <2>1, <3>3
      <3>5. f[step[left]] \in Seq(Txs) BY <1>8, <3>2
      <3>6. f[left] = Ordered(ts) \o f[step[left]] BY <1>6, <2>1, <3>2, <3>3, <3>5
      <3>7. ts \in SUBSET (E \ taken) BY <1>3, <2>4, <3>3
      <3>8. taken \cup ts \in SUBSET E /\ E \ (taken \cup ts) = left \ ts BY <2>1, <3>7
      <3>9. h[taken \cup ts] = f[left \ ts] BY <3>8
      <3> QED BY <2>2, <2>4, <3>3, <3>4, <3>6, <3>9
    <2> QED BY <2>3, <2>4
  <1>10. h = [taken \in SUBSET E |->
                IF Affordable(taken) = {} THEN << >>
                ELSE Ordered(pack(taken)) \o h[taken \cup pack(taken)]]
    BY <1>9
  <1> HIDE DEF h
  <1>11. rest = [taken \in SUBSET E |->
                IF Affordable(taken) = {} THEN << >>
                ELSE Ordered(pack(taken)) \o rest[taken \cup pack(taken)]]
    BY <1>10
  <1> HIDE DEF rest
  <1>12. \A taken \in SUBSET E : rest[taken] =
                IF Affordable(taken) = {} THEN << >>
                ELSE Ordered(pack(taken)) \o rest[taken \cup pack(taken)]
    BY <1>11
  <1> DEFINE Bad == {left \in SUBSET E : ~ Continues(rest[E \ left], E \ left)}
  <1>13. Bad \in SUBSET SUBSET E OBVIOUS
  <1>14. \A left \in SUBSET E : left \in Bad <=> ~ Continues(rest[E \ left], E \ left) OBVIOUS
  <1> HIDE DEF Bad
  <1>15. ASSUME Bad # {} PROVE FALSE
    <2>1. PICK A \in Bad : \A B \in Bad : B \subseteq A => B = A BY <1>2, <1>13, <1>15, LeastSet
    <2>2. PICK taken \in SUBSET E : taken = E \ A BY <1>7, <1>13, <2>1
    <2>3. A \in SUBSET E /\ ~ Continues(rest[taken], taken) BY <1>13, <1>14, <2>1, <2>2
    <2>4. taken \in SUBSET Entries BY <2>2 DEF E
    <2>5. CASE Affordable(taken) = {}
      <3>1. rest[taken] = << >> BY <1>12, <2>2, <2>5
      <3> QED BY <2>3, <2>4, <3>1, NothingMore
    <2>6. CASE Affordable(taken) # {}
      <3>1. PICK ts : ts = pack(taken) OBVIOUS
      <3>2. /\ ts \in SUBSET (E \ taken) /\ ts # {}
            /\ \A u \in ts : \A p \in Parents(u) \cap E :
                  p \in taken \/ (p \in ts /\ Before(p, u))
            /\ Weights[taken \cup ts] <= MaxBlockWeight
        BY <1>3, <2>6, <3>1
      <3>3. PICK B : B = A \ ts OBVIOUS
      <3>4. B \in SUBSET E /\ B \subseteq A /\ B # A /\ E \ B = taken \cup ts
        BY <2>2, <2>3, <3>2, <3>3
      <3>5. B \notin Bad BY <2>1, <3>4
      <3>6. Continues(rest[taken \cup ts], taken \cup ts) BY <1>14, <3>4, <3>5
      <3>7. PICK b : b = rest[taken \cup ts] OBVIOUS
      <3>8. PICK r : r = Ordered(ts) \o b OBVIOUS
      <3>9. rest[taken] = r BY <1>12, <2>6, <3>1, <3>7, <3>8
      <3>10. Continues(r, taken)
        <4>1. ts \in SUBSET (Entries \ taken) BY <3>2 DEF E
        <4>2. \A u \in ts : \A p \in Parents(u) \cap Entries :
                  p \in taken \/ (p \in ts /\ Before(p, u))
          BY <3>2 DEF E
        <4>3. Continues(b, taken \cup ts) BY <3>6, <3>7
        <4> QED BY <2>4, <3>2, <3>8, <4>1, <4>2, <4>3, PackageContinues
      <3> QED BY <2>3, <3>9, <3>10
    <2> QED BY <2>5, <2>6
  <1>16. E \in SUBSET E /\ E \ E = {} OBVIOUS
  <1>17. Continues(rest[E \ E], E \ E) BY <1>14, <1>15, <1>16
  <1> QED BY <1>1, <1>16, <1>17

\* What get_block_template returns is in order, spends nothing twice and fits.
LEMMA TemplateOrder ==
  ASSUME PoolGood(pool), Related(pool), Exact(pool, Entries), NEW txs, txs = Template
  PROVE  /\ FoldLeft(LAMBDA w, t : w + Weight[t], 0, txs) <= MaxBlockWeight
         /\ \A i \in DOMAIN txs :
              /\ \A p \in Parents(txs[i]) \cap Entries :
                    \E j \in 1 .. i - 1 : txs[j] = p
              /\ \A j \in 1 .. i - 1 : Ins[txs[i]] \cap Ins[txs[j]] = {}
  <1>1. Continues(txs, {}) BY TemplateContinues
  <1>2. Entries \in SUBSET Txs BY DEF PoolGood, Entries
  <1>3. txs \in Seq(Entries) /\ txs \in Seq(Txs) /\ Apart(txs)
    <2>1. PICK E : E = Entries OBVIOUS
    <2>2. E \ {} = E OBVIOUS
    <2>3. txs \in Seq(E) BY <1>1, <2>1, <2>2 DEF Continues
    <2>4. \A x \in E : x \in Txs BY <1>2, <2>1
    <2>5. txs \in Seq(Txs) BY <2>3, <2>4
    <2> QED BY <1>1, <2>1, <2>3, <2>5 DEF Continues
  <1>4. FoldLeft(LAMBDA w, t : w + Weight[t], 0, txs) <= MaxBlockWeight
    <2>1. Weights[{}] = 0 BY WeightsAdds DEF Adds
    <2>2. MaxBlockWeight \in Nat BY MempoolAssumption
    <2>3. Weights[{}] <= MaxBlockWeight BY <2>1, <2>2
    <2>4. Weights[{} \cup ToSet(txs)] <= MaxBlockWeight BY <1>1, <2>3 DEF Continues
    <2>5. {} \cup ToSet(txs) = ToSet(txs) OBVIOUS
    <2>6. FoldLeft(LAMBDA w, t : w + Weight[t], 0, txs) = Weights[ToSet(txs)]
      BY <1>3, WeightOfList
    <2> QED BY <2>4, <2>5, <2>6
  <1>5. PICK n \in Nat : DOMAIN txs = 1 .. n BY <1>3
  <1>6. ASSUME NEW i \in 1 .. n, NEW p \in Parents(txs[i]) \cap Entries
        PROVE  \E j \in 1 .. i - 1 : txs[j] = p
    <2>1. PICK j \in 1 .. n : j < i /\ txs[j] = p BY <1>1, <1>5, <1>6 DEF Continues
    <2>2. j \in 1 .. i - 1 BY <1>5, <2>1
    <2> QED BY <2>1, <2>2
  <1>7. ASSUME NEW i \in 1 .. n, NEW j \in 1 .. i - 1
        PROVE  Ins[txs[i]] \cap Ins[txs[j]] = {}
    <2>1. j \in 1 .. n /\ j < i BY <1>5
    <2>2. txs[j] # txs[i] BY <1>3, <1>5, <2>1 DEF Apart
    <2>3. txs[i] \in Entries /\ txs[j] \in Entries BY <1>3, <1>5, <2>1
    <2>4. \A t \in Entries : \A o \in Ins[t] : pool.spends[o] = t BY DEF PoolGood, Entries
    <2> QED BY <2>2, <2>3, <2>4
  <1> QED BY <1>4, <1>5, <1>6, <1>7

-----------------------------------------------------------------------------
(* The theorems *)

\* The invariant that is kept by every step of every call.
THEOREM Invariant == Spec => []IInv
  BY InitInv, StepInv, PTL DEF Spec

\* No entry names a transaction that has left the pool, and every list, fee and
\* time the calls keep is what its readers take it for.
THEOREM TypeCorrect == Spec => []TypeOK
  <1>1. IInv => TypeOK
    <2> SUFFICES ASSUME IInv PROVE TypeOK OBVIOUS
    <2> USE DEF IInv
    <2>1. \A k \in DOMAIN orphans :
             orphans[k].tx \in Txs /\ orphans[k].missing # {} /\ orphans[k].arrival <= now
      <3>1. \A k \in DOMAIN orphans : orphans[k] \in Orphan BY DEF OrphansOK
      <3> QED BY <3>1 DEF OrphansOK, Orphan
    <2>2. ToSet(confirming) \cup ToSet(parents) \cup ToSet(retrying) \subseteq Txs BY DEF ToSet
    <2>3. \A t \in Entries :
             /\ pool.entries[t] \in Entry
             /\ pool.entries[t].anc \cup pool.entries[t].desc \subseteq Entries \ {t}
      BY DEF PoolOK, PoolGood, Entries
    <2>4. Entries \subseteq Txs BY DEF PoolOK, PoolGood, Entries
    <2> QED BY <2>1, <2>2, <2>3, <2>4 DEF TypeOK, FloorOK
  <1> QED BY <1>1, Invariant, PTL

\* The index of spent outpoints is exact in every state, so no two transactions
\* of the pool spend the same outpoint: through replacements, evictions, expiry,
\* confirmations and reorganisations in any order.
THEOREM IndexExact == Spec => []SpendIndexExact
  <1>1. IInv => SpendIndexExact BY DEF IInv, PoolOK, PoolGood, SpendIndexExact, Entries
  <1> QED BY <1>1, Invariant, PTL

\* No package outgrows its limits: an entry within them stays so when others
\* come and go.
THEOREM PackagesKept == Spec => []PackagesBounded
  <1>1. IInv => PackagesBounded
    BY DEF IInv, PoolOK, PoolSmall, WithinLimits, PackagesBounded, Entries
  <1> QED BY <1>1, Invariant, PTL

\* Every admission leaves the pool within its size, whatever the packages are
\* that trimming evicts.
THEOREM SizeKept == Spec => []SizeBounded
  <1>1. IInv => SizeBounded BY DEF IInv, PoolOK, SizeBounded, Entries
  <1> QED BY <1>1, Invariant, PTL

\* The orphan pool keeps to both limits, holds nothing twice and nothing that
\* the pool holds.
THEOREM OrphansKept == Spec => []OrphansBounded
  <1>1. IInv => OrphansBounded BY DEF IInv, OrphansOK, Distinct, OrphansBounded
  <1> QED BY <1>1, Invariant, PTL

\* While the active chain only grows and the pool was told all of it, every entry
\* lists exactly its transitive ancestors and descendants in the pool: through
\* replacements, evictions, expiry, retried orphans and confirmations, each of
\* which changes the lists of others.
THEOREM GraphKept == NoSelfRivals => (Spec => []GraphExact)
  <1> SUFFICES ASSUME NoSelfRivals PROVE Spec => []GraphExact OBVIOUS
  <1>1. IInv /\ GInv => GraphExact BY GraphTrue DEF GraphExact
  <1>2. GInv /\ IInv /\ [Next]_vars => GInv' BY StepGraph
  <1> QED BY <1>1, <1>2, InitGraph, Invariant, PTL DEF Spec

\* A transaction that takes the place of others pays the fees of all that leave for
\* it, and for its own relay: what the code finds through the index and the lists
\* are all the rivals and all their descendants.
THEOREM ReplacementKept == NoSelfRivals => (Spec => ReplacementPays)
  <1> SUFFICES ASSUME NoSelfRivals PROVE Spec => ReplacementPays OBVIOUS
  <1> DEFINE Pays == \A t \in Entries' \ Entries :
          Undisturbed /\ Replaced(t) # {} => Fee[t] >= Fees[Replaced(t)] + MinFee * VBytes(t)
  <1>1. ASSUME IInv, GInv, [Next]_vars PROVE Pays
    <2> SUFFICES ASSUME NEW t \in Entries' \ Entries, Undisturbed, Replaced(t) # {}
                 PROVE  Fee[t] >= Fees[Replaced(t)] + MinFee * VBytes(t)
      OBVIOUS
    <2>1. t \in Txs /\ Admissible(Unexpired, t) BY <1>1, NewcomerAdmitted
    <2>2. Replaced(t) = Evicted(Unexpired, t) BY <1>1, <2>1, RivalsFound
    <2>3. Conflicts(Unexpired, t) # {} BY <2>2 DEF Evicted, WithDescendants
    <2>4. ReplacementOk(Unexpired, t) BY <2>1, <2>3 DEF Admissible
    <2> QED BY <2>2, <2>4 DEF ReplacementOk, Evicted
  <1>2. GInv /\ IInv /\ [Next]_vars => GInv' BY StepGraph
  <1>3. IInv /\ GInv /\ [Next]_vars => [Pays]_vars BY <1>1
  <1> QED BY <1>2, <1>3, InitGraph, Invariant, PTL DEF Spec, ReplacementPays

\* No transaction gives way to a rival unless it or one of its ancestors signals.
THEOREM OnlyReplaceable == NoSelfRivals => (Spec => OnlyReplaceableReplaced)
  <1> SUFFICES ASSUME NoSelfRivals PROVE Spec => OnlyReplaceableReplaced OBVIOUS
  <1> DEFINE Gives == \A t \in Entries' \ Entries : \A u \in Rivals(t) :
          Undisturbed => \E a \in {u} \cup TrueAncestors(Entries, u) : Signals[a]
  <1>1. ASSUME IInv, GInv, [Next]_vars PROVE Gives
    <2> SUFFICES ASSUME NEW t \in Entries' \ Entries, NEW u \in Rivals(t), Undisturbed
                 PROVE  \E a \in {u} \cup TrueAncestors(Entries, u) : Signals[a]
      OBVIOUS
    <2>1. t \in Txs /\ Admissible(Unexpired, t) BY <1>1, NewcomerAdmitted
    <2>2. /\ u \in Conflicts(Unexpired, t) /\ u \in Entries
          /\ Unexpired.entries[u].anc \subseteq pool.entries[u].anc
      BY <1>1, <2>1, RivalsFound
    <2>3. Replaceable(Unexpired, u) BY <2>1, <2>2 DEF Admissible, ReplacementOk
    <2>4. TrueAncestors(Entries, u) = pool.entries[u].anc BY <1>1, <2>2, GraphTrue
    <2> QED BY <2>2, <2>3, <2>4 DEF Replaceable
  <1>2. GInv /\ IInv /\ [Next]_vars => GInv' BY StepGraph
  <1>3. IInv /\ GInv /\ [Next]_vars => [Gives]_vars BY <1>1
  <1> QED BY <1>2, <1>3, InitGraph, Invariant, PTL DEF Spec, OnlyReplaceableReplaced

\* What a template takes from a pool that follows the chain fits a block, spends
\* nothing twice, and has every parent in the pool before its child.
THEOREM TemplateKept == NoSelfRivals => (Spec => []TemplateInOrder)
  <1> SUFFICES ASSUME NoSelfRivals PROVE Spec => []TemplateInOrder OBVIOUS
  <1>1. ASSUME IInv, GInv PROVE TemplateInOrder
    <2>1. ASSUME Undisturbed PROVE PoolGood(pool) /\ Related(pool) /\ Exact(pool, Entries)
      BY <1>1, <2>1, ListsComplete
    <2>2. PICK txs : txs = Template OBVIOUS
    <2> QED BY <2>1, <2>2, TemplateOrder DEF TemplateInOrder
  <1>2. GInv /\ IInv /\ [Next]_vars => GInv' BY StepGraph
  <1> QED BY <1>1, <1>2, InitGraph, Invariant, PTL DEF Spec
=============================================================================
