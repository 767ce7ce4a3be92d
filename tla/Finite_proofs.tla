---------------------------- MODULE Finite_proofs ----------------------------
(***************************************************************************)
(* Induction without a predicate: a set of numbers, or of finite sets, has *)
(* a least member, so a set of counterexamples that has none is empty.     *)
(***************************************************************************)
EXTENDS Integers, Sequences, FiniteSets, FiniteSetsExt, FiniteSetTheorems,
        WellFoundedInduction, TLAPS

\* A set of natural numbers has a least member.
LEMMA LeastNatural ==
  ASSUME NEW S \in SUBSET Nat, S # {}
  PROVE  \E n \in S : \A m \in S : n <= m
  <1>1. PICK n \in S : \A m \in S : ~ (<<m, n>> \in OpToRel(<, Nat))
    BY WFMin, NatLessThanWellFounded
  <1>2. \A m \in S : ~ (m < n) BY <1>1 DEF OpToRel
  <1> QED BY <1>2

\* One that is bounded has a greatest.
LEMMA GreatestNatural ==
  ASSUME NEW S \in SUBSET Nat, S # {}, NEW top \in Nat, \A n \in S : n <= top
  PROVE  \E n \in S : \A m \in S : m <= n
  <1> DEFINE T == {k \in Nat : top - k \in S}
  <1>1. PICK s \in S : TRUE OBVIOUS
  <1>2. top - s \in T BY <1>1
  <1>3. PICK k \in T : \A j \in T : k <= j BY <1>2, LeastNatural
  <1>4. ASSUME NEW m \in S PROVE top - m \in T
    <2>1. m \in Nat /\ m <= top /\ top - (top - m) = m OBVIOUS
    <2>2. top - m \in Nat BY <2>1
    <2> QED BY <2>1, <2>2
  <1>5. ASSUME NEW m \in S PROVE m <= top - k
    <2>1. k <= top - m /\ m \in Nat /\ k \in Nat BY <1>3, <1>4
    <2> QED BY <2>1
  <1> QED BY <1>3, <1>5

\* Max of the community modules is the greatest member.
LEMMA MaxIsGreatest ==
  ASSUME NEW S \in SUBSET Nat, S # {}, NEW top \in Nat, \A n \in S : n <= top
  PROVE  Max(S) \in S /\ \A m \in S : m <= Max(S)
  <1>1. \E n \in S : \A m \in S : n >= m BY GreatestNatural
  <1> QED BY <1>1 DEF Max

\* A family of subsets of a finite set has a smallest member.
LEMMA LeastSet ==
  ASSUME NEW S, IsFiniteSet(S), NEW F \in SUBSET SUBSET S, F # {}
  PROVE  \E A \in F : \A B \in F : B \subseteq A => B = A
  <1>1. IsWellFoundedOn(StrictSubsetOrdering(S), SUBSET S)
    BY FS_StrictSubsetOrderingWellFounded, FS_FiniteSubsetsOfFinite
  <1>2. PICK A \in F : \A B \in F : ~ (<<B, A>> \in StrictSubsetOrdering(S))
    BY <1>1, WFMin
  <1> QED BY <1>2 DEF StrictSubsetOrdering

\* A total and transitive relation has a least member in every finite set.
LEMMA LeastInOrder ==
  ASSUME NEW S, IsFiniteSet(S), S # {}, NEW R,
         \A x, y \in S : <<x, y>> \in R \/ <<y, x>> \in R,
         \A x, y, z \in S : <<x, y>> \in R /\ <<y, z>> \in R => <<x, z>> \in R
  PROVE  \E x \in S : \A y \in S : <<x, y>> \in R
  <1> DEFINE Bad == {A \in SUBSET S : A # {} /\ ~ \E x \in A : \A y \in A : <<x, y>> \in R}
  <1>1. Bad \in SUBSET SUBSET S OBVIOUS
  <1>2. \A A \in SUBSET S : A \in Bad <=> A # {} /\ ~ \E x \in A : \A y \in A : <<x, y>> \in R
    OBVIOUS
  <1> HIDE DEF Bad
  <1>3. ASSUME Bad # {} PROVE FALSE
    <2>1. PICK A \in Bad : \A B \in Bad : B \subseteq A => B = A BY <1>1, <1>3, LeastSet
    <2>2. A \in SUBSET S /\ A # {} BY <1>1, <1>2, <2>1
    <2>3. ~ \E x \in A : \A y \in A : <<x, y>> \in R BY <1>2, <2>1, <2>2
    <2>4. PICK a \in A : TRUE BY <2>2
    <2>5. A \ {a} \notin Bad BY <2>1, <2>4
    <2>6. CASE A \ {a} = {}
      <3>1. \A y \in A : y = a BY <2>6
      <3> QED BY <2>2, <2>3, <2>4, <3>1
    <2>7. CASE A \ {a} # {}
      <3>1. PICK x \in A \ {a} : \A y \in A \ {a} : <<x, y>> \in R BY <1>2, <2>2, <2>5, <2>7
      <3>2. a \in S /\ x \in S BY <2>2, <2>4, <3>1
      <3>3. CASE <<x, a>> \in R BY <2>3, <3>1, <3>3
      <3>4. CASE <<a, x>> \in R
        <4>1. <<a, a>> \in R BY <3>2
        <4>2. \A y \in A : <<a, y>> \in R BY <2>2, <3>1, <3>2, <3>4, <4>1
        <4> QED BY <2>3, <2>4, <4>2
      <3> QED BY <3>2, <3>3, <3>4
    <2> QED BY <2>6, <2>7
  <1>4. S \in SUBSET S /\ S \notin Bad BY <1>3
  <1> QED BY <1>2, <1>4

\* A power of two is the number of subsets of a set, and so a positive number.
LEMMA PowerOfTwo ==
  ASSUME NEW k \in Nat
  PROVE  2 ^ k \in Nat \ {0}
  <1>1. IsFiniteSet(1 .. k) /\ Cardinality(1 .. k) = k
    <2>1. Cardinality(1 .. k) = IF 1 > k THEN 0 ELSE k - 1 + 1 BY FS_Interval
    <2> QED BY <2>1, FS_Interval
  <1>2. PICK S : S = 1 .. k OBVIOUS
  <1>3. IsFiniteSet(SUBSET S) /\ Cardinality(SUBSET S) = 2 ^ Cardinality(S) BY <1>1, <1>2, FS_SUBSET
  <1>4. Cardinality(SUBSET S) \in Nat BY <1>3, FS_CardinalityType
  <1>5. SUBSET S # {} OBVIOUS
  <1>6. Cardinality(SUBSET S) # 0 BY <1>3, <1>5, FS_EmptySet
  <1> QED BY <1>1, <1>2, <1>3, <1>4, <1>6

LEMMA TwoToNone == 2 ^ 0 = 1
  <1>1. IsFiniteSet({}) /\ Cardinality({}) = 0 BY FS_EmptySet
  <1>2. Cardinality(SUBSET {}) = 2 ^ Cardinality({}) BY <1>1, FS_SUBSET
  <1>3. SUBSET {} = {{}} OBVIOUS
  <1>4. Cardinality({{}}) = 1 BY FS_Singleton
  <1> QED BY <1>1, <1>2, <1>3, <1>4

-----------------------------------------------------------------------------
(* Recursion over the subsets of a finite set *)

\* A function that satisfies a recursive definition on the sets of its domain.
Solves(D, h, S, G, step, combine, base) ==
    /\ D \in SUBSET SUBSET S /\ DOMAIN h = D
    /\ \A s \in D : IF s \in G THEN step[s] \in D /\ h[s] = combine[<<s, h[step[s]]>>]
                    ELSE h[s] = base

\* Each step leads to a smaller set, and the values are in V.
Descends(S, G, step, V, combine, base) ==
    /\ \A s \in SUBSET S : s \in G => step[s] \subseteq s /\ step[s] # s
    /\ base \in V
    /\ \A s \in SUBSET S, v \in V : s \in G => combine[<<s, v>>] \in V

\* Then there is such a function.
LEMMA RecursionOnSubsets ==
  ASSUME NEW S, IsFiniteSet(S), NEW G, NEW step, NEW V, NEW combine, NEW base,
         Descends(S, G, step, V, combine, base)
  PROVE  \E f : f \in [SUBSET S -> V] /\ Solves(SUBSET S, f, S, G, step, combine, base)
  <1> USE DEF Descends
  <1> DEFINE Sol(D, h) == Solves(D, h, S, G, step, combine, base)
  <1>1. ASSUME NEW D, NEW h, Sol(D, h), NEW E, NEW g, Sol(E, g)
        PROVE  \A s \in D \cap E : h[s] = g[s]
    <2> DEFINE Bad == {s \in D \cap E : h[s] # g[s]}
    <2> SUFFICES ASSUME Bad # {} PROVE FALSE OBVIOUS
    <2>1. Bad \in SUBSET SUBSET S BY <1>1 DEF Solves
    <2>2. \A s : s \in Bad <=> s \in D /\ s \in E /\ h[s] # g[s] OBVIOUS
    <2> HIDE DEF Bad
    <2>3. PICK A \in Bad : \A B \in Bad : B \subseteq A => B = A BY <2>1, LeastSet
    <2>4. A \in D /\ A \in E /\ A \in SUBSET S /\ h[A] # g[A] BY <2>1, <2>2, <2>3
    <2>5. A \in G BY <1>1, <2>4 DEF Solves
    <2>6. /\ step[A] \in D /\ step[A] \in E
          /\ h[A] = combine[<<A, h[step[A]]>>] /\ g[A] = combine[<<A, g[step[A]]>>]
      BY <1>1, <2>4, <2>5 DEF Solves
    <2>7. step[A] \notin Bad BY <2>3, <2>4, <2>5
    <2>8. h[step[A]] = g[step[A]] BY <2>2, <2>6, <2>7
    <2> QED BY <2>4, <2>6, <2>8
  <1>2. ASSUME NEW D, NEW h, Sol(D, h)
        PROVE  \A s \in D : h[s] \in V
    <2> DEFINE Bad == {s \in D : h[s] \notin V}
    <2> SUFFICES ASSUME Bad # {} PROVE FALSE OBVIOUS
    <2>1. Bad \in SUBSET SUBSET S BY <1>2 DEF Solves
    <2>2. \A s : s \in Bad <=> s \in D /\ h[s] \notin V OBVIOUS
    <2> HIDE DEF Bad
    <2>3. PICK A \in Bad : \A B \in Bad : B \subseteq A => B = A BY <2>1, LeastSet
    <2>4. A \in D /\ A \in SUBSET S /\ h[A] \notin V BY <2>1, <2>2, <2>3
    <2>5. A \in G BY <1>2, <2>4 DEF Solves
    <2>6. step[A] \in D /\ h[A] = combine[<<A, h[step[A]]>>] BY <1>2, <2>4, <2>5 DEF Solves
    <2>7. step[A] \notin Bad BY <2>3, <2>4, <2>5
    <2>8. h[step[A]] \in V BY <2>2, <2>6, <2>7
    <2> QED BY <2>4, <2>5, <2>6, <2>8
  <1>3. ASSUME NEW s \in SUBSET S
        PROVE  \E D, h : Sol(D, h) /\ s \in D
    <2> DEFINE Bad == {q \in SUBSET S : ~ \E D, h : Sol(D, h) /\ q \in D}
    <2> SUFFICES ASSUME Bad # {} PROVE FALSE OBVIOUS
    <2>1. Bad \in SUBSET SUBSET S OBVIOUS
    <2>2. \A q \in SUBSET S : q \in Bad <=> ~ \E D, h : Sol(D, h) /\ q \in D OBVIOUS
    <2> HIDE DEF Bad
    <2>3. PICK A \in Bad : \A B \in Bad : B \subseteq A => B = A BY <2>1, LeastSet
    <2>4. A \in SUBSET S /\ ~ \E D, h : Sol(D, h) /\ A \in D BY <2>1, <2>2, <2>3
    <2>5. CASE A \notin G
      <3> DEFINE h == [q \in {A} |-> base]
      <3>1. Sol({A}, h) BY <2>4, <2>5 DEF Solves
      <3> QED BY <2>4, <3>1
    <2>6. CASE A \in G
      <3>1. step[A] \in SUBSET S /\ step[A] \notin Bad BY <2>3, <2>4, <2>6
      <3>2. PICK D, h : Sol(D, h) /\ step[A] \in D BY <2>2, <3>1
      <3>3. A \notin D BY <2>4, <3>2
      <3> DEFINE g == [q \in D \cup {A} |-> IF q \in D THEN h[q] ELSE combine[<<A, h[step[A]]>>]]
      <3>4. DOMAIN g = D \cup {A} /\ (\A q \in D : g[q] = h[q])
            /\ g[A] = combine[<<A, h[step[A]]>>]
        BY <3>3
      <3> HIDE DEF g
      <3>5. D \cup {A} \in SUBSET SUBSET S BY <2>4, <3>2 DEF Solves
      <3>6. ASSUME NEW q \in D
            PROVE  IF q \in G THEN step[q] \in D /\ g[q] = combine[<<q, g[step[q]]>>]
                   ELSE g[q] = base
        BY <3>2, <3>4 DEF Solves
      <3>7. g[A] = combine[<<A, g[step[A]]>>] BY <3>2, <3>4
      <3>8. Sol(D \cup {A}, g) BY <2>6, <3>2, <3>4, <3>5, <3>6, <3>7 DEF Solves
      <3> QED BY <2>4, <3>8
    <2> QED BY <2>5, <2>6
  <1> DEFINE at(s, v) == \E D, h : Sol(D, h) /\ s \in D /\ h[s] = v
             f == [s \in SUBSET S |-> CHOOSE v : at(s, v)]
  <1>4. ASSUME NEW s \in SUBSET S, NEW D, NEW h, Sol(D, h), s \in D PROVE f[s] = h[s]
    <2>1. at(s, h[s]) BY <1>4
    <2>2. at(s, CHOOSE v : at(s, v)) BY <2>1
    <2>3. PICK E, g : Sol(E, g) /\ s \in E /\ g[s] = f[s] BY <2>2
    <2> QED BY <1>1, <1>4, <2>3
  <1>5. \A s \in SUBSET S : f[s] \in V BY <1>2, <1>3, <1>4
  <1>6. ASSUME NEW s \in SUBSET S
        PROVE  f[s] = IF s \in G THEN combine[<<s, f[step[s]]>>] ELSE base
    <2>1. PICK D, h : Sol(D, h) /\ s \in D BY <1>3
    <2>2. f[s] = h[s] BY <1>4, <2>1
    <2>3. CASE s \in G
      <3>1. step[s] \in D /\ h[s] = combine[<<s, h[step[s]]>>] BY <2>1, <2>3 DEF Solves
      <3>2. step[s] \in SUBSET S BY <2>3
      <3>3. f[step[s]] = h[step[s]] BY <1>4, <2>1, <3>1, <3>2
      <3> QED BY <2>2, <2>3, <3>1, <3>3
    <2>4. CASE s \notin G BY <2>1, <2>2, <2>4 DEF Solves
    <2> QED BY <2>3, <2>4
  <1>7. f \in [SUBSET S -> V] BY <1>5
  <1> HIDE DEF f
  <1>8. Solves(SUBSET S, f, S, G, step, combine, base) BY <1>6, <1>7 DEF Solves
  <1> QED BY <1>7, <1>8

-----------------------------------------------------------------------------
(* Sums over the subsets of a finite set *)

\* sum adds the weights of the members of every subset of S.
Adds(S, w, sum) ==
    /\ sum \in [SUBSET S -> Nat]
    /\ sum[{}] = 0
    /\ \A s \in SUBSET S : \A t \in s : sum[s] = w[t] + sum[s \ {t}]

\* There is such a function, whatever order the members are taken in.
LEMMA SumExists ==
  ASSUME NEW S, IsFiniteSet(S), NEW w \in [S -> Nat]
  PROVE  \E sum : Adds(S, w, sum)
  <1> DEFINE G == (SUBSET S) \ {{}}
             pick == [s \in SUBSET S |-> CHOOSE x \in s : TRUE]
             step == [s \in SUBSET S |-> s \ {pick[s]}]
             combine == [x \in (SUBSET S) \X Nat |-> w[pick[x[1]]] + x[2]]
  <1>1. \A s \in SUBSET S : s \in G <=> s # {} OBVIOUS
  <1>2. ASSUME NEW s \in SUBSET S, s # {} PROVE pick[s] \in s
    BY <1>2
  <1> HIDE DEF pick
  <1>3. \A s \in SUBSET S : step[s] = s \ {pick[s]} OBVIOUS
  <1> HIDE DEF step
  <1>4. \A s \in SUBSET S, v \in Nat : combine[<<s, v>>] = w[pick[s]] + v OBVIOUS
  <1> HIDE DEF combine, G
  <1>5. \A s \in SUBSET S, v \in Nat : s \in G => combine[<<s, v>>] \in Nat
    BY <1>1, <1>2, <1>4
  <1>6. \A s \in SUBSET S : s \in G => step[s] \subseteq s /\ step[s] # s
    BY <1>1, <1>2, <1>3
  <1>7. PICK f \in [SUBSET S -> Nat] : Solves(SUBSET S, f, S, G, step, combine, 0)
    <2>1. Descends(S, G, step, Nat, combine, 0) BY <1>5, <1>6 DEF Descends
    <2> QED BY <2>1, RecursionOnSubsets
  <1>8. f[{}] = 0 BY <1>1, <1>7 DEF Solves
  <1>9. ASSUME NEW s \in SUBSET S, s # {}
        PROVE  pick[s] \in s /\ f[s] = w[pick[s]] + f[s \ {pick[s]}]
    <2>1. s \ {pick[s]} \in SUBSET S OBVIOUS
    <2>2. f[s \ {pick[s]}] \in Nat BY <1>7, <2>1
    <2>3. f[s] = combine[<<s, f[step[s]]>>] BY <1>1, <1>7, <1>9 DEF Solves
    <2>4. step[s] = s \ {pick[s]} BY <1>3
    <2>5. f[s] = w[pick[s]] + f[s \ {pick[s]}] BY <1>4, <2>2, <2>3, <2>4
    <2> QED BY <1>2, <1>9, <2>5
  <1>10. ASSUME NEW s \in SUBSET S, NEW t \in s PROVE f[s] = w[t] + f[s \ {t}]
    <2> DEFINE Bad == {q \in SUBSET S : \E x \in q : f[q] # w[x] + f[q \ {x}]}
    <2> SUFFICES ASSUME Bad # {} PROVE FALSE OBVIOUS
    <2>1. Bad \in SUBSET SUBSET S OBVIOUS
    <2>2. \A q \in SUBSET S : q \in Bad <=> \E x \in q : f[q] # w[x] + f[q \ {x}] OBVIOUS
    <2> HIDE DEF Bad
    <2>3. PICK A \in Bad : \A B \in Bad : B \subseteq A => B = A BY <2>1, LeastSet
    <2>4. PICK x \in A : f[A] # w[x] + f[A \ {x}] BY <2>1, <2>2, <2>3
    <2>5. A \in SUBSET S /\ A # {} BY <2>1, <2>3, <2>4
    <2>6. PICK c \in A : f[A] = w[c] + f[A \ {c}] BY <1>9, <2>5
    <2>7. c # x BY <2>4, <2>6
    <2>8. A \ {c} \notin Bad /\ A \ {x} \notin Bad BY <2>3, <2>4, <2>6
    <2>9. /\ f[A \ {c}] = w[x] + f[(A \ {c}) \ {x}]
          /\ f[A \ {x}] = w[c] + f[(A \ {x}) \ {c}]
      BY <2>2, <2>5, <2>7, <2>8
    <2>10. (A \ {c}) \ {x} = (A \ {x}) \ {c} /\ (A \ {x}) \ {c} \in SUBSET S BY <2>5
    <2>11. w[x] \in Nat /\ w[c] \in Nat /\ f[(A \ {x}) \ {c}] \in Nat
      BY <1>7, <2>4, <2>5, <2>6, <2>10
    <2>12. \A i, j, k \in Nat : i + (j + k) = j + (i + k) OBVIOUS
    <2>13. f[A] = w[c] + (w[x] + f[(A \ {x}) \ {c}]) BY <2>6, <2>9, <2>10
    <2>14. w[x] + f[A \ {x}] = w[x] + (w[c] + f[(A \ {x}) \ {c}]) BY <2>9
    <2> QED BY <2>4, <2>11, <2>12, <2>13, <2>14
  <1> QED BY <1>7, <1>8, <1>10 DEF Adds

\* The iteration by which MapThenSumSet of the community modules is defined.
Iterates(g, ts, w) ==
    g = [s \in SUBSET ts |->
            IF s = {} THEN 0 ELSE w[CHOOSE x \in s : TRUE] + g[s \ {CHOOSE x \in s : TRUE}]]

\* It has a solution on the subsets of ts, and every solution is the sum.
LEMMA SumIterates ==
  ASSUME NEW S, IsFiniteSet(S), NEW w \in [S -> Nat], NEW sum, Adds(S, w, sum),
         NEW ts \in SUBSET S
  PROVE  /\ \E g : Iterates(g, ts, w)
         /\ \A g : Iterates(g, ts, w) => g[ts] = sum[ts]
  <1> DEFINE c(s) == CHOOSE x \in s : TRUE
             h == [s \in SUBSET ts |-> sum[s]]
  <1>1. \A s \in SUBSET ts : s # {} => c(s) \in s OBVIOUS
  <1> HIDE DEF c
  <1>2. ASSUME NEW s \in SUBSET ts
        PROVE  sum[s] = IF s = {} THEN 0 ELSE w[c(s)] + sum[s \ {c(s)}]
    BY <1>1 DEF Adds
  <1>3. \A s \in SUBSET ts : h[s] = IF s = {} THEN 0 ELSE w[c(s)] + h[s \ {c(s)}]
    BY <1>2
  <1>4. h = [s \in SUBSET ts |-> IF s = {} THEN 0 ELSE w[c(s)] + h[s \ {c(s)}]]
    BY <1>3
  <1>5. ASSUME NEW g, g = [s \in SUBSET ts |-> IF s = {} THEN 0 ELSE w[c(s)] + g[s \ {c(s)}]]
        PROVE  g[ts] = sum[ts]
    <2> DEFINE Bad == {q \in SUBSET ts : g[q] # sum[q]}
    <2> SUFFICES ASSUME Bad # {} PROVE FALSE OBVIOUS
    <2>1. Bad \in SUBSET SUBSET S OBVIOUS
    <2>2. \A q : q \in Bad <=> q \in SUBSET ts /\ g[q] # sum[q] OBVIOUS
    <2> HIDE DEF Bad
    <2>3. PICK A \in Bad : \A B \in Bad : B \subseteq A => B = A BY <2>1, LeastSet
    <2>4. A \in SUBSET ts /\ g[A] # sum[A] BY <2>2, <2>3
    <2>5. \A s \in SUBSET ts : g[s] = IF s = {} THEN 0 ELSE w[c(s)] + g[s \ {c(s)}]
      BY <1>5
    <2>6. A # {} BY <1>2, <2>4, <2>5
    <2>7. c(A) \in A /\ A \ {c(A)} \in SUBSET ts BY <1>1, <2>4, <2>6
    <2>8. A \ {c(A)} \notin Bad BY <2>3, <2>7
    <2>9. g[A \ {c(A)}] = sum[A \ {c(A)}] BY <2>2, <2>7, <2>8
    <2> QED BY <1>2, <2>4, <2>5, <2>6, <2>9
  <1> HIDE DEF h
  <1>6. \E g : g = [s \in SUBSET ts |-> IF s = {} THEN 0 ELSE w[c(s)] + g[s \ {c(s)}]]
    BY <1>4
  <1> QED BY <1>5, <1>6 DEF c, Iterates

\* A part of a set weighs no more than the whole, and disjoint parts add up.
LEMMA SumOfParts ==
  ASSUME NEW S, IsFiniteSet(S), NEW w \in [S -> Nat], NEW sum, Adds(S, w, sum),
         NEW A \in SUBSET S, NEW B \in SUBSET A
  PROVE  sum[A] = sum[B] + sum[A \ B] /\ sum[B] <= sum[A]
  <1> DEFINE Bad == {q \in SUBSET B : sum[A] # sum[B \ q] + sum[A \ (B \ q)]}
  <1>1. Bad \in SUBSET SUBSET S OBVIOUS
  <1>2. \A q \in SUBSET B : q \in Bad <=> sum[A] # sum[B \ q] + sum[A \ (B \ q)] OBVIOUS
  <1> DEFINE Good == {q \in SUBSET B : q \notin Bad}
  <1>3. \A q : q \in Good <=> q \in SUBSET B /\ sum[A] = sum[B \ q] + sum[A \ (B \ q)]
    OBVIOUS
  <1>4. Good \in SUBSET SUBSET S OBVIOUS
  <1> HIDE DEF Bad, Good
  <1>5. B \in Good
    <2>1. B \ B = {} /\ A \ (B \ B) = A BY SMT
    <2> QED BY <1>3, <2>1 DEF Adds
  <1>6. PICK q \in Good : \A r \in Good : r \subseteq q => r = q BY <1>4, <1>5, LeastSet
  <1>7. ASSUME NEW x \in q PROVE q \ {x} \in Good
    <2> DEFINE b == B \ q
               a == A \ b
    <2>1. q \in SUBSET B /\ sum[A] = sum[b] + sum[a] BY <1>3, <1>6
    <2>2. B \ (q \ {x}) = b \cup {x} /\ (b \cup {x}) \ {x} = b /\ b \cup {x} \in SUBSET S
      BY <1>7, <2>1
    <2>3. A \ (b \cup {x}) = a \ {x} /\ x \in a /\ a \in SUBSET S BY <1>7, <2>1
    <2>4. x \in S /\ b \in SUBSET S /\ a \ {x} \in SUBSET S BY <2>2, <2>3
    <2> HIDE DEF a, b
    <2>5. sum[a] = w[x] + sum[a \ {x}] /\ sum[b \cup {x}] = w[x] + sum[b]
      BY <2>2, <2>3, <2>4 DEF Adds
    <2>6. w[x] \in Nat /\ sum[b] \in Nat /\ sum[a \ {x}] \in Nat BY <2>4 DEF Adds
    <2>7. sum[A] = sum[b \cup {x}] + sum[a \ {x}] BY <2>1, <2>5, <2>6
    <2> QED BY <1>3, <2>1, <2>2, <2>3, <2>7
  <1>8. q = {} BY <1>6, <1>7
  <1>9. B \ {} = B OBVIOUS
  <1>10. sum[A] = sum[B] + sum[A \ B] BY <1>3, <1>6, <1>8, <1>9
  <1>11. sum[A] \in Nat /\ sum[B] \in Nat /\ sum[A \ B] \in Nat BY DEF Adds
  <1> QED BY <1>10, <1>11

\* A union weighs no more than its parts, and as much when they are disjoint.
LEMMA SumOfUnion ==
  ASSUME NEW S, IsFiniteSet(S), NEW w \in [S -> Nat], NEW sum, Adds(S, w, sum),
         NEW A \in SUBSET S, NEW B \in SUBSET S
  PROVE  /\ sum[A \cup B] <= sum[A] + sum[B]
         /\ A \cap B = {} => sum[A \cup B] = sum[A] + sum[B]
  <1>1. PICK U \in SUBSET S : U = A \cup B OBVIOUS
  <1>2. A \in SUBSET U BY <1>1
  <1>7. sum[U] = sum[A] + sum[U \ A] BY <1>2, SumOfParts
  <1>3. (A \cup B) \ A \in SUBSET B /\ (A \cup B) \ A \in SUBSET S OBVIOUS
  <1>4. sum[(A \cup B) \ A] <= sum[B] BY <1>3, SumOfParts
  <1>5. A \cap B = {} => (A \cup B) \ A = B OBVIOUS
  <1>6. sum[A] \in Nat /\ sum[B] \in Nat /\ sum[(A \cup B) \ A] \in Nat BY <1>3 DEF Adds
  <1> QED BY <1>1, <1>7, <1>4, <1>5, <1>6

\* f is one to one, and an image weighs as much as what it is the image of.
Embeds(f, T, u, S, w) ==
    /\ f \in [T -> S] /\ u \in [T -> Nat] /\ w \in [S -> Nat]
    /\ \A x, y \in T : f[x] = f[y] => x = y
    /\ \A x \in T : u[x] = w[f[x]]

\* The weights of the images of a one-to-one function are some of the weights.
LEMMA SumOfImages ==
  ASSUME NEW S, IsFiniteSet(S), NEW w, NEW sum, Adds(S, w, sum),
         NEW T, IsFiniteSet(T), NEW u, NEW part, Adds(T, u, part),
         NEW f, Embeds(f, T, u, S, w)
  PROVE  part[T] <= sum[S]
  <1> USE DEF Embeds
  <1> DEFINE Im(A) == {f[x] : x \in A}
             Bad == {A \in SUBSET T : part[A] # sum[Im(A)]}
  <1>1. Bad \in SUBSET SUBSET T OBVIOUS
  <1>2. \A A \in SUBSET T : A \in Bad <=> part[A] # sum[Im(A)] OBVIOUS
  <1> HIDE DEF Bad
  <1>3. ASSUME Bad # {} PROVE FALSE
    <2>1. PICK A \in Bad : \A B \in Bad : B \subseteq A => B = A BY <1>1, <1>3, LeastSet
    <2>2. A \in SUBSET T /\ part[A] # sum[Im(A)] BY <1>1, <1>2, <2>1
    <2>3. A # {}
      <3>1. ASSUME A = {} PROVE FALSE
        <4>1. Im(A) = {} BY <3>1
        <4> QED BY <2>2, <3>1, <4>1 DEF Adds
      <3> QED BY <3>1
    <2>4. PICK x \in A : TRUE BY <2>3
    <2>5. A \ {x} \notin Bad /\ A \ {x} \in SUBSET T BY <2>1, <2>2, <2>4
    <2>6. Im(A \ {x}) = Im(A) \ {f[x]} /\ f[x] \in Im(A) /\ Im(A) \in SUBSET S BY <2>2, <2>4
    <2>7. part[A \ {x}] = sum[Im(A) \ {f[x]}] BY <1>2, <2>5, <2>6
    <2> HIDE DEF Im
    <2>8. part[A] = u[x] + part[A \ {x}] /\ sum[Im(A)] = w[f[x]] + sum[Im(A) \ {f[x]}]
      BY <2>2, <2>4, <2>6 DEF Adds
    <2> QED BY <2>2, <2>4, <2>7, <2>8
  <1>4. part[T] = sum[Im(T)] BY <1>2, <1>3
  <1>5. Im(T) \in SUBSET S OBVIOUS
  <1> HIDE DEF Im
  <1>6. S \in SUBSET S OBVIOUS
  <1>7. sum[Im(T)] <= sum[S] BY <1>5, <1>6, SumOfParts
  <1> QED BY <1>4, <1>7

-----------------------------------------------------------------------------
(* Folds of sequences *)

\* The iteration by which FoldLeft of the community modules is defined, next
\* being applied to the position and the value so far, as long as that is in V.
Folds(g, n, V, base, next) ==
    /\ g[{}] = base
    /\ \A s \in SUBSET (1 .. n) : s # {} /\ g[s \ {Max(s)}] \in V
                                => g[s] = next[<<Max(s), g[s \ {Max(s)}]>>]

\* Every step leads from one stage to the next.
Staged(n, V, base, next, stage) ==
    /\ \A k \in 1 .. n, v \in V : next[<<k, v>>] \in V
    /\ stage \in [0 .. n -> SUBSET V]
    /\ base \in stage[0]
    /\ \A k \in 1 .. n : \A v \in stage[k - 1] : next[<<k, v>>] \in stage[k]

\* Then it has a solution, and every solution ends in the last stage.
LEMMA FoldReaches ==
  ASSUME NEW n \in Nat, NEW V, NEW base, NEW next, NEW stage, Staged(n, V, base, next, stage)
  PROVE  /\ \E g \in [SUBSET (1 .. n) -> V] : Folds(g, n, V, base, next)
         /\ \A g : Folds(g, n, V, base, next) => g[1 .. n] \in stage[n]
  <1> USE DEF Staged
  <1> DEFINE S == 1 .. n
             G == (SUBSET S) \ {{}}
             step == [s \in SUBSET S |-> s \ {Max(s)}]
             combine == [x \in (SUBSET S) \X V |-> next[<<Max(x[1]), x[2]>>]]
  <1>1. IsFiniteSet(S) BY FS_Interval
  <1>2. ASSUME NEW s \in SUBSET S, s # {} PROVE Max(s) \in s /\ \A m \in s : m <= Max(s)
    <2>1. s \in SUBSET Nat /\ \A m \in s : m <= n OBVIOUS
    <2> QED BY <1>2, <2>1, MaxIsGreatest
  <1>3. base \in V
    <2>1. 0 \in 0 .. n OBVIOUS
    <2> QED BY <2>1
  <1>4. \A s \in SUBSET S : s \in G <=> s # {} OBVIOUS
  <1>5. \A s \in SUBSET S : step[s] = s \ {Max(s)} OBVIOUS
  <1>6. \A s \in SUBSET S, v \in V : combine[<<s, v>>] = next[<<Max(s), v>>] OBVIOUS
  <1> HIDE DEF G, step, combine
  <1>7. Descends(S, G, step, V, combine, base)
    <2>1. \A s \in SUBSET S : s \in G => step[s] \subseteq s /\ step[s] # s BY <1>2, <1>4, <1>5
    <2>2. ASSUME NEW s \in SUBSET S, NEW v \in V, s \in G PROVE combine[<<s, v>>] \in V
      <3>1. Max(s) \in S BY <1>2, <1>4, <2>2
      <3> QED BY <1>6, <3>1
    <2> QED BY <1>3, <2>1, <2>2 DEF Descends
  <1> HIDE DEF S
  <1>8. PICK f : f \in [SUBSET S -> V] /\ Solves(SUBSET S, f, S, G, step, combine, base)
    BY <1>1, <1>7, RecursionOnSubsets
  <1>9. ASSUME NEW s \in SUBSET S
        PROVE  f[s] = IF s = {} THEN base ELSE next[<<Max(s), f[s \ {Max(s)}]>>]
    <2>1. s \ {Max(s)} \in SUBSET S /\ f[s \ {Max(s)}] \in V BY <1>8
    <2>2. CASE s = {} BY <1>4, <1>8, <2>2 DEF Solves
    <2>3. CASE s # {}
      <3>1. f[s] = combine[<<s, f[step[s]]>>] BY <1>4, <1>8, <2>3 DEF Solves
      <3>2. combine[<<s, f[s \ {Max(s)}]>>] = next[<<Max(s), f[s \ {Max(s)}]>>] BY <1>6, <2>1
      <3> QED BY <1>5, <2>3, <3>1, <3>2
    <2> QED BY <2>2, <2>3
  <1>10. {} \in SUBSET S OBVIOUS
  <1>11. \E g \in [SUBSET (1 .. n) -> V] : Folds(g, n, V, base, next)
    BY <1>8, <1>9, <1>10 DEF Folds, S
  <1>12. ASSUME NEW g, Folds(g, n, V, base, next) PROVE g[1 .. n] \in stage[n]
    <2>1. /\ g[{}] = base
          /\ \A s \in SUBSET S : s # {} /\ g[s \ {Max(s)}] \in V
                 => g[s] = next[<<Max(s), g[s \ {Max(s)}]>>]
      BY <1>12 DEF Folds, S
    <2> DEFINE Bad == {k \in 0 .. n : g[1 .. k] \notin stage[k]}
    <2>2. Bad \in SUBSET Nat OBVIOUS
    <2>3. \A k \in 0 .. n : k \in Bad <=> g[1 .. k] \notin stage[k] OBVIOUS
    <2>4. \A k \in Bad : k \in 0 .. n OBVIOUS
    <2> HIDE DEF Bad
    <2>5. ASSUME Bad # {} PROVE FALSE
      <3>1. PICK k \in Bad : \A j \in Bad : k <= j BY <2>2, <2>5, LeastNatural
      <3>2. k \in 0 .. n /\ g[1 .. k] \notin stage[k] BY <2>3, <2>4, <3>1
      <3>3. CASE k = 0
        <4>1. 1 .. k = {} BY <3>3
        <4>2. g[{}] = base BY <2>1
        <4> QED BY <3>2, <3>3, <4>1, <4>2
      <3>4. CASE k # 0
        <4>1. k - 1 \in 0 .. n /\ k \in 1 .. n /\ ~ (k <= k - 1) BY <3>2, <3>4
        <4>2. g[1 .. k - 1] \in stage[k - 1] BY <2>3, <3>1, <4>1
        <4>3. 1 .. k \in SUBSET S /\ k \in 1 .. k /\ 1 .. k # {}
          <5>1. k \in 1 .. k BY <4>1
          <5>2. \A j \in 1 .. k : j \in 1 .. n BY <4>1
          <5> QED BY <5>1, <5>2 DEF S
        <4>4. Max(1 .. k) = k
          <5>1. Max(1 .. k) \in 1 .. k /\ k <= Max(1 .. k) BY <1>2, <4>3
          <5> QED BY <4>1, <5>1
        <4>5. (1 .. k) \ {k} = 1 .. k - 1 BY <4>1
        <4>6. stage[k - 1] \in SUBSET V BY <4>1
        <4>7. g[1 .. k] = next[<<k, g[1 .. k - 1]>>] BY <2>1, <4>2, <4>3, <4>4, <4>5, <4>6
        <4> QED BY <3>2, <4>1, <4>2, <4>7
      <3> QED BY <3>3, <3>4
    <2>6. n \in 0 .. n OBVIOUS
    <2> QED BY <2>3, <2>5, <2>6
  <1> QED BY <1>11, <1>12

-----------------------------------------------------------------------------
(* Leaving members of a sequence out *)

\* r is what the first k members of os leave when those at the places of out go.
KeptOf(r, os, k, out) ==
    \E f \in [1 .. Len(r) -> 1 .. k] :
        /\ \A i, j \in 1 .. Len(r) : i < j => f[i] < f[j]
        /\ \A i \in 1 .. Len(r) : r[i] = os[f[i]] /\ f[i] \notin out

\* One more member stays or goes.
LEMMA KeepNext ==
  ASSUME NEW X, NEW os \in Seq(X), NEW out, NEW k \in 1 .. Len(os), NEW r \in Seq(X),
         KeptOf(r, os, k - 1, out)
  PROVE  IF k \in out THEN KeptOf(r, os, k, out) ELSE KeptOf(Append(r, os[k]), os, k, out)
  <1>1. PICK f \in [1 .. Len(r) -> 1 .. k - 1] :
           /\ \A i, j \in 1 .. Len(r) : i < j => f[i] < f[j]
           /\ \A i \in 1 .. Len(r) : r[i] = os[f[i]] /\ f[i] \notin out
    BY DEF KeptOf
  <1>2. PICK n \in Nat : n = Len(r) OBVIOUS
  <1>3. k \in Nat /\ \A j \in 1 .. k - 1 : j \in 1 .. k /\ j < k OBVIOUS
  <1>4. CASE k \in out
    <2>1. f \in [1 .. Len(r) -> 1 .. k] BY <1>1, <1>3
    <2> QED BY <1>1, <1>4, <2>1 DEF KeptOf
  <1>5. CASE k \notin out
    <2>1. PICK q : q = Append(r, os[k]) OBVIOUS
    <2>2. os[k] \in X OBVIOUS
    <2>3. Len(q) = n + 1 /\ q[n + 1] = os[k] /\ \A i \in 1 .. n : q[i] = r[i]
      BY <1>2, <2>1, <2>2
    <2> DEFINE g == [i \in 1 .. n + 1 |-> IF i = n + 1 THEN k ELSE f[i]]
    <2>4. \A i \in 1 .. n + 1 : i = n + 1 \/ i \in 1 .. n BY <1>2
    <2>5. /\ ~ (n + 1 \in 1 .. n) /\ n + 1 \in 1 .. n + 1
          /\ \A i \in 1 .. n : i \in 1 .. n + 1 /\ i < n + 1
      BY <1>2
    <2>6. g[n + 1] = k /\ \A i \in 1 .. n : g[i] = f[i] BY <2>5
    <2>7. k \in 1 .. k BY <1>3
    <2>8. g \in [1 .. n + 1 -> 1 .. k] BY <1>1, <1>2, <1>3, <2>4, <2>7
    <2> HIDE DEF g
    <2>9. ASSUME NEW i \in 1 .. n + 1, NEW j \in 1 .. n + 1, i < j PROVE g[i] < g[j]
      <3>1. i \in 1 .. n BY <1>2, <2>9
      <3>2. CASE j = n + 1 BY <1>1, <1>2, <1>3, <2>6, <3>1, <3>2
      <3>3. CASE j \in 1 .. n BY <1>1, <1>2, <2>6, <2>9, <3>1, <3>3
      <3> QED BY <2>4, <3>2, <3>3
    <2>10. \A i \in 1 .. n + 1 : q[i] = os[g[i]] /\ g[i] \notin out
      BY <1>1, <1>2, <1>5, <2>3, <2>4, <2>6
    <2>11. KeptOf(q, os, k, out) BY <2>3, <2>8, <2>9, <2>10 DEF KeptOf
    <2> QED BY <1>5, <2>1, <2>11
  <1> QED BY <1>4, <1>5

\* The iteration by which a fold that leaves members out is defined.
Sifts(g, os, out) ==
    g = [s \in SUBSET DOMAIN os |->
            IF s = {} THEN << >>
            ELSE IF Max(s) \in out THEN g[s \ {Max(s)}]
                 ELSE Append(g[s \ {Max(s)}], os[Max(s)])]

\* It has a solution, and every solution keeps the others in their order.
LEMMA SiftKeeps ==
  ASSUME NEW X, NEW os \in Seq(X), NEW out
  PROVE  /\ \E g : Sifts(g, os, out)
         /\ \A g : Sifts(g, os, out) => /\ g[DOMAIN os] \in Seq(X)
                                        /\ KeptOf(g[DOMAIN os], os, Len(os), out)
  <1> DEFINE n == Len(os)
             V == Seq(X)
             next == [x \in (1 .. n) \X V |->
                         IF x[1] \in out THEN x[2] ELSE Append(x[2], os[x[1]])]
             stage == [k \in 0 .. n |-> {r \in V : KeptOf(r, os, k, out)}]
  <1>2. n \in Nat /\ DOMAIN os = 1 .. n OBVIOUS
  <1>3. \A k \in 1 .. n, v \in V :
           next[<<k, v>>] = IF k \in out THEN v ELSE Append(v, os[k])
    OBVIOUS
  <1>4. \A k \in 1 .. n : os[k] \in X OBVIOUS
  <1>5. \A v \in V, o \in X : Append(v, o) \in V OBVIOUS
  <1>6. \A k \in 0 .. n : \A v : v \in stage[k] <=> v \in V /\ KeptOf(v, os, k, out) OBVIOUS
  <1>7. stage \in [0 .. n -> SUBSET V] OBVIOUS
  <1>8. << >> \in stage[0]
    <2>1. Len(<< >>) = 0 /\ 1 .. 0 = {} OBVIOUS
    <2>2. [i \in {} |-> i] \in [{} -> {}] OBVIOUS
    <2>3. KeptOf(<< >>, os, 0, out) BY <2>1, <2>2 DEF KeptOf
    <2>4. << >> \in V OBVIOUS
    <2> QED BY <1>2, <1>6, <2>3, <2>4
  <1>9. ASSUME NEW k \in 1 .. n, NEW v \in stage[k - 1] PROVE next[<<k, v>>] \in stage[k]
    <2>1. k - 1 \in 0 .. n /\ k \in 0 .. n BY <1>2
    <2>2. v \in Seq(X) /\ KeptOf(v, os, k - 1, out) BY <1>6, <2>1
    <2>3. IF k \in out THEN KeptOf(v, os, k, out) ELSE KeptOf(Append(v, os[k]), os, k, out)
      BY <2>2, KeepNext
    <2> QED BY <1>3, <1>4, <1>5, <1>6, <2>1, <2>2, <2>3
  <1>10. \A k \in 1 .. n, v \in V : next[<<k, v>>] \in V BY <1>3, <1>4, <1>5
  <1> HIDE DEF next, stage, V, n
  <1>11. /\ \E g \in [SUBSET (1 .. n) -> V] : Folds(g, n, V, << >>, next)
         /\ \A g : Folds(g, n, V, << >>, next) => g[1 .. n] \in stage[n]
    <2>1. Staged(n, V, << >>, next, stage) BY <1>7, <1>8, <1>9, <1>10 DEF Staged
    <2> QED BY <1>2, <2>1, FoldReaches
  <1>12. PICK g \in [SUBSET (1 .. n) -> V] : Folds(g, n, V, << >>, next) BY <1>11
  <1>13. ASSUME NEW s \in SUBSET (1 .. n), s # {} PROVE Max(s) \in 1 .. n
    <2>1. s \in SUBSET Nat /\ \A m \in s : m <= n BY <1>2
    <2>2. Max(s) \in s BY <1>2, <1>13, <2>1, MaxIsGreatest
    <2> QED BY <2>2
  <1>14. ASSUME NEW s \in SUBSET (1 .. n)
         PROVE  g[s] = IF s = {} THEN << >>
                       ELSE IF Max(s) \in out THEN g[s \ {Max(s)}]
                            ELSE Append(g[s \ {Max(s)}], os[Max(s)])
    <2>1. CASE s = {} BY <1>12, <2>1 DEF Folds
    <2>2. CASE s # {}
      <3>1. s \ {Max(s)} \in SUBSET (1 .. n) /\ g[s \ {Max(s)}] \in V BY <1>12
      <3>2. g[s] = next[<<Max(s), g[s \ {Max(s)}]>>] BY <1>12, <2>2, <3>1 DEF Folds
      <3> QED BY <1>3, <1>13, <2>2, <3>1, <3>2
    <2> QED BY <2>1, <2>2
  <1>15. Sifts(g, os, out) BY <1>2, <1>12, <1>14 DEF Sifts
  <1>16. ASSUME NEW iter, Sifts(iter, os, out)
         PROVE  iter[1 .. n] \in V /\ KeptOf(iter[1 .. n], os, n, out)
    <2>0. iter = [s \in SUBSET DOMAIN os |->
                        IF s = {} THEN << >>
                        ELSE IF Max(s) \in out THEN iter[s \ {Max(s)}]
                             ELSE Append(iter[s \ {Max(s)}], os[Max(s)])]
      BY <1>16 DEF Sifts
    <2>1. ASSUME NEW s \in SUBSET (1 .. n), s # {}, iter[s \ {Max(s)}] \in V
          PROVE  iter[s] = next[<<Max(s), iter[s \ {Max(s)}]>>]
      <3>1. iter[s] = IF Max(s) \in out THEN iter[s \ {Max(s)}]
                      ELSE Append(iter[s \ {Max(s)}], os[Max(s)])
        BY <1>2, <2>0, <2>1
      <3> QED BY <1>3, <1>13, <2>1, <3>1
    <2>2. iter[{}] = << >>
      <3>1. {} \in SUBSET DOMAIN os OBVIOUS
      <3> QED BY <2>0, <3>1
    <2>3. Folds(iter, n, V, << >>, next) BY <2>1, <2>2 DEF Folds
    <2>4. iter[1 .. n] \in stage[n] /\ n \in 0 .. n BY <1>2, <1>11, <2>3
    <2> QED BY <1>6, <2>4
  <1> QED BY <1>2, <1>15, <1>16 DEF V, n

\* What stays is no longer and weighs no more.
LEMMA KeptWeighs ==
  ASSUME NEW X, NEW os \in Seq(X), NEW r \in Seq(X), NEW out, KeptOf(r, os, Len(os), out),
         NEW w \in [1 .. Len(os) -> Nat], NEW u \in [1 .. Len(r) -> Nat],
         \A i \in 1 .. Len(r), j \in 1 .. Len(os) : r[i] = os[j] => u[i] = w[j],
         NEW sum, Adds(1 .. Len(os), w, sum), NEW part, Adds(1 .. Len(r), u, part)
  PROVE  Len(r) <= Len(os) /\ part[1 .. Len(r)] <= sum[1 .. Len(os)]
  <1>1. PICK n \in Nat : n = Len(os) OBVIOUS
  <1>2. PICK l \in Nat : l = Len(r) OBVIOUS
  <1>3. PICK f \in [1 .. l -> 1 .. n] :
           /\ \A i, j \in 1 .. l : i < j => f[i] < f[j]
           /\ \A i \in 1 .. l : r[i] = os[f[i]] /\ f[i] \notin out
    BY <1>1, <1>2 DEF KeptOf
  <1>4. ASSUME NEW i \in 1 .. l, NEW j \in 1 .. l, f[i] = f[j] PROVE i = j
    <2>1. i \in Int /\ j \in Int /\ f[i] \in Int /\ f[j] \in Int BY <1>3
    <2>2. ~ (f[i] < f[j]) /\ ~ (f[j] < f[i]) BY <1>4, <2>1
    <2>3. ~ (i < j) /\ ~ (j < i) BY <1>3, <2>2
    <2> QED BY <2>1, <2>3
  <1>5. IsFiniteSet(1 .. n) /\ IsFiniteSet(1 .. l) BY FS_Interval
  <1>6. l <= n
    <2>1. Cardinality(1 .. n) = n /\ Cardinality(1 .. l) = l BY FS_Interval
    <2>2. f \in Injection(1 .. l, 1 .. n) BY <1>3, <1>4 DEF Injection, IsInjective
    <2> QED BY <1>5, <2>1, <2>2, FS_Injection DEF ExistsInjection
  <1>7. \A x \in 1 .. l : u[x] = w[f[x]] BY <1>1, <1>2, <1>3
  <1>8. Embeds(f, 1 .. l, u, 1 .. n, w) BY <1>1, <1>2, <1>3, <1>4, <1>7 DEF Embeds
  <1>9. part[1 .. l] <= sum[1 .. n] BY <1>1, <1>2, <1>5, <1>8, SumOfImages
  <1> QED BY <1>1, <1>2, <1>6, <1>9

-----------------------------------------------------------------------------
(* Doing the same again and again *)

\* f holds what next makes of start, done once, twice, and so on up to n times.
Repeats(f, n, V, start, next) ==
    /\ f = [k \in 1 .. n |-> f[k]]
    /\ \A k \in 1 .. n : LET last == IF k = 1 THEN start ELSE f[k - 1]
                         IN  last \in V => f[k] = next[last]

\* There is such a function, and all it holds is in V.
LEMMA RepeatExists ==
  ASSUME NEW n \in Nat, NEW V, NEW start \in V, NEW next \in [V -> V]
  PROVE  /\ \E f : Repeats(f, n, V, start, next)
         /\ \A f : Repeats(f, n, V, start, next) => f \in [1 .. n -> V]
  <1>1. ASSUME NEW f, NEW m \in Nat, Repeats(f, m, V, start, next)
        PROVE  \A k \in 1 .. m : f[k] \in V
    <2> DEFINE Bad == {k \in Nat : k \in 1 .. m /\ f[k] \notin V}
    <2>1. SUFFICES ASSUME Bad # {} PROVE FALSE OBVIOUS
    <2>2. PICK k \in Bad : \A j \in Bad : k <= j BY <2>1, LeastNatural
    <2>3. CASE k = 1
      <3>1. f[k] = next[start] BY <1>1, <2>2, <2>3 DEF Repeats
      <3> QED BY <2>2, <3>1
    <2>4. CASE k # 1
      <3>1. k - 1 \in 1 .. m /\ ~ (k <= k - 1) BY <2>2, <2>4
      <3>2. f[k - 1] \in V BY <2>2, <3>1
      <3>3. f[k] = next[f[k - 1]] BY <1>1, <2>2, <2>4, <3>2 DEF Repeats
      <3> QED BY <2>2, <3>2, <3>3
    <2> QED BY <2>3, <2>4
  <1>2. \E f : Repeats(f, n, V, start, next)
    <2> DEFINE Bad == {m \in Nat : ~ \E f : Repeats(f, m, V, start, next)}
    <2>1. SUFFICES ASSUME Bad # {} PROVE FALSE OBVIOUS
    <2>2. PICK m \in Bad : \A j \in Bad : m <= j BY <2>1, LeastNatural
    <2>3. CASE m = 0
      <3>1. PICK f : f = [k \in 1 .. 0 |-> start] OBVIOUS
      <3>2. Repeats(f, 0, V, start, next) BY <3>1 DEF Repeats
      <3> QED BY <2>2, <2>3, <3>2
    <2>4. CASE m # 0
      <3>1. m - 1 \in Nat /\ ~ (m <= m - 1) BY <2>2, <2>4
      <3>2. PICK f : Repeats(f, m - 1, V, start, next) BY <2>2, <3>1
      <3>3. PICK g : g = [k \in 1 .. m |->
                             IF k = m THEN next[IF m = 1 THEN start ELSE f[m - 1]] ELSE f[k]]
        OBVIOUS
      <3>4. \A k \in 1 .. m - 1 : g[k] = f[k] BY <2>2, <3>3
      <3>5. ASSUME NEW k \in 1 .. m, (IF k = 1 THEN start ELSE g[k - 1]) \in V
            PROVE  g[k] = next[IF k = 1 THEN start ELSE g[k - 1]]
        <4>1. CASE k = m
          <5>1. g[k] = next[IF m = 1 THEN start ELSE f[m - 1]] BY <3>3, <4>1
          <5>2. m # 1 => g[m - 1] = f[m - 1] BY <2>2, <2>4, <3>4
          <5> QED BY <4>1, <5>1, <5>2
        <4>2. CASE k # m
          <5>1. k \in 1 .. m - 1 BY <2>2, <4>2
          <5>2. k # 1 => k - 1 \in 1 .. m - 1 BY <2>2, <5>1
          <5>3. g[k] = f[k] /\ (k # 1 => g[k - 1] = f[k - 1]) BY <3>4, <5>1, <5>2
          <5>4. CASE k = 1
            <6>1. f[k] = next[start] BY <3>2, <5>1, <5>4 DEF Repeats
            <6> QED BY <5>3, <5>4, <6>1
          <5>5. CASE k # 1
            <6>1. f[k - 1] \in V BY <3>5, <5>3, <5>5
            <6>2. f[k] = next[f[k - 1]] BY <3>2, <5>1, <5>5, <6>1 DEF Repeats
            <6> QED BY <5>3, <5>5, <6>2
          <5> QED BY <5>4, <5>5
        <4> QED BY <4>1, <4>2
      <3>6. g = [k \in 1 .. m |-> g[k]] BY <3>3
      <3>7. Repeats(g, m, V, start, next) BY <3>5, <3>6 DEF Repeats
      <3> QED BY <2>2, <3>7
    <2> QED BY <2>3, <2>4
  <1>3. \A f : Repeats(f, n, V, start, next) => f \in [1 .. n -> V]
    <2> SUFFICES ASSUME NEW f, Repeats(f, n, V, start, next) PROVE f \in [1 .. n -> V] OBVIOUS
    <2>1. \A k \in 1 .. n : f[k] \in V BY <1>1
    <2>2. f = [k \in 1 .. n |-> f[k]] BY DEF Repeats
    <2> QED BY <2>1, <2>2
  <1> QED BY <1>2, <1>3

\* next only ever adds members; it does not lead out of W.
Widens(next, S) == next \in [SUBSET S -> SUBSET S] /\ \A W \in SUBSET S : W \subseteq next[W]
Confined(next, W) == \A X \in SUBSET W : next[X] \subseteq W

\* If next only ever adds members, a finite set is exhausted in the end.
LEMMA RepeatSettles ==
  ASSUME NEW S, IsFiniteSet(S), NEW start \in SUBSET S, start # {}, NEW next, Widens(next, S),
         NEW n, n = Cardinality(S) + 1, NEW f, Repeats(f, n, SUBSET S, start, next),
         NEW all, all = f[n]
  PROVE  all \in SUBSET S /\ start \subseteq all /\ next[all] = all
  <1> USE DEF Widens
  <1>1. PICK c \in Nat : c = Cardinality(S) BY FS_CardinalityType
  <1>2. c + 1 \in Nat /\ Repeats(f, c + 1, SUBSET S, start, next) BY <1>1
  <1>3. f \in [1 .. c + 1 -> SUBSET S] BY <1>2, RepeatExists
  <1>4. /\ f[1] = next[start]
        /\ \A k \in 2 .. c + 1 : f[k] = next[f[k - 1]]
    <2>1. f[1] = next[start]
      <3>1. 1 \in 1 .. c + 1 OBVIOUS
      <3> QED BY <1>2, <3>1 DEF Repeats
    <2>2. ASSUME NEW k \in 2 .. c + 1 PROVE f[k] = next[f[k - 1]]
      <3>1. k \in 1 .. c + 1 /\ k - 1 \in 1 .. c + 1 /\ k # 1 OBVIOUS
      <3>2. f[k - 1] \in SUBSET S BY <1>3, <3>1
      <3> QED BY <1>2, <3>1, <3>2 DEF Repeats
    <2> QED BY <2>1, <2>2
  <1>5. \A W \in SUBSET S : IsFiniteSet(W) /\ Cardinality(W) \in Nat /\ Cardinality(W) <= c
    BY <1>1, FS_Subset, FS_CardinalityType
  <1> DEFINE Good(k) == /\ start \subseteq f[k]
                        /\ next[f[k]] = f[k] \/ k <= Cardinality(f[k])
             Bad == {k \in Nat : k \in 1 .. c + 1 /\ ~ Good(k)}
  <1>6. ASSUME Bad # {} PROVE FALSE
    <2>1. PICK k \in Bad : \A j \in Bad : k <= j BY <1>6, LeastNatural
    <2>2. k \in 1 .. c + 1 /\ ~ Good(k) BY <2>1
    <2>3. f[k] \in SUBSET S BY <1>3, <2>2
    <2>4. CASE k = 1
      <3>1. start \subseteq f[1] BY <1>4
      <3>2. Cardinality(f[1]) # 0 /\ Cardinality(f[1]) \in Nat
        BY <1>5, <2>3, <2>4, <3>1, FS_EmptySet
      <3>3. 1 <= Cardinality(f[1]) BY <3>2
      <3> QED BY <2>2, <2>4, <3>1, <3>3
    <2>5. CASE k # 1
      <3>1. k - 1 \in 1 .. c + 1 /\ k \in 2 .. c + 1 /\ ~ (k <= k - 1) BY <2>2, <2>5
      <3>2. Good(k - 1) BY <2>1, <3>1
      <3>3. f[k] = next[f[k - 1]] /\ f[k - 1] \in SUBSET S BY <1>3, <1>4, <3>1
      <3>4. f[k - 1] \subseteq f[k] BY <3>3
      <3>5. CASE f[k] = f[k - 1] 
        BY <2>2, <3>1, <3>2, <3>3, <3>5
      <3>6. CASE f[k] # f[k - 1]
        <4>1. k - 1 <= Cardinality(f[k - 1]) BY <3>2, <3>3, <3>6
        <4>2. Cardinality(f[k - 1]) < Cardinality(f[k])
          BY <1>5, <2>3, <3>3, <3>4, <3>6, FS_Subset
        <4>3. PICK x, y \in Nat : x = Cardinality(f[k - 1]) /\ y = Cardinality(f[k])
          BY <1>5, <2>3, <3>3
        <4>4. k <= y BY <2>2, <4>1, <4>2, <4>3
        <4> QED BY <2>2, <3>2, <3>4, <4>3, <4>4
      <3> QED BY <3>5, <3>6
    <2> QED BY <2>4, <2>5
  <1>7. c + 1 \in 1 .. c + 1 OBVIOUS
  <1>8. Good(c + 1) BY <1>6, <1>7
  <1>9. ~ (c + 1 <= Cardinality(f[c + 1])) BY <1>3, <1>5, <1>7
  <1> QED BY <1>1, <1>3, <1>7, <1>8, <1>9

\* What next cannot leave, repeating it does not leave.
LEMMA RepeatStays ==
  ASSUME NEW S, NEW n \in Nat, NEW start \in SUBSET S, NEW next, Widens(next, S),
         NEW f, Repeats(f, n, SUBSET S, start, next),
         NEW W \in SUBSET S, start \subseteq W, Confined(next, W), n # 0, NEW all, all = f[n]
  PROVE  all \subseteq W
  <1> USE DEF Widens, Confined
  <1>1. f \in [1 .. n -> SUBSET S] BY RepeatExists
  <1> DEFINE Bad == {k \in Nat : k \in 1 .. n /\ ~ (f[k] \subseteq W)}
  <1>2. n \in 1 .. n OBVIOUS
  <1>3. SUFFICES ASSUME Bad # {} PROVE FALSE BY <1>2
  <1>4. PICK k \in Bad : \A j \in Bad : k <= j BY <1>3, LeastNatural
  <1>5. CASE k = 1
    <2>1. f[1] = next[start] BY <1>4, <1>5 DEF Repeats
    <2> QED BY <1>4, <1>5, <2>1
  <1>6. CASE k # 1
    <2>1. k - 1 \in 1 .. n /\ ~ (k <= k - 1) BY <1>4, <1>6
    <2>2. f[k - 1] \in SUBSET W BY <1>4, <2>1
    <2>3. f[k - 1] \in SUBSET S BY <1>1, <2>1
    <2>4. f[k] = next[f[k - 1]] BY <1>4, <1>6, <2>3 DEF Repeats
    <2> QED BY <1>4, <2>2, <2>4
  <1> QED BY <1>5, <1>6

-----------------------------------------------------------------------------
(* Listing a finite set in order *)

\* R is a strict and total order of S.
Orders(R, S) ==
    /\ \A x \in S : <<x, x>> \notin R
    /\ \A x, y \in S : x = y \/ <<x, y>> \in R \/ <<y, x>> \in R
    /\ \A x, y, z \in S : <<x, y>> \in R /\ <<y, z>> \in R => <<x, z>> \in R

\* How many members come before x.
Place(R, S, x) == Cardinality({y \in S : <<y, x>> \in R})

\* The later of two members has more before it, and every place is taken.
LEMMA PlacesTaken ==
  ASSUME NEW S, IsFiniteSet(S), NEW R, Orders(R, S)
  PROVE  /\ \A x, y \in S : <<x, y>> \in R => Place(R, S, x) < Place(R, S, y)
         /\ \A k \in 1 .. Cardinality(S) : \E x \in S : Place(R, S, x) = k - 1
  <1> USE DEF Orders
  <1> DEFINE before(x) == {y \in S : <<y, x>> \in R}
  <1>1. ASSUME NEW x \in S
        PROVE  IsFiniteSet(before(x)) /\ Place(R, S, x) \in Nat
    <2>1. PICK T \in SUBSET S : T = before(x) OBVIOUS
    <2>2. IsFiniteSet(T) BY FS_Subset
    <2>3. Cardinality(T) \in Nat BY <2>2, FS_CardinalityType
    <2> QED BY <2>1, <2>2, <2>3 DEF Place
  <1>2. ASSUME NEW x \in S, NEW y \in S, <<x, y>> \in R
        PROVE  Place(R, S, x) < Place(R, S, y)
    <2>1. PICK T : T = before(x) OBVIOUS
    <2>2. PICK U : U = before(y) OBVIOUS
    <2>3. T \in SUBSET U /\ x \in U /\ x \notin T BY <1>2, <2>1, <2>2
    <2>4. IsFiniteSet(U) BY <1>1, <2>2
    <2>5. Cardinality(T) <= Cardinality(U) /\ Cardinality(T) # Cardinality(U)
      BY <2>3, <2>4, FS_Subset
    <2>6. Place(R, S, x) = Cardinality(T) /\ Place(R, S, y) = Cardinality(U)
      BY <2>1, <2>2 DEF Place
    <2>7. Cardinality(T) \in Nat /\ Cardinality(U) \in Nat BY <2>3, <2>4, FS_Subset, FS_CardinalityType
    <2> QED BY <2>5, <2>6, <2>7
  <1>3. PICK n \in Nat : n = Cardinality(S) BY FS_CardinalityType
  <1>4. ASSUME NEW x \in S PROVE Place(R, S, x) + 1 \in 1 .. n
    <2>1. PICK T : T = before(x) OBVIOUS
    <2>2. T \in SUBSET S /\ x \notin T BY <2>1
    <2>3. Cardinality(T) <= n /\ Cardinality(T) # n BY <1>3, <2>2, FS_Subset
    <2>4. Place(R, S, x) = Cardinality(T) BY <2>1 DEF Place
    <2>5. Cardinality(T) \in Nat BY <2>2, FS_Subset, FS_CardinalityType
    <2>6. \A c \in Nat : c <= n /\ c # n => c + 1 \in 1 .. n OBVIOUS
    <2> QED BY <2>3, <2>4, <2>5, <2>6
  <1>0. \A x \in S : Place(R, S, x) \in Nat BY <1>1
  <1> DEFINE f == [x \in S |-> Place(R, S, x) + 1]
  <1>5. \A x \in S : f[x] = Place(R, S, x) + 1 OBVIOUS
  <1>6. f \in [S -> 1 .. n] BY <1>4
  <1> HIDE DEF f
  <1>7. ASSUME NEW x \in S, NEW y \in S, f[x] = f[y] PROVE x = y
    <2>1. PICK p \in Nat : p = Place(R, S, x) BY <1>0
    <2>2. PICK q \in Nat : q = Place(R, S, y) BY <1>0
    <2>3. p + 1 = q + 1 BY <1>5, <1>7, <2>1, <2>2
    <2>4. p = q BY <2>3
    <2>5. <<x, y>> \in R => p < q BY <1>2, <2>1, <2>2
    <2>6. <<y, x>> \in R => q < p BY <1>2, <2>1, <2>2
    <2> QED BY <2>4, <2>5, <2>6
  <1>8. f \in Injection(S, 1 .. n) BY <1>6, <1>7 DEF Injection, IsInjective
  <1>9. IsFiniteSet(1 .. n) /\ Cardinality(1 .. n) = n BY FS_Interval
  <1>10. f \in Surjection(S, 1 .. n) BY <1>3, <1>8, <1>9, FS_Injection
  <1>11. \A k \in 1 .. n : \E x \in S : f[x] = k BY <1>10 DEF Surjection
  <1>12. ASSUME NEW k \in 1 .. n PROVE \E x \in S : Place(R, S, x) = k - 1
    <2>1. PICK x \in S : f[x] = k BY <1>11
    <2>2. PICK p \in Nat : p = Place(R, S, x) BY <1>0
    <2>3. p + 1 = k BY <1>5, <2>1, <2>2
    <2>4. p = k - 1 BY <2>3
    <2> QED BY <2>2, <2>4
  <1> QED BY <1>2, <1>3, <1>12

\* r lists the members of S, each once and in the order R.
Lists(r, S, R) ==
    /\ r \in Seq(S) /\ \A x \in S : \E k \in DOMAIN r : r[k] = x
    /\ \A i, j \in DOMAIN r : i < j => <<r[i], r[j]>> \in R /\ r[i] # r[j]

\* So does the function that has at every place the member that belongs there.
LEMMA PlacesList ==
  ASSUME NEW S, IsFiniteSet(S), NEW R, Orders(R, S), NEW r,
         r = [k \in 1 .. Cardinality(S) |-> CHOOSE x \in S : Place(R, S, x) = k - 1]
  PROVE  Lists(r, S, R)
  <1>1. PICK n \in Nat : n = Cardinality(S) BY FS_CardinalityType
  <1>2. /\ \A x, y \in S : <<x, y>> \in R => Place(R, S, x) < Place(R, S, y)
        /\ \A k \in 1 .. n : \E x \in S : Place(R, S, x) = k - 1
    BY <1>1, PlacesTaken
  <1>3. \A k \in 1 .. n : r[k] \in S /\ Place(R, S, r[k]) = k - 1 BY <1>1, <1>2
  <1>4. r \in Seq(S) /\ DOMAIN r = 1 .. n
    <2>1. r \in [1 .. n -> S] /\ DOMAIN r = 1 .. n BY <1>1, <1>3
    <2>2. \A f : f \in [1 .. n -> S] => f \in Seq(S) OBVIOUS
    <2> QED BY <2>1, <2>2
  <1>5. ASSUME NEW i \in 1 .. n, NEW j \in 1 .. n, i < j PROVE <<r[i], r[j]>> \in R /\ r[i] # r[j]
    <2>1. ~ (j - 1 < i - 1) /\ i - 1 # j - 1 BY <1>5
    <2>2. r[i] # r[j] BY <1>3, <2>1
    <2>3. ~ (<<r[j], r[i]>> \in R) BY <1>2, <1>3, <2>1
    <2> QED BY <1>3, <2>2, <2>3 DEF Orders
  <1>6. ASSUME NEW x \in S PROVE \E k \in 1 .. n : r[k] = x
    <2>1. \A y \in S : Place(R, S, y) \in Nat
      <3> SUFFICES ASSUME NEW y \in S PROVE Place(R, S, y) \in Nat OBVIOUS
      <3>1. PICK T \in SUBSET S : T = {z \in S : <<z, y>> \in R} OBVIOUS
      <3>2. IsFiniteSet(T) BY FS_Subset
      <3> QED BY <3>1, <3>2, FS_CardinalityType DEF Place
    <2>2. ASSUME NEW y \in S, Place(R, S, x) = Place(R, S, y) PROVE x = y
      <3>1. PICK p \in Nat : p = Place(R, S, x) /\ p = Place(R, S, y) BY <2>1, <2>2
      <3>2. ~ (p < p) OBVIOUS
      <3>3. ~ (<<x, y>> \in R) /\ ~ (<<y, x>> \in R) BY <1>2, <3>1, <3>2
      <3> QED BY <3>3 DEF Orders
    <2>3. PICK T \in SUBSET S : T = {z \in S : <<z, x>> \in R} OBVIOUS
    <2>4. x \notin T BY <2>3 DEF Orders
    <2>5. Cardinality(T) <= n /\ Cardinality(T) # n BY <1>1, <2>4, FS_Subset
    <2>6. PICK k \in Nat : k = Place(R, S, x) /\ k = Cardinality(T) BY <2>1, <2>3 DEF Place
    <2>7. k + 1 \in 1 .. n /\ (k + 1) - 1 = k BY <2>5, <2>6
    <2>8. r[k + 1] \in S /\ Place(R, S, r[k + 1]) = k BY <1>3, <2>7
    <2>9. r[k + 1] = x BY <2>2, <2>6, <2>8
    <2> QED BY <2>7, <2>9
  <1>7. ASSUME NEW i \in DOMAIN r, NEW j \in DOMAIN r, i < j
        PROVE  <<r[i], r[j]>> \in R /\ r[i] # r[j]
    <2>1. i \in 1 .. n /\ j \in 1 .. n BY <1>4
    <2> QED BY <1>5, <1>7, <2>1
  <1>8. \A x \in S : \E k \in DOMAIN r : r[k] = x BY <1>4, <1>6
  <1> HIDE DEF Orders
  <1> QED BY <1>4, <1>7, <1>8 DEF Lists

-----------------------------------------------------------------------------
(* Adding up along a sequence *)

\* The iteration by which a fold that adds the weights of a sequence is defined.
Totals(g, r, w) ==
    g = [s \in SUBSET DOMAIN r |->
            IF s = {} THEN 0 ELSE g[s \ {Max(s)}] + w[r[Max(s)]]]

\* Nothing is there twice.
Apart(r) == \A i, j \in DOMAIN r : i < j => r[i] # r[j]

\* Then it has a solution, and every solution is the sum.
LEMMA FoldAdds ==
  ASSUME NEW X, NEW w \in [X -> Nat], NEW sum, Adds(X, w, sum), NEW r \in Seq(X), Apart(r)
  PROVE  /\ \E g : Totals(g, r, w)
         /\ \A g : Totals(g, r, w) => g[DOMAIN r] = sum[{r[k] : k \in DOMAIN r}]
  <1> DEFINE n == Len(r)
             first(k) == {r[j] : j \in 1 .. k}
             next == [x \in (1 .. n) \X Nat |-> x[2] + w[r[x[1]]]]
             stage == [k \in 0 .. n |-> {sum[first(k)]}]
  <1>1. n \in Nat /\ DOMAIN r = 1 .. n OBVIOUS
  <1>2. \A k \in 1 .. n : r[k] \in X /\ w[r[k]] \in Nat BY <1>1
  <1>3. \A i, j \in 1 .. n : i < j => r[i] # r[j] BY <1>1 DEF Apart
  <1>4. \A k \in 1 .. n, v \in Nat : next[<<k, v>>] = v + w[r[k]] OBVIOUS
  <1>5. \A k \in 0 .. n : first(k) \in SUBSET X
    <2>1. \A k \in 0 .. n : \A j \in 1 .. k : j \in 1 .. n BY <1>1
    <2> QED BY <1>2, <2>1
  <1>6. \A k \in 0 .. n : stage[k] = {sum[first(k)]} /\ sum[first(k)] \in Nat
    BY <1>5 DEF Adds
  <1>7. stage \in [0 .. n -> SUBSET Nat] BY <1>6
  <1> HIDE DEF n, next, stage
  <1>8. ASSUME NEW k \in 1 .. n
        PROVE  k - 1 \in 0 .. n /\ k \in 0 .. n /\ sum[first(k)] = sum[first(k - 1)] + w[r[k]]
    <2>1. k - 1 \in 0 .. n /\ k \in 0 .. n /\ k \in 1 .. k BY <1>1
    <2>2. \A j \in 1 .. k : j = k \/ j \in 1 .. k - 1 BY <1>1
    <2>3. \A j \in 1 .. k - 1 : j \in 1 .. k /\ j < k /\ j \in 1 .. n BY <1>1
    <2>4. PICK A : A = first(k) OBVIOUS
    <2>5. r[k] \in A BY <2>1, <2>4
    <2>6. A \ {r[k]} = first(k - 1) BY <1>3, <2>2, <2>3, <2>4
    <2>7. A \in SUBSET X BY <1>5, <2>1, <2>4
    <2>8. sum[A] = w[r[k]] + sum[A \ {r[k]}] BY <2>5, <2>7 DEF Adds
    <2>9. sum[first(k - 1)] \in Nat /\ w[r[k]] \in Nat BY <1>2, <1>6, <2>1
    <2>10. PICK a \in Nat : a = sum[first(k - 1)] BY <2>9
    <2>11. PICK b \in Nat : b = w[r[k]] BY <2>9
    <2>12. sum[A] = b + a BY <2>6, <2>8, <2>10, <2>11
    <2> QED BY <2>1, <2>4, <2>10, <2>11, <2>12
  <1>9. 0 \in stage[0] /\ 0 \in 0 .. n /\ n \in 0 .. n
    <2>1. 0 \in 0 .. n /\ n \in 0 .. n BY <1>1
    <2>2. first(0) = {} OBVIOUS
    <2>3. sum[first(0)] = 0 BY <2>2 DEF Adds
    <2> QED BY <1>6, <2>1, <2>3
  <1>10. ASSUME NEW k \in 1 .. n, NEW v \in Nat PROVE next[<<k, v>>] \in Nat
    <2>1. PICK b \in Nat : b = w[r[k]] BY <1>2
    <2>2. next[<<k, v>>] = v + b BY <1>4, <2>1
    <2> QED BY <2>2
  <1>11. ASSUME NEW k \in 1 .. n, NEW v \in stage[k - 1] PROVE next[<<k, v>>] \in stage[k]
    <2>0. stage[k - 1] = {sum[first(k - 1)]} /\ sum[first(k - 1)] \in Nat
      <3>1. PICK l \in 0 .. n : l = k - 1 BY <1>8
      <3> QED BY <1>6, <3>1
    <2>1. v = sum[first(k - 1)] /\ v \in Nat BY <2>0
    <2>2. next[<<k, v>>] = v + w[r[k]] BY <1>4, <2>1
    <2> QED BY <1>6, <1>8, <2>1, <2>2
  <1> HIDE DEF first
  <1>12. Staged(n, Nat, 0, next, stage) BY <1>7, <1>9, <1>10, <1>11 DEF Staged
  <1>13. /\ \E g \in [SUBSET (1 .. n) -> Nat] : Folds(g, n, Nat, 0, next)
         /\ \A g : Folds(g, n, Nat, 0, next) => g[1 .. n] \in stage[n]
    BY <1>1, <1>12, FoldReaches
  <1>14. ASSUME NEW s \in SUBSET (1 .. n), s # {} PROVE Max(s) \in 1 .. n
    <2>1. s \in SUBSET Nat /\ \A m \in s : m <= n BY <1>1
    <2>2. Max(s) \in s BY <1>1, <1>14, <2>1, MaxIsGreatest
    <2> QED BY <2>2
  <1>15. PICK g \in [SUBSET (1 .. n) -> Nat] : Folds(g, n, Nat, 0, next) BY <1>13
  <1>16. ASSUME NEW s \in SUBSET (1 .. n)
         PROVE  g[s] = IF s = {} THEN 0 ELSE g[s \ {Max(s)}] + w[r[Max(s)]]
    <2>1. CASE s = {} BY <1>15, <2>1 DEF Folds
    <2>2. CASE s # {}
      <3>1. s \ {Max(s)} \in SUBSET (1 .. n) /\ g[s \ {Max(s)}] \in Nat BY <1>15
      <3>2. g[s] = next[<<Max(s), g[s \ {Max(s)}]>>] BY <1>15, <2>2, <3>1 DEF Folds
      <3> QED BY <1>4, <1>14, <2>2, <3>1, <3>2
    <2> QED BY <2>1, <2>2
  <1>17. Totals(g, r, w) BY <1>1, <1>15, <1>16 DEF Totals
  <1>18. ASSUME NEW h, Totals(h, r, w) PROVE h[1 .. n] = sum[first(n)]
    <2>0. h = [s \in SUBSET DOMAIN r |->
                IF s = {} THEN 0 ELSE h[s \ {Max(s)}] + w[r[Max(s)]]]
      BY <1>18 DEF Totals
    <2>1. ASSUME NEW s \in SUBSET (1 .. n), s # {}, h[s \ {Max(s)}] \in Nat
          PROVE  h[s] = next[<<Max(s), h[s \ {Max(s)}]>>]
      <3>1. h[s] = h[s \ {Max(s)}] + w[r[Max(s)]] BY <1>1, <2>0, <2>1
      <3> QED BY <1>4, <1>14, <2>1, <3>1
    <2>2. h[{}] = 0
      <3>1. {} \in SUBSET DOMAIN r OBVIOUS
      <3> QED BY <2>0, <3>1
    <2>3. Folds(h, n, Nat, 0, next) BY <2>1, <2>2 DEF Folds
    <2> QED BY <1>6, <1>9, <1>13, <2>3
  <1>19. first(n) = {r[k] : k \in DOMAIN r} BY <1>1 DEF first
  <1> QED BY <1>1, <1>17, <1>18, <1>19
=============================================================================
