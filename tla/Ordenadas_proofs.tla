--------------------------- MODULE Ordenadas_proofs ---------------------------
(* Lemmas about the order of naturals and the sequences that enumerate a set   *)
(* in the order of a relation: the sort.Slice and the ORDER BY of the code.    *)
EXTENDS Integers, SequencesExt, FiniteSetTheorems, WellFoundedInduction, TLAPS

\* A set of naturals has a first one.
LEMMA HayPrimero ==
    ASSUME NEW S \in SUBSET Nat, S # {} PROVE \E x \in S : \A y \in S : x <= y
<1> DEFINE R == OpToRel(<, Nat)
<1>1. IsWellFoundedOn(R, Nat)
  BY NatLessThanWellFounded
<1> HIDE DEF R
<1>2. PICK x \in S : \A y \in S : <<y, x>> \notin R
  BY <1>1, WFMin
<1>3. \A y \in S : ~(y < x)
  BY <1>2 DEF R, OpToRel
<1> QED BY <1>3

\* Induction, of a set of naturals instead of a predicate.
LEMMA InduccionDeConjuntos ==
    ASSUME NEW T \in SUBSET Nat, 0 \in T, \A n \in T : n + 1 \in T PROVE T = Nat
<1>1. SUFFICES ASSUME Nat \ T # {} PROVE FALSE
  OBVIOUS
<1>2. PICK x \in Nat \ T : \A y \in Nat \ T : x <= y
  BY <1>1, HayPrimero
<1>3. x # 0 /\ x - 1 \in Nat /\ x - 1 \notin Nat \ T
  BY <1>2
<1> QED BY <1>2, <1>3

\* R puts every two elements of S in an order, and only one.
OrdenTotal(R, S) ==
    /\ \A x \in S : <<x, x>> \notin R
    /\ \A x, y, z \in S : <<x, y>> \in R /\ <<y, z>> \in R => <<x, z>> \in R
    /\ \A x, y \in S : x # y => <<x, y>> \in R \/ <<y, x>> \in R

\* A finite set with a total order is enumerated in that order: each element has the
\* place that the number of those before it leaves.
LEMMA HayOrdenada ==
    ASSUME NEW S, IsFiniteSet(S), NEW R, OrdenTotal(R, S)
    PROVE  \E s \in SetToSeqs(S) : \A j, k \in DOMAIN s : j < k => <<s[j], s[k]>> \in R
<1> DEFINE n == Cardinality(S)
           Antes(x) == {y \in S : <<y, x>> \in R}
           r == [x \in S |-> Cardinality(Antes(x)) + 1]
<1>1. n \in Nat /\ IsFiniteSet(1..n) /\ Cardinality(1..n) = n
  BY FS_CardinalityType, FS_Interval
<1>2. \A x \in S : IsFiniteSet(Antes(x)) /\ Cardinality(Antes(x)) \in Nat
  BY FS_Subset, FS_CardinalityType
<1>3. \A x \in S : Cardinality(Antes(x)) < n
  <2>1. TAKE x \in S
  <2>2. Antes(x) \in SUBSET S /\ S # Antes(x)
    BY DEF OrdenTotal
  <2>3. Cardinality(Antes(x)) <= n /\ (n = Cardinality(Antes(x)) => S = Antes(x))
    <3> HIDE DEF Antes
    <3> QED BY <2>2, FS_Subset
  <2> HIDE DEF Antes, n
  <2> QED BY <1>1, <1>2, <2>2, <2>3
<1>4. \A x, y \in S : <<x, y>> \in R => r[x] < r[y]
  <2>1. TAKE x, y \in S
  <2>2. HAVE <<x, y>> \in R
  <2>3. Antes(x) \in SUBSET Antes(y) /\ Antes(y) # Antes(x)
    BY <2>2 DEF OrdenTotal
  <2>4. /\ Cardinality(Antes(x)) <= Cardinality(Antes(y))
        /\ Cardinality(Antes(y)) = Cardinality(Antes(x)) => Antes(y) = Antes(x)
    <3> HIDE DEF Antes
    <3> QED BY <1>2, <2>3, FS_Subset
  <2>5. Cardinality(Antes(x)) < Cardinality(Antes(y))
    <3> HIDE DEF Antes
    <3> QED BY <1>2, <2>3, <2>4
  <2>6. r[x] = Cardinality(Antes(x)) + 1 /\ r[y] = Cardinality(Antes(y)) + 1
    OBVIOUS
  <2> HIDE DEF Antes, r
  <2> QED BY <1>2, <2>5, <2>6
<1>5. r \in [S -> 1..n]
  <2> SUFFICES \A x \in S : Cardinality(Antes(x)) + 1 \in 1..n
    OBVIOUS
  <2> HIDE DEF Antes, n
  <2> QED BY <1>1, <1>2, <1>3
<1> HIDE DEF r, Antes
<1>6. \A x, y \in S : x # y => r[x] # r[y]
  <2>1. TAKE x, y \in S
  <2>2. HAVE x # y
  <2>3. r[x] < r[y] \/ r[y] < r[x]
    BY <1>4, <2>2 DEF OrdenTotal
  <2>4. r[x] \in Nat /\ r[y] \in Nat
    BY <1>5, <1>1
  <2> HIDE DEF n
  <2> QED BY <2>3, <2>4
<1>7. \A k \in 1..n : \E x \in S : r[x] = k
  <2>1. r \in Injection(S, 1..n)
    BY <1>5, <1>6 DEF Injection, IsInjective
  <2>2. r \in Surjection(S, 1..n)
    BY <1>1, <2>1, FS_Injection
  <2> QED BY <2>2 DEF Surjection
<1> DEFINE s == [k \in 1..n |-> CHOOSE x \in S : r[x] = k]
<1>8. \A k \in 1..n : s[k] \in S /\ r[s[k]] = k
  BY <1>7
<1>9. s \in SetToSeqs(S)
  <2>1. s \in [1..n -> S]
    BY <1>8
  <2>2. \A j, k \in 1..n : j # k => s[j] # s[k]
    <3> HIDE DEF s
    <3> QED BY <1>8
  <2> QED BY <2>1, <2>2 DEF SetToSeqs
<1>10. \A j, k \in 1..n : j < k => <<s[j], s[k]>> \in R
  <2>1. TAKE j, k \in 1..n
  <2>2. HAVE j < k
  <2>3. s[j] \in S /\ s[k] \in S /\ r[s[j]] = j /\ r[s[k]] = k
    BY <1>8
  <2> HIDE DEF s
  <2>4. s[j] # s[k] /\ <<s[k], s[j]>> \notin R
    BY <1>1, <1>4, <2>2, <2>3
  <2> QED BY <2>3, <2>4 DEF OrdenTotal
<1>11. DOMAIN s = 1..n
  OBVIOUS
<1> HIDE DEF s
<1> QED BY <1>9, <1>10, <1>11

\* A sequence that enumerates a set has its elements, each once.
LEMMA Enumerada ==
    ASSUME NEW S, IsFiniteSet(S), NEW s \in SetToSeqs(S)
    PROVE  /\ s \in Seq(S) /\ Len(s) = Cardinality(S) /\ DOMAIN s = 1..Len(s)
           /\ \A j, k \in DOMAIN s : s[j] = s[k] => j = k
           /\ \A x \in S : \E k \in DOMAIN s : s[k] = x
           /\ Range(s) = S
<1> DEFINE n == Cardinality(S)
<1>1. n \in Nat /\ IsFiniteSet(1..n) /\ Cardinality(1..n) = n
  BY FS_CardinalityType, FS_Interval
<1>2. s \in [1..n -> S] /\ \A j, k \in 1..n : j # k => s[j] # s[k]
  BY DEF SetToSeqs
<1> HIDE DEF n
<1>3. s \in Seq(S) /\ Len(s) = n /\ DOMAIN s = 1..n
  BY <1>1, <1>2
<1>4. s \in Injection(1..n, S)
  BY <1>2 DEF Injection, IsInjective
<1>5. s \in Surjection(1..n, S)
  BY <1>1, <1>4, FS_Injection DEF n
<1>6. \A x \in S : \E k \in 1..n : s[k] = x
  BY <1>5 DEF Surjection
<1>7. Range(s) = S
  BY <1>2, <1>6 DEF Range
<1> QED BY <1>2, <1>3, <1>6, <1>7 DEF n

\* One sequence after another: nothing is repeated if they share nothing.
LEMMA UnaTrasOtra ==
    ASSUME NEW S, NEW s \in Seq(S), NEW t \in Seq(S), IsInjective(s), IsInjective(t),
           Range(s) \cap Range(t) = {}
    PROVE  /\ s \o t \in Seq(S) /\ Len(s \o t) = Len(s) + Len(t)
           /\ IsInjective(s \o t)
           /\ Range(s \o t) = Range(s) \cup Range(t)
<1> DEFINE u == s \o t
<1>1. /\ u \in Seq(S) /\ Len(u) = Len(s) + Len(t) /\ DOMAIN u = 1..Len(u)
      /\ \A k \in 1..Len(s) : u[k] = s[k]
      /\ \A k \in Len(s) + 1..Len(u) : u[k] = t[k - Len(s)]
      /\ Len(s) \in Nat /\ Len(t) \in Nat /\ DOMAIN s = 1..Len(s) /\ DOMAIN t = 1..Len(t)
  OBVIOUS
<1> HIDE DEF u
<1>2. \A k \in DOMAIN u : \/ k \in DOMAIN s /\ u[k] = s[k]
                          \/ k - Len(s) \in DOMAIN t /\ u[k] = t[k - Len(s)]
  BY <1>1
<1>3. \A k \in DOMAIN s : k \in DOMAIN u /\ u[k] = s[k]
  BY <1>1
<1>4. \A k \in DOMAIN t : k + Len(s) \in DOMAIN u /\ u[k + Len(s)] = t[k]
  BY <1>1
<1>5. Range(u) = Range(s) \cup Range(t)
  BY <1>2, <1>3, <1>4 DEF Range
<1>6. IsInjective(u)
  <2> SUFFICES ASSUME NEW j \in DOMAIN u, NEW k \in DOMAIN u, u[j] = u[k] PROVE j = k
    BY DEF IsInjective
  <2>1. \A a \in DOMAIN s, b \in DOMAIN t : s[a] # t[b]
    BY DEF Range
  <2>2. CASE j \in DOMAIN s /\ k \in DOMAIN s
    BY <1>3, <2>2 DEF IsInjective
  <2>3. CASE j - Len(s) \in DOMAIN t /\ k - Len(s) \in DOMAIN t
    <3>1. j \in Len(s) + 1..Len(u) /\ k \in Len(s) + 1..Len(u)
      BY <1>1, <2>3
    <3>2. t[j - Len(s)] = t[k - Len(s)]
      BY <1>1, <3>1
    <3>3. j - Len(s) = k - Len(s)
      BY <2>3, <3>2 DEF IsInjective
    <3> QED BY <1>1, <3>1, <3>3
  <2> QED BY <1>2, <2>1, <2>2, <2>3
<1> QED BY <1>1, <1>5, <1>6 DEF u

\* What is left of a sequence without repetitions when its first element is taken.
LEMMA SinLaPrimera ==
    ASSUME NEW S, NEW s \in Seq(S), s # << >>, IsInjective(s)
    PROVE  /\ Head(s) \in Range(s) /\ Tail(s) \in Seq(S)
           /\ IsInjective(Tail(s)) /\ Len(Tail(s)) = Len(s) - 1
           /\ Range(Tail(s)) = Range(s) \ {Head(s)}
<1> DEFINE t == Tail(s)
<1>1. /\ t \in Seq(S) /\ Len(t) = Len(s) - 1 /\ Len(s) \in Nat /\ Len(s) > 0
      /\ DOMAIN t = 1..Len(t) /\ DOMAIN s = 1..Len(s)
      /\ \A k \in 1..Len(t) : t[k] = s[k + 1]
      /\ Head(s) = s[1]
  OBVIOUS
<1> HIDE DEF t
<1>2. Head(s) \in Range(s)
  BY <1>1 DEF Range
<1>3. IsInjective(t)
  BY <1>1 DEF IsInjective
<1>4. Range(t) \subseteq Range(s) \ {Head(s)}
  <2> SUFFICES ASSUME NEW k \in DOMAIN t PROVE t[k] \in Range(s) \ {Head(s)}
    BY DEF Range
  <2>1. k + 1 \in DOMAIN s /\ 1 \in DOMAIN s /\ t[k] = s[k + 1] /\ k + 1 # 1
    BY <1>1
  <2> QED BY <1>1, <2>1 DEF Range, IsInjective
<1>5. Range(s) \ {Head(s)} \subseteq Range(t)
  <2> SUFFICES ASSUME NEW k \in DOMAIN s, s[k] # Head(s) PROVE s[k] \in Range(t)
    BY DEF Range
  <2>1. k - 1 \in DOMAIN t /\ t[k - 1] = s[k]
    BY <1>1
  <2> QED BY <2>1 DEF Range
<1> QED BY <1>1, <1>2, <1>3, <1>4, <1>5 DEF t
=============================================================================
