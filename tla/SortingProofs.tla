--------------------------- MODULE SortingProofs ----------------------------
(***************************************************************************)
(* Numbers, ranks and orders: what Ascending lists, and what cutting a     *)
(* ranked list at a limit leaves.  The other proof modules do induction    *)
(* over data with lemma Least.                                             *)
(***************************************************************************)
EXTENDS Sorting, WellFoundedInduction, FiniteSetTheorems, TLAPS

\* A set of numbers has a least one.  Induction is done with this: the set is
\* that of the counterexamples.
LEMMA Least == ASSUME NEW S \in SUBSET Nat, S # {} PROVE \E m \in S : \A k \in S : m <= k
<1> DEFINE R == OpToRel(<, Nat)
<1>1. \E x \in S : \A y \in S : ~ (<<y, x>> \in R)
  BY NatLessThanWellFounded, WFMin
<1>2. R = {ss \in Nat \X Nat : ss[1] < ss[2]}
  BY Zenon DEF OpToRel
<1>3. \A x, y \in Nat : y < x => <<y, x>> \in R
  <2> HIDE DEF R
  <2> QED  BY <1>2
<1> HIDE DEF R
<1>4. PICK m \in S : \A y \in S : ~ (<<y, m>> \in R)
  BY <1>1
<1>5. \A k \in S : ~ (k < m)
  BY <1>3, <1>4
<1> QED  BY <1>5


StrictOrder(S, R) ==
    /\ \A a \in S : <<a, a>> \notin R
    /\ \A a, b, c \in S : <<a, b>> \in R /\ <<b, c>> \in R => <<a, c>> \in R
    /\ \A a, b \in S : a # b => <<a, b>> \in R \/ <<b, a>> \in R

Ranking(S, R, rank) ==
    /\ \A b \in S : Cardinality({a \in S : <<a, b>> \in R}) = rank[b] - 1
    /\ \A a, b \in S : rank[a] < rank[b] <=> <<a, b>> \in R
    /\ \A a, b \in S : rank[a] = rank[b] => a = b
    /\ \A i \in 1 .. Cardinality(S) : \E a \in S : rank[a] = i

\* Ranking a finite set by a strict total order numbers its members from 1 on.
LEMMA RankNumbers ==
    ASSUME NEW S, IsFiniteSet(S), NEW R, StrictOrder(S, R)
    PROVE  /\ Cardinality(S) \in Nat
           /\ \E rank \in [S -> 1 .. Cardinality(S)] : Ranking(S, R, rank)
<1> DEFINE n == Cardinality(S)
           Before(b) == {a \in S : <<a, b>> \in R}
           rank == [b \in S |-> Cardinality(Before(b)) + 1]
<1> USE DEF StrictOrder
<1>1. n \in Nat
  BY FS_CardinalityType
<1>2. ASSUME NEW b \in S
      PROVE  /\ IsFiniteSet(Before(b)) /\ Cardinality(Before(b)) \in Nat
             /\ Cardinality(Before(b)) < n
  <2>1. Before(b) \in SUBSET S /\ Before(b) # S
    OBVIOUS
  <2>2. /\ IsFiniteSet(Before(b)) /\ Cardinality(Before(b)) <= n
        /\ Cardinality(Before(b)) # n
    BY <2>1, FS_Subset
  <2> QED  BY <1>1, <2>2, FS_CardinalityType
<1>3. ASSUME NEW a \in S, NEW b \in S, <<a, b>> \in R
      PROVE  Cardinality(Before(a)) < Cardinality(Before(b))
  <2>1. a \in Before(b) /\ a \notin Before(a)
    BY <1>3
  <2>2. Before(a) \in SUBSET Before(b) /\ Before(a) # Before(b)
    BY <1>3, <2>1
  <2>3. Cardinality(Before(a)) <= Cardinality(Before(b))
        /\ Cardinality(Before(a)) # Cardinality(Before(b))
    BY <1>2, <2>2, FS_Subset
  <2>4. Cardinality(Before(a)) \in Nat /\ Cardinality(Before(b)) \in Nat
    BY <1>2
  <2> QED  BY <2>3, <2>4
<1> HIDE DEF Before
<1>4. \A b \in S : /\ rank[b] \in 1 .. n
                   /\ Cardinality(Before(b)) = rank[b] - 1
  <2> TAKE b \in S
  <2>1. Cardinality(Before(b)) \in Nat /\ Cardinality(Before(b)) < n
    BY <1>2
  <2>2. rank[b] = Cardinality(Before(b)) + 1
    OBVIOUS
  <2> HIDE DEF rank
  <2> QED  BY <1>1, <2>1, <2>2
<1>5. rank \in [S -> 1 .. n]
  BY <1>4
<1> HIDE DEF rank
<1>6. \A a, b \in S : <<a, b>> \in R => rank[a] < rank[b]
  <2> TAKE a, b \in S
  <2> HAVE <<a, b>> \in R
  <2>1. Cardinality(Before(a)) < Cardinality(Before(b))
    BY <1>3
  <2>2. rank[a] \in Nat /\ rank[b] \in Nat
    BY <1>1, <1>4
  <2>3. rank[a] - 1 < rank[b] - 1
    BY <1>4, <2>1
  <2> QED  BY <2>2, <2>3
<1>7. \A a, b \in S : rank[a] < rank[b] => <<a, b>> \in R
  <2> TAKE a, b \in S
  <2>1. rank[a] \in Nat /\ rank[b] \in Nat
    BY <1>1, <1>4
  <2>2. a = b \/ rank[a] < rank[b] \/ rank[b] < rank[a]
    BY <1>6
  <2>3. a # b => <<a, b>> \in R \/ <<b, a>> \in R
    OBVIOUS
  <2>4. <<b, a>> \in R => rank[b] < rank[a]
    BY <1>6
  <2> QED  BY <2>1, <2>2, <2>3, <2>4
<1>8. \A a, b \in S : rank[a] = rank[b] => a = b
  <2> TAKE a, b \in S
  <2>1. rank[a] \in Nat /\ rank[b] \in Nat
    BY <1>1, <1>4
  <2>2. a = b \/ rank[a] < rank[b] \/ rank[b] < rank[a]
    BY <1>6
  <2>3. a # b => <<a, b>> \in R \/ <<b, a>> \in R
    OBVIOUS
  <2>4. <<b, a>> \in R => rank[b] < rank[a]
    BY <1>6
  <2> QED  BY <2>1, <2>2, <2>3, <2>4
<1>9. rank \in Injection(S, 1 .. n)
  BY <1>5, <1>8 DEF Injection, IsInjective
<1>10. IsFiniteSet(1 .. n) /\ Cardinality(1 .. n) = n
  BY <1>1, FS_Interval
<1>11. rank \in Surjection(S, 1 .. n)
  BY <1>9, <1>10, FS_Injection
<1>12. \A i \in 1 .. n : \E a \in S : rank[a] = i
  BY <1>11 DEF Surjection
<1>13. Ranking(S, R, rank)
  BY <1>4, <1>6, <1>7, <1>8, <1>12 DEF Before, Ranking
<1> QED  BY <1>1, <1>5, <1>13

\* ORDER BY ts ASC: every time once, the older before the newer.
LEMMA AscendingEnumerates ==
    ASSUME NEW S \in SUBSET Int, IsFiniteSet(S)
    PROVE  /\ Cardinality(S) \in Nat
           /\ Ascending(S) \in [1 .. Cardinality(S) -> S]
           /\ \A i, j \in 1 .. Cardinality(S) :
                 i < j <=> Ascending(S)[i] < Ascending(S)[j]
           /\ \A t \in S : \E i \in 1 .. Cardinality(S) : Ascending(S)[i] = t
<1> DEFINE n == Cardinality(S)
           R == {p \in S \X S : p[1] < p[2]}
<1>1. \A a, b \in S : <<a, b>> \in R <=> a < b
  OBVIOUS
<1> HIDE DEF R
<1>2. StrictOrder(S, R)
  BY <1>1 DEF StrictOrder
<1>3. n \in Nat
  BY <1>2, RankNumbers
<1>r. PICK rank \in [S -> 1 .. n] : Ranking(S, R, rank)
  BY <1>2, RankNumbers
<1>4. /\ \A b \in S : Cardinality({a \in S : <<a, b>> \in R}) = rank[b] - 1
      /\ \A a, b \in S : rank[a] < rank[b] <=> <<a, b>> \in R
      /\ \A a, b \in S : rank[a] = rank[b] => a = b
      /\ \A i \in 1 .. n : \E a \in S : rank[a] = i
  BY <1>r DEF Ranking
<1>5. \A b \in S : Cardinality({a \in S : a < b}) = rank[b] - 1
  <2> TAKE b \in S
  <2>1. {a \in S : <<a, b>> \in R} = {a \in S : a < b}
    BY <1>1
  <2> QED  BY <1>4, <2>1
<1>6. ASSUME NEW i \in 1 .. n
      PROVE  Ascending(S)[i] \in S /\ rank[Ascending(S)[i]] = i
  <2>1. \E t \in S : Cardinality({u \in S : u < t}) = i - 1
    BY <1>4, <1>5
  <2>2. Ascending(S)[i] = CHOOSE t \in S : Cardinality({u \in S : u < t}) = i - 1
    BY DEF Ascending
  <2>3. Ascending(S)[i] \in S
        /\ Cardinality({u \in S : u < Ascending(S)[i]}) = i - 1
    BY <2>1, <2>2
  <2>4. rank[Ascending(S)[i]] - 1 = i - 1 /\ rank[Ascending(S)[i]] \in 1 .. n
    BY <1>4, <1>5, <2>3
  <2> QED  BY <1>3, <2>3, <2>4
<1>7. Ascending(S) \in [1 .. n -> S]
  BY <1>6 DEF Ascending
<1>8. \A i, j \in 1 .. n : i < j <=> Ascending(S)[i] < Ascending(S)[j]
  <2> TAKE i, j \in 1 .. n
  <2>1. /\ rank[Ascending(S)[i]] = i /\ rank[Ascending(S)[j]] = j
        /\ Ascending(S)[i] \in S /\ Ascending(S)[j] \in S
    BY <1>6
  <2> DEFINE a == Ascending(S)[i]
             b == Ascending(S)[j]
  <2> HIDE DEF a, b
  <2>2. a \in S /\ b \in S /\ rank[a] = i /\ rank[b] = j
    BY <2>1 DEF a, b
  <2>3. rank[a] < rank[b] <=> a < b
    BY <1>1, <1>4, <2>2
  <2> QED  BY <2>2, <2>3 DEF a, b
<1>9. \A t \in S : rank[t] \in 1 .. n /\ Ascending(S)[rank[t]] = t
  BY <1>4, <1>6
<1> QED  BY <1>3, <1>7, <1>8, <1>9

\* A finite set of numbers has a greatest one.
LEMMA Greatest ==
    ASSUME NEW S \in SUBSET Nat, IsFiniteSet(S), S # {}
    PROVE  \E m \in S : \A v \in S : v <= m
<1> DEFINE c == Cardinality(S)
<1>1. S \in SUBSET Int
  OBVIOUS
<1>2. /\ c \in Nat /\ Ascending(S) \in [1 .. c -> S]
      /\ \A i, j \in 1 .. c : i < j <=> Ascending(S)[i] < Ascending(S)[j]
      /\ \A t \in S : \E i \in 1 .. c : Ascending(S)[i] = t
  BY <1>1, AscendingEnumerates
<1> HIDE DEF c
<1>3. c \in 1 .. c
  <2>1. \E i : i \in 1 .. c
    BY <1>2
  <2> QED  BY <1>2, <2>1
<1>4. \A i \in 1 .. c : Ascending(S)[i] <= Ascending(S)[c]
  <2> TAKE i \in 1 .. c
  <2>1. Ascending(S)[i] \in Nat /\ Ascending(S)[c] \in Nat
    BY <1>2, <1>3
  <2>2. ~(c < i)
    BY <1>2
  <2>3. ~(Ascending(S)[c] < Ascending(S)[i])
    BY <1>2, <1>3, <2>2
  <2> QED  BY <2>1, <2>3
<1> QED  BY <1>2, <1>3, <1>4

\* Cutting a ranked list at a limit: a member left out means a full list.
LEMMA CutIsFull ==
    ASSUME NEW S, IsFiniteSet(S), NEW R, StrictOrder(S, R),
           NEW limit \in Nat, NEW x \in S,
           NEW Cut, Cut = {b \in S : Cardinality({a \in S : <<a, b>> \in R}) < limit},
           x \notin Cut
    PROVE  Cardinality(Cut) = limit
<1> DEFINE n == Cardinality(S)
<1>1. n \in Nat
  BY RankNumbers
<1>r. PICK rank \in [S -> 1 .. n] : Ranking(S, R, rank)
  BY RankNumbers
<1>2. /\ \A b \in S : Cardinality({a \in S : <<a, b>> \in R}) = rank[b] - 1
      /\ \A a, b \in S : rank[a] = rank[b] => a = b
      /\ \A i \in 1 .. n : \E a \in S : rank[a] = i
  BY <1>r DEF Ranking
<1> HIDE DEF n
<1>3. \A b \in S : b \in Cut <=> rank[b] <= limit
  <2> TAKE b \in S
  <2>1. rank[b] \in Nat
    BY <1>1, <1>2
  <2>2. b \in Cut <=> Cardinality({a \in S : <<a, b>> \in R}) < limit
    OBVIOUS
  <2>3. b \in Cut <=> rank[b] - 1 < limit
    BY <1>2, <2>2
  <2> QED  BY <2>1, <2>3
<1>4. Cut \subseteq S
  OBVIOUS
<1>5. limit < n
  BY <1>1, <1>2, <1>3
<1> DEFINE f == [b \in Cut |-> rank[b]]
<1>6. f \in [Cut -> 1 .. limit]
  BY <1>1, <1>2, <1>3, <1>4
<1>7. \A a, b \in Cut : f[a] = f[b] => a = b
  BY <1>2, <1>4
<1>8. \A i \in 1 .. limit : \E b \in Cut : f[b] = i
  <2> TAKE i \in 1 .. limit
  <2>1. i \in 1 .. n
    BY <1>1, <1>5
  <2>2. PICK b \in S : rank[b] = i
    BY <1>2, <2>1
  <2>3. b \in Cut
    BY <1>3, <2>2
  <2> QED  BY <2>2, <2>3
<1> HIDE DEF f
<1>9. f \in Bijection(Cut, 1 .. limit)
  BY <1>6, <1>7, <1>8 DEF Bijection, Injection, Surjection, IsInjective
<1>10. Cardinality(1 .. limit) = limit
  BY FS_Interval
<1>11. IsFiniteSet(Cut)
  BY <1>4, FS_Subset
<1>12. ExistsBijection(Cut, 1 .. limit)
  BY <1>9 DEF ExistsBijection
<1> QED  BY <1>10, <1>11, <1>12, FS_Bijection
=============================================================================
