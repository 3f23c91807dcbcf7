------------------------------ MODULE KeysetProofs ------------------------------
(***************************************************************************)
(* Facts about finite sets of numbers and their pages, for the proofs of   *)
(* AggregateExport and OwnerBackfill.                                      *)
(***************************************************************************)
EXTENDS Keyset, FiniteSetTheorems, TLAPS

-------------------------------------------------------------------------------
(* Greatest and least members.                                               *)

\* A set of naturals that is not empty has a least member.
LEMMA LeastOf ==
  ASSUME NEW S \in SUBSET Nat, S # {}
  PROVE  \E m \in S : \A n \in S : m <= n
<1> DEFINE R == OpToRel(<, Nat)
<1>1. IsWellFoundedOn(R, Nat)
  BY NatLessThanWellFounded
<1>2. \A i, j \in Nat : <<i, j>> \in R <=> i < j
  BY DEF OpToRel
<1> HIDE DEF R
<1>3. PICK m \in S : \A n \in S : ~(<<n, m>> \in R)
  BY <1>1, WFMin
<1>4. ASSUME NEW n \in S PROVE m <= n
  <2>1. ~(n < m)
    BY <1>2, <1>3
  <2> QED
    BY <2>1
<1> QED
  BY <1>4

\* ... and, when it is finite, a greatest one, which is its Max: the member
\* with the fewest members above it.
LEMMA GreatestOf ==
  ASSUME NEW S \in SUBSET Nat, S # {}, IsFiniteSet(S)
  PROVE  Max(S) \in S /\ \A n \in S : n <= Max(S)
<1> DEFINE above(y) == {x \in S : x > y}
           counts == {Cardinality(above(y)) : y \in S}
<1>1. \A y : IsFiniteSet(above(y)) /\ Cardinality(above(y)) \in Nat
  BY FS_Subset, FS_CardinalityType
<1>2. counts \in SUBSET Nat /\ counts # {}
  <2>1. ASSUME NEW y \in S PROVE Cardinality(above(y)) \in Nat
    BY <1>1
  <2> QED
    BY <2>1
<1>3. PICK m \in S : \A y \in S : Cardinality(above(m)) <= Cardinality(above(y))
  <2> HIDE DEF counts
  <2>1. PICK k \in counts : \A j \in counts : k <= j
    BY <1>2, LeastOf
  <2>2. PICK m \in S : k = Cardinality(above(m))
    BY DEF counts
  <2> QED
    BY <2>1, <2>2 DEF counts
<1>4. ASSUME NEW n \in S, n > m PROVE FALSE
  <2>0. m \in Nat /\ n \in Nat /\ \A x \in S : x \in Nat
    OBVIOUS
  <2>1. n \in above(m) /\ n \notin above(n)
    BY <1>4, <2>0
  <2>a. above(n) \subseteq above(m)
    <3> SUFFICES ASSUME NEW x \in S, x > n PROVE x > m
      OBVIOUS
    <3>1. x \in Nat
      BY <2>0
    <3> QED
      BY <1>4, <2>0, <3>1
  <2> HIDE DEF above
  <2>2. Cardinality(above(n)) <= Cardinality(above(m))
        /\ Cardinality(above(m)) # Cardinality(above(n))
    BY <1>1, <2>1, <2>a, FS_Subset
  <2> QED
    BY <1>1, <1>3, <2>2
<1>5. \E x \in S : \A y \in S : x >= y
  <2>1. m \in Nat /\ \A y \in S : y \in Nat
    OBVIOUS
  <2>2. \A y \in S : m >= y
    BY <1>4, <2>1
  <2> QED
    BY <2>2
<1> QED
  BY <1>5 DEF Max

-------------------------------------------------------------------------------
(* Pages.                                                                    *)

\* A page: all that is left when it fits, and else the first ones of it, up to
\* the last of the page (services.py:327-336, 422-434).
LEMMA PageOf ==
  ASSUME NEW groups \in SUBSET Nat, IsFiniteSet(groups), NEW limit \in Nat \ {0},
         NEW page, page = FirstOf(groups, limit)
  PROVE  /\ Cardinality(groups) <= limit => page = groups
         /\ Cardinality(groups) > limit =>
              /\ Max(page) \in page
              /\ \A t \in groups : t \in page <=> t <= Max(page)
<1> DEFINE upto(t) == {s \in groups : s <= t}
<1>1. /\ IsFiniteSet(groups) /\ groups \in SUBSET Nat
      /\ \A t \in groups : t \in Nat
      /\ limit \in Nat \ {0}
  OBVIOUS
<1>2. \A t \in groups : /\ IsFiniteSet(upto(t)) /\ Cardinality(upto(t)) \in Nat
                        /\ Cardinality(upto(t)) <= Cardinality(groups)
  BY <1>1, FS_Subset, FS_CardinalityType
<1>3. Cardinality(groups) \in Nat
  BY <1>1, FS_CardinalityType
<1>4. page = {t \in groups : Cardinality(upto(t)) <= limit}
  BY DEF FirstOf
<1>5. \A s, t \in groups : s <= t => Cardinality(upto(s)) <= Cardinality(upto(t))
  <2> SUFFICES ASSUME NEW s \in groups, NEW t \in groups, s <= t
               PROVE  Cardinality(upto(s)) <= Cardinality(upto(t))
    OBVIOUS
  <2>1. upto(s) \in SUBSET upto(t)
    <3> SUFFICES ASSUME NEW x \in groups, x <= s PROVE x <= t
      OBVIOUS
    <3>1. x \in Nat /\ s \in Nat /\ t \in Nat
      BY <1>1
    <3> QED
      BY <3>1
  <2> QED
    BY <1>2, <2>1, FS_Subset
<1>6. ASSUME Cardinality(groups) <= limit PROVE page = groups
  <2>1. ASSUME NEW t \in groups PROVE Cardinality(upto(t)) <= limit
    <3>1. /\ Cardinality(upto(t)) \in Nat
          /\ Cardinality(upto(t)) <= Cardinality(groups)
      BY <1>2
    <3> HIDE DEF upto
    <3> QED
      BY <1>1, <1>3, <1>6, <3>1
  <2> QED
    BY <1>4, <2>1
<1>7. ASSUME Cardinality(groups) > limit
      PROVE  Max(page) \in page /\ \A t \in groups : t \in page <=> t <= Max(page)
  <2>1. groups # {}
    BY <1>1, <1>7, FS_EmptySet
  <2>2. PICK m \in groups : \A n \in groups : m <= n
    BY <1>1, <2>1, LeastOf
  <2>3. upto(m) = {m}
    <3> SUFFICES ASSUME NEW x \in groups PROVE x <= m <=> x = m
      OBVIOUS
    <3>1. x \in Nat /\ m \in Nat /\ m <= x
      BY <1>1, <2>2
    <3> QED
      BY <3>1
  <2>4. Cardinality(upto(m)) = 1
    BY <2>3, FS_Singleton
  <2>5. m \in page
    BY <1>1, <1>4, <2>4
  <2>6. IsFiniteSet(page) /\ page \in SUBSET Nat /\ page # {}
    BY <1>1, <1>4, <2>5, FS_Subset
  <2>7. Max(page) \in page /\ \A n \in page : n <= Max(page)
    BY <2>6, GreatestOf
  <2>8. ASSUME NEW t \in groups, t <= Max(page) PROVE t \in page
    <3>1. Max(page) \in groups /\ Cardinality(upto(Max(page))) <= limit
      BY <1>4, <2>7
    <3>2. /\ Cardinality(upto(t)) <= Cardinality(upto(Max(page)))
          /\ Cardinality(upto(t)) \in Nat /\ Cardinality(upto(Max(page))) \in Nat
      BY <1>2, <1>5, <2>8, <3>1
    <3>3. Cardinality(upto(t)) <= limit
      <4> HIDE DEF upto
      <4> QED
        BY <1>1, <3>1, <3>2
    <3> QED
      BY <1>4, <3>3
  <2> QED
    BY <2>7, <2>8
<1> QED
  BY <1>3, <1>6, <1>7
===============================================================================
