------------------------------- MODULE ReadProofs -------------------------------
(***************************************************************************)
(* What readers get is what consumers were told, for every host, every set *)
(* of accounts and targets, and every query; and an account leaves with    *)
(* all it has.                                                             *)
(***************************************************************************)
EXTENDS ReviewReads, ReviewStoreProofs, FiniteSetTheorems

(***************************************************************************)
(* A type and a key name one target (models.py:57-63).                     *)
(***************************************************************************)
LEMMA OneTargetNamed ==
  ASSUME NEW t \in Targets
  PROVE  targetsNamed(TypeOf[t], KeyOf[t]) = {t}
BY ReadAssumption DEF targetsNamed

(***************************************************************************)
(* The three answers of GET /reviews.                                      *)
(***************************************************************************)
LEMMA Answers ==
  ASSUME NEW caller, NEW query
  PROVE  get_reviews(caller, query) =
           IF query.owner_key # NoOwner /\ query.target_key = None
             THEN {page(list_of_owner(caller, query.owner_key, query.target_type,
                                      query.include_all))}
           ELSE IF /\ query.owner_key = NoOwner
                   /\ query.target_type # AnyType /\ query.target_key # None
             THEN UNION {list_of_target(caller, t, query.include_all) :
                           t \in targetsNamed(query.target_type, query.target_key)}
           ELSE {[status |-> 400, reviews |-> {}]}
BY Zenon DEF get_reviews

(***************************************************************************)
(* Nobody is shown more than what is published without the right to.       *)
(***************************************************************************)
LEMMA OwnerListVisible ==
  ASSUME NEW caller, caller \notin Staff, NEW owner_key, NEW type, NEW wants_all
  PROVE  list_of_owner(caller, owner_key, type, wants_all) \subseteq VisibleIds(reviews)
BY DEF list_of_owner, list_reviews_by_owner

LEMMA AnonymousList ==
  ASSUME NEW t, NEW wants_all
  PROVE  list_of_target(Anonymous, t, wants_all)
           = {page({r \in VisibleIds(reviews) : reviews[r].target = t})}
<1>1. list_reviews(t, FALSE) = {r \in VisibleIds(reviews) : reviews[r].target = t}
  BY DEF list_reviews, VisibleIds
<1>2. list_of_target(Anonymous, t, wants_all) = {page(list_reviews(t, FALSE))}
  BY ReadAssumption, HostAssumption DEF list_of_target, sees_all
<1> QED BY <1>1, <1>2

LEMMA UnprivilegedList ==
  ASSUME NEW t \in Targets, NEW caller, ~(isRegistered(t) /\ caller \in HostModerators[t]),
         NEW wants_all, NEW answer \in list_of_target(caller, t, wants_all)
  PROVE  answer.reviews \subseteq VisibleIds(reviews)
<1>1. sees_all(caller, t) \subseteq {FALSE, Raises}
  BY DEF sees_all, check_can_moderate, called
<1>2. PICK all \in {FALSE, Raises} :
        answer = IF all = Raises THEN [status |-> 500, reviews |-> {}]
                 ELSE page(list_reviews(t, all))
  BY <1>1, ZenonT(60) DEF list_of_target
<1>3. answer.reviews = {} \/ answer.reviews = list_reviews(t, FALSE)
  BY <1>2 DEF page
<1> QED BY <1>3 DEF list_reviews

(***************************************************************************)
(* Whoever may ask nothing is shown what consumers were told, however the  *)
(* lists are addressed; nobody is shown more but staff, of an owner, and   *)
(* the moderators of a target (views.py:323-380).                          *)
(***************************************************************************)
LEMMA AnonymousAnswers ==
  ASSUME NEW query \in Queries, NEW answer \in get_reviews(Anonymous, query)
  PROVE  answer.reviews \subseteq VisibleIds(reviews) /\ answer.status # 500
<1>1. Anonymous \notin Staff
  BY ReadAssumption
<1>2. CASE query.owner_key # NoOwner /\ query.target_key = None
  <2>1. answer = page(list_of_owner(Anonymous, query.owner_key, query.target_type,
                                    query.include_all))
    BY <1>2, Answers
  <2> QED BY <1>1, <2>1, OwnerListVisible DEF page
<1>3. CASE /\ query.owner_key = NoOwner
           /\ query.target_type # AnyType /\ query.target_key # None
  <2>1. PICK t : answer \in list_of_target(Anonymous, t, query.include_all)
    BY <1>3, Answers
  <2> QED BY <2>1, AnonymousList DEF page
<1>4. CASE answer = [status |-> 400, reviews |-> {}]
  BY <1>4
<1> QED BY <1>2, <1>3, <1>4, Answers

LEMMA CallerAnswers ==
  ASSUME NEW caller, NEW query \in Queries, NEW answer \in get_reviews(caller, query),
         ~(query.owner_key # NoOwner /\ caller \in Staff),
         \A t \in targetsNamed(query.target_type, query.target_key) :
           ~(isRegistered(t) /\ caller \in HostModerators[t])
  PROVE  answer.reviews \subseteq VisibleIds(reviews)
<1>1. CASE query.owner_key # NoOwner /\ query.target_key = None
  <2>1. answer = page(list_of_owner(caller, query.owner_key, query.target_type,
                                    query.include_all))
    BY <1>1, Answers
  <2> QED BY <1>1, <2>1, OwnerListVisible DEF page
<1>2. CASE /\ query.owner_key = NoOwner
           /\ query.target_type # AnyType /\ query.target_key # None
  <2>1. PICK t \in targetsNamed(query.target_type, query.target_key) :
          answer \in list_of_target(caller, t, query.include_all)
    BY <1>2, Answers
  <2> QED BY <2>1, UnprivilegedList DEF targetsNamed
<1>3. CASE answer = [status |-> 400, reviews |-> {}]
  BY <1>3
<1> QED BY <1>1, <1>2, <1>3, Answers

THEOREM ListsAreTold == Spec => []PublicListsAreTold
<1>1. TypeOK /\ FactsTellVisibility => PublicListsAreTold
  <2> SUFFICES ASSUME TypeOK, FactsTellVisibility PROVE PublicListsAreTold
    OBVIOUS
  <2> DEFINE shown(caller, query) ==
               UNION {answer.reviews : answer \in get_reviews(caller, query)}
  <2>1. \A query \in Queries : shown(Anonymous, query) \subseteq told
    BY AnonymousAnswers DEF FactsTellVisibility
  <2>2. ASSUME NEW r \in told
        PROVE  \E query \in Queries : r \in shown(Anonymous, query)
    <3> DEFINE t == reviews[r].target
               asked == [target_type |-> TypeOf[t], target_key |-> KeyOf[t],
                         owner_key |-> NoOwner, include_all |-> FALSE]
               listed == page({q \in VisibleIds(reviews) : reviews[q].target = t})
    <3>1. r \in VisibleIds(reviews)
      BY <2>2 DEF FactsTellVisibility
    <3>2. t \in Targets
      BY <3>1, RowIsReview DEF TypeOK, VisibleIds, Rows, Review
    <3>3. asked \in Queries
      BY <3>2, HostAssumption DEF Queries
    <3>4. TypeOf[t] # AnyType /\ KeyOf[t] # None
      BY <3>2, ReadAssumption, HostAssumption
    <3>5. /\ asked.target_type = TypeOf[t] /\ asked.target_key = KeyOf[t]
          /\ asked.owner_key = NoOwner /\ asked.include_all = FALSE
      OBVIOUS
    <3>6. listed \in list_of_target(Anonymous, t, FALSE) /\ r \in listed.reviews
      BY <3>1, AnonymousList, ZenonT(60) DEF page
    <3> HIDE DEF asked, listed
    <3>7. get_reviews(Anonymous, asked) =
            UNION {list_of_target(Anonymous, s, asked.include_all) :
                     s \in targetsNamed(asked.target_type, asked.target_key)}
      BY <3>4, <3>5, Answers
    <3>8. listed \in get_reviews(Anonymous, asked)
      BY <3>2, <3>5, <3>6, <3>7, OneTargetNamed
    <3>9. r \in shown(Anonymous, asked)
      BY <3>6, <3>8
    <3> HIDE DEF shown
    <3> QED BY <3>3, <3>9
  <2>3. told = UNION {shown(Anonymous, query) : query \in Queries}
    <3> HIDE DEF shown
    <3> QED BY <2>1, <2>2
  <2>4. \A query \in Queries : \A answer \in get_reviews(Anonymous, query) :
          answer.status # 500
    BY AnonymousAnswers
  <2>5. \A caller \in Users, query \in Queries :
          \/ shown(caller, query) \subseteq told
          \/ query.owner_key # NoOwner /\ caller \in Staff
          \/ \E t \in targetsNamed(query.target_type, query.target_key) :
               isRegistered(t) /\ caller \in HostModerators[t]
    BY CallerAnswers DEF FactsTellVisibility
  <2> QED BY <2>3, <2>4, <2>5 DEF PublicListsAreTold
<1> QED BY <1>1, TypeCorrect, FactsFollowTheStore, PTL

-------------------------------------------------------------------------------
(***************************************************************************)
(* The published reviews with the type and the key of a target are the     *)
(* reviews it shows; and a rating counts nothing only when nothing shows.  *)
(***************************************************************************)
LEMMA PublishedOfTarget ==
  ASSUME TypeOK, NEW t \in Targets
  PROVE  Published({r \in OfType(TypeOf[t]) : KeyOf[reviews[r].target] = KeyOf[t]})
           = Shown(reviews, t)
<1>1. \A r \in Rows(reviews) : reviews[r].target \in Targets
  BY RowIsReview DEF TypeOK, Rows, Review
<1>2. TypeOf[t] # AnyType
  BY ReadAssumption, HostAssumption
<1>3. \A r \in VisibleIds(reviews) :
        r \in {q \in OfType(TypeOf[t]) : KeyOf[reviews[q].target] = KeyOf[t]}
          <=> reviews[r].target = t
  BY <1>1, <1>2, ReadAssumption DEF OfType, VisibleIds
<1>4. {r \in OfType(TypeOf[t]) : KeyOf[reviews[r].target] = KeyOf[t]}
          \cap VisibleIds(reviews)
        = {q \in VisibleIds(reviews) : reviews[q].target = t}
  BY <1>3
<1> QED BY <1>4 DEF Published, Shown

LEMMA CountsNothing ==
  ASSUME NEW t
  PROVE  aggregate(Shown(reviews, t)).count = 0 <=> Shown(reviews, t) = {}
<1>1. IsFiniteSet({q \in VisibleIds(reviews) : reviews[q].target = t})
  BY ReadAssumption, FS_Subset DEF VisibleIds, Rows
<1>2. IsFiniteSet(Shown(reviews, t))
  <2> DEFINE Q == {q \in VisibleIds(reviews) : reviews[q].target = t}
             pair == [q \in Q |-> <<q, reviews[q].rating>>]
  <2>1. pair \in Surjection(Q, Shown(reviews, t))
    BY DEF Surjection, Shown
  <2> HIDE DEF Q, pair
  <2> QED BY <1>1, <2>1, FS_Surjection DEF Q
<1> QED BY <1>2, FS_EmptySet DEF aggregate

(***************************************************************************)
(* A batch counts, in each group, the published reviews of the group.      *)
(***************************************************************************)
LEMMA GroupCount ==
  ASSUME NEW groups, NEW k \in DOMAIN groups
  PROVE  Count(Grouped(groups), k) = Cardinality(groups[k] \cap VisibleIds(reviews))
<1> DEFINE listed == groups[k] \cap VisibleIds(reviews)
           rated == Published(groups[k])
           pair == [r \in listed |-> <<r, reviews[r].rating>>]
<1>1. rated = {<<r, reviews[r].rating>> : r \in listed}
  BY DEF Published
<1>2. pair \in Bijection(listed, rated)
  BY <1>1 DEF Bijection, Injection, Surjection, IsInjective
<1>3. IsFiniteSet(listed)
  BY ReadAssumption, FS_Subset DEF VisibleIds, Rows
<1>4. IF rated = {} THEN k \notin DOMAIN Grouped(groups)
      ELSE k \in DOMAIN Grouped(groups) /\ Grouped(groups)[k] = aggregate(rated)
  BY DEF Grouped
<1> HIDE DEF pair, listed, rated
<1>5. IsFiniteSet(rated) /\ Cardinality(rated) = Cardinality(listed)
  BY <1>2, <1>3, FS_Bijection DEF ExistsBijection
<1>6. aggregate(rated).count = Cardinality(rated)
  BY DEF aggregate
<1>7. rated = {} => Cardinality(listed) = 0
  BY <1>5, FS_EmptySet
<1>8. Count(Grouped(groups), k) = Cardinality(listed)
  BY <1>4, <1>5, <1>6, <1>7 DEF Count
<1> QED BY <1>8 DEF listed

(***************************************************************************)
(* An owner's rating counts the rows of the owner's public list, and the   *)
(* unknown owner has neither (services.py:238-257, 710-729).               *)
(***************************************************************************)
THEOREM OwnersCounted == Spec => []OwnerListsMatch
<1>1. ASSUME NEW k \in OwnerKeys
      PROVE  Count(aggregates_by_owner_keys(OwnerKeys, AnyType), k)
               = Cardinality(list_of_owner(Anonymous, k, AnyType, TRUE))
  <2> DEFINE listed == list_of_owner(Anonymous, k, AnyType, TRUE)
             groups == [g \in OwnerKeys \ {NoOwner} |->
                          {r \in OfType(AnyType) : reviews[r].owner_key = g}]
  <2>1. aggregates_by_owner_keys(OwnerKeys, AnyType) = Grouped(groups)
    BY DEF aggregates_by_owner_keys
  <2>2. Anonymous \notin Staff
    BY ReadAssumption
  <2>3. listed = {r \in VisibleIds(reviews) : k # NoOwner /\ reviews[r].owner_key = k}
    BY <2>2 DEF list_of_owner, list_reviews_by_owner, OfType, VisibleIds
  <2>4. CASE k = NoOwner
    <3>1. listed = {} /\ k \notin DOMAIN Grouped(groups)
      BY <2>3, <2>4 DEF Grouped
    <3> QED BY <2>1, <3>1, FS_EmptySet DEF Count
  <2>5. CASE k # NoOwner
    <3>1. groups[k] \cap VisibleIds(reviews) = listed /\ k \in DOMAIN groups
      BY <2>3, <2>5 DEF OfType, VisibleIds
    <3> HIDE DEF groups, listed
    <3>2. Count(Grouped(groups), k) = Cardinality(listed)
      BY <3>1, GroupCount
    <3> QED BY <2>1, <3>2 DEF listed
  <2> QED BY <2>4, <2>5
<1>2. OwnerListsMatch
  BY <1>1 DEF OwnerListsMatch
<1> QED BY <1>2, PTL

-------------------------------------------------------------------------------
(***************************************************************************)
(* Among the subsets of a finite set that have a property there is one     *)
(* none of whose proper subsets has it.                                    *)
(***************************************************************************)
LEMMA LeastSubset ==
  ASSUME NEW S, IsFiniteSet(S), NEW Q \in SUBSET (SUBSET S), Q # {}
  PROVE  \E s \in Q : \A u \in Q : u \subseteq s => u = s
<1> DEFINE R == StrictSubsetOrdering(S)
<1>1. IsWellFoundedOn(R, SUBSET S)
  BY FS_StrictSubsetOrderingWellFounded, FS_FiniteSubsetsOfFinite
<1>2. \A u, s \in SUBSET S : u \subseteq s /\ u # s => <<u, s>> \in R
  BY DEF StrictSubsetOrdering
<1> HIDE DEF R
<1>3. PICK s \in Q : \A u \in Q : ~(<<u, s>> \in R)
  BY <1>1, WFMin
<1> QED BY <1>2, <1>3

(***************************************************************************)
(* Numbers that count the members of V with each value of h add up to the  *)
(* number of members of V.                                                 *)
(***************************************************************************)
LEMMA SumCounts ==
  ASSUME NEW S, IsFiniteSet(S), NEW V, IsFiniteSet(V), NEW h, \A v \in V : h[v] \in S,
         NEW f, DOMAIN f = S, \A x \in S : f[x] = Cardinality({v \in V : h[v] = x})
  PROVE  SumFunction(f) = Cardinality(V)
<1> DEFINE g == [s \in SUBSET S |-> Cardinality({v \in V : h[v] \in s})]
           Sums(i) == i = [s \in SUBSET S |->
                             IF s = {} THEN 0
                             ELSE LET x == CHOOSE x \in s : TRUE
                                  IN  f[x] + i[s \ {x}]]
           iter == CHOOSE i : Sums(i)
<1>1. \A s : /\ IsFiniteSet({v \in V : h[v] \in s})
             /\ Cardinality({v \in V : h[v] \in s}) \in Nat
  BY FS_Subset, FS_CardinalityType
<1>2. ASSUME NEW s \in SUBSET S, NEW x \in s
      PROVE  Cardinality({v \in V : h[v] \in s})
               = f[x] + Cardinality({v \in V : h[v] \in s \ {x}})
  <2> DEFINE A == {v \in V : h[v] = x}
             B == {v \in V : h[v] \in s \ {x}}
  <2>1. IsFiniteSet(A) /\ IsFiniteSet(B) /\ A \cap B = {}
    BY FS_Subset
  <2>2. A \cup B = {v \in V : h[v] \in s}
    OBVIOUS
  <2>3. f[x] = Cardinality(A)
    OBVIOUS
  <2> HIDE DEF A, B
  <2>4. Cardinality(A) \in Nat /\ Cardinality(B) \in Nat /\ Cardinality(A \cap B) = 0
    BY <2>1, FS_CardinalityType, FS_EmptySet
  <2>5. Cardinality(A \cup B) = Cardinality(A) + Cardinality(B) - Cardinality(A \cap B)
    BY <2>1, FS_Union
  <2>6. Cardinality(A \cup B) = Cardinality(A) + Cardinality(B)
    BY <2>4, <2>5
  <2> QED BY <2>2, <2>3, <2>6 DEF B
<1>3. \A s \in SUBSET S :
        g[s] = IF s = {} THEN 0
               ELSE LET x == CHOOSE x \in s : TRUE IN f[x] + g[s \ {x}]
  <2> SUFFICES ASSUME NEW s \in SUBSET S
               PROVE  g[s] = IF s = {} THEN 0
                             ELSE LET x == CHOOSE x \in s : TRUE IN f[x] + g[s \ {x}]
    OBVIOUS
  <2>1. CASE s = {}
    <3>1. {v \in V : h[v] \in s} = {}
      BY <2>1
    <3> QED BY <2>1, <3>1, FS_EmptySet
  <2>2. CASE s # {}
    <3> DEFINE x == CHOOSE x \in s : TRUE
    <3>1. x \in s
      BY <2>2
    <3>2. s \ {x} \in SUBSET S
      OBVIOUS
    <3> HIDE DEF x
    <3>3. g[s] = f[x] + g[s \ {x}]
      BY <1>2, <3>1, <3>2
    <3> QED BY <2>2, <3>3 DEF x
  <2> QED BY <2>1, <2>2
<1>4. Sums(g)
  <2> DEFINE k == [s \in SUBSET S |->
                     IF s = {} THEN 0
                     ELSE LET x == CHOOSE x \in s : TRUE IN f[x] + g[s \ {x}]]
  <2>1. g = [s \in SUBSET S |-> g[s]]
    OBVIOUS
  <2> HIDE DEF g
  <2> QED BY <1>3, <2>1
<1>5. Sums(iter)
  <2> HIDE DEF g
  <2> HIDE DEF Sums
  <2> QED BY <1>4
<1>6. SumFunction(f) = iter[S]
  BY DEF SumFunction, SumFunctionOnSet, FoldFunctionOnSet, MapThenFoldSet
<1> HIDE DEF iter
<1>7. \A s \in SUBSET S : iter[s] = g[s]
  <2> DEFINE Q == {s \in SUBSET S : iter[s] # g[s]}
  <2>1. ASSUME Q # {} PROVE FALSE
    <3> HIDE DEF g
    <3>1. PICK s \in Q : \A u \in Q : u \subseteq s => u = s
      <4> HIDE DEF Q
      <4>1. Q \in SUBSET (SUBSET S)
        BY DEF Q
      <4> QED BY <2>1, <4>1, LeastSubset
    <3>2. iter[s] = IF s = {} THEN 0
                    ELSE LET x == CHOOSE x \in s : TRUE IN f[x] + iter[s \ {x}]
      BY <1>5
    <3>3. s # {}
      BY <1>3, <3>2
    <3> DEFINE x == CHOOSE x \in s : TRUE
    <3>4. x \in s
      BY <3>3
    <3>5. s \ {x} \in SUBSET S /\ s \ {x} # s /\ s \ {x} \subseteq s
      BY <3>4
    <3>6. iter[s \ {x}] = g[s \ {x}]
      BY <3>1, <3>5
    <3> QED BY <1>3, <3>2, <3>3, <3>6
  <2> QED BY <2>1
<1>8. g[S] = Cardinality({v \in V : h[v] \in S}) /\ {v \in V : h[v] \in S} = V
  OBVIOUS
<1> QED BY <1>6, <1>7, <1>8

(***************************************************************************)
(* The ratings of the targets, and the ratings of the owners with the      *)
(* reviews nobody owns, count each published review once (services.py:     *)
(* 238-257, 710-729).                                                      *)
(***************************************************************************)
LEMMA TargetsCount ==
  ASSUME TypeOK, FactsMatchAggregate, NEW S \in SUBSET Targets
  PROVE  SumFunction([t \in S |-> fact[t].count])
           = Cardinality({r \in VisibleIds(reviews) : reviews[r].target \in S})
<1> DEFINE V == {r \in VisibleIds(reviews) : reviews[r].target \in S}
           h == [r \in V |-> reviews[r].target]
           f == [t \in S |-> fact[t].count]
<1>1. IsFiniteSet(V) /\ IsFiniteSet(S)
  BY ReadAssumption, FS_Subset DEF VisibleIds, Rows
<1>2. \A r \in V : h[r] \in S
  OBVIOUS
<1>3. ASSUME NEW t \in S
      PROVE  f[t] = Cardinality({r \in V : h[r] = t})
  <2> DEFINE Q == {r \in VisibleIds(reviews) : reviews[r].target = t}
             pair == [r \in Q |-> <<r, reviews[r].rating>>]
  <2>1. pair \in Bijection(Q, Shown(reviews, t))
    BY DEF Bijection, Injection, Surjection, IsInjective, Shown
  <2>2. {r \in V : h[r] = t} = Q
    OBVIOUS
  <2>3. IsFiniteSet(Q)
    BY ReadAssumption, FS_Subset DEF VisibleIds, Rows
  <2> HIDE DEF Q, pair, V, h
  <2>4. Cardinality(Shown(reviews, t)) = Cardinality(Q)
    BY <2>1, <2>3, FS_Bijection DEF ExistsBijection
  <2>5. fact[t].count = Cardinality(Shown(reviews, t))
    BY DEF FactsMatchAggregate, aggregate
  <2> QED BY <2>2, <2>4, <2>5
<1> HIDE DEF V, h
<1>4. DOMAIN f = S
  OBVIOUS
<1> HIDE DEF f
<1>5. SumFunction(f) = Cardinality(V)
  BY <1>1, <1>2, <1>3, <1>4, SumCounts
<1> QED BY <1>5 DEF f, V

LEMMA TargetsCountAll ==
  ASSUME TypeOK, FactsMatchAggregate
  PROVE  SumFunction([t \in Targets |-> fact[t].count]) = Cardinality(VisibleIds(reviews))
<1>1. {r \in VisibleIds(reviews) : reviews[r].target \in Targets} = VisibleIds(reviews)
  BY RowIsReview DEF TypeOK, VisibleIds, Rows, Review
<1> QED BY <1>1, TargetsCount

LEMMA OwnersCountOwned ==
  ASSUME TypeOK, OwnerListsMatch
  PROVE  LET read == aggregates_by_owner_keys(OwnerKeys, AnyType)
             owned == {r \in VisibleIds(reviews) : reviews[r].owner_key # NoOwner}
         IN  SumFunction([k \in OwnerKeys |-> Count(read, k)]) = Cardinality(owned)
<1> DEFINE read == aggregates_by_owner_keys(OwnerKeys, AnyType)
           V == {r \in VisibleIds(reviews) : reviews[r].owner_key # NoOwner}
           h == [r \in V |-> reviews[r].owner_key]
           f == [k \in OwnerKeys |-> Count(read, k)]
<1>1. IsFiniteSet(V) /\ IsFiniteSet(OwnerKeys)
  BY ReadAssumption, FS_Subset DEF VisibleIds, Rows
<1>2. \A r \in V : h[r] \in OwnerKeys
  BY RowIsReview DEF TypeOK, VisibleIds, Rows, Review
<1>3. ASSUME NEW k \in OwnerKeys
      PROVE  f[k] = Cardinality({r \in V : h[r] = k})
  <2>1. list_of_owner(Anonymous, k, AnyType, TRUE) = {r \in V : h[r] = k}
    BY ReadAssumption DEF list_of_owner, list_reviews_by_owner, OfType, VisibleIds
  <2>2. Count(read, k) = Cardinality(list_of_owner(Anonymous, k, AnyType, TRUE))
    BY DEF OwnerListsMatch
  <2> HIDE DEF V, h, read
  <2> QED BY <2>1, <2>2
<1> HIDE DEF V, h, read
<1>4. DOMAIN f = OwnerKeys
  OBVIOUS
<1> HIDE DEF f
<1>5. SumFunction(f) = Cardinality(V)
  BY <1>1, <1>2, <1>3, <1>4, SumCounts
<1> QED BY <1>5 DEF f, V, read

(***************************************************************************)
(* A batch of ratings, a single one and the last fact of a target agree,   *)
(* and the batch misses exactly the targets that show nothing; asked for   *)
(* keys alone it counts what all the types sharing a key show              *)
(* (services.py:204-219).                                                  *)
(***************************************************************************)
LEMMA TypedReadAgrees ==
  ASSUME TypeOK, FactsMatchAggregate, NEW t \in Targets
  PROVE  LET read == aggregates_by_keys({KeyOf[t]}, TypeOf[t])
         IN  /\ IF fact[t].count = 0
                  THEN DOMAIN read = {} ELSE read[KeyOf[t]] = fact[t]
             /\ get_aggregate(TypeOf[t], KeyOf[t]) = fact[t]
<1> DEFINE k == KeyOf[t]
           groups == [g \in {k} |->
                        {r \in OfType(TypeOf[t]) : KeyOf[reviews[r].target] = g}]
<1>1. fact[t] = aggregate(Shown(reviews, t))
  BY DEF FactsMatchAggregate
<1>2. get_aggregate(TypeOf[t], KeyOf[t]) = fact[t]
  <2>1. UNION {Shown(reviews, s) : s \in {t}} = Shown(reviews, t)
    OBVIOUS
  <2> QED BY <1>1, <2>1, OneTargetNamed DEF get_aggregate
<1>3. DOMAIN groups = {k} /\ Published(groups[k]) = Shown(reviews, t)
  BY PublishedOfTarget
<1>4. aggregates_by_keys({k}, TypeOf[t]) = Grouped(groups)
  BY DEF aggregates_by_keys
<1> HIDE DEF groups
<1>5. CASE Shown(reviews, t) = {}
  <2>1. DOMAIN Grouped(groups) = {}
    BY <1>3, <1>5 DEF Grouped
  <2> QED BY <1>1, <1>2, <1>4, <1>5, <2>1, CountsNothing
<1>6. CASE Shown(reviews, t) # {}
  <2>1. Grouped(groups)[k] = aggregate(Published(groups[k]))
    BY <1>3, <1>6 DEF Grouped
  <2>2. Grouped(groups)[k] = aggregate(Shown(reviews, t))
    BY <1>3, <2>1
  <2> QED BY <1>1, <1>2, <1>4, <1>6, <2>2, CountsNothing
<1> QED BY <1>5, <1>6

LEMMA UntypedReadAddsUp ==
  ASSUME TypeOK, FactsMatchAggregate, NEW t \in Targets
  PROVE  Count(aggregates_by_keys({KeyOf[s] : s \in Targets}, AnyType), KeyOf[t])
           = SumFunction([s \in {x \in Targets : KeyOf[x] = KeyOf[t]} |-> fact[s].count])
<1> DEFINE k == KeyOf[t]
           sharing == {x \in Targets : KeyOf[x] = k}
           groups == [g \in {KeyOf[s] : s \in Targets} |->
                        {r \in OfType(AnyType) : KeyOf[reviews[r].target] = g}]
<1>1. aggregates_by_keys({KeyOf[s] : s \in Targets}, AnyType) = Grouped(groups)
  BY DEF aggregates_by_keys
<1>2. \A r \in VisibleIds(reviews) : reviews[r].target \in Targets
  BY RowIsReview DEF TypeOK, VisibleIds, Rows, Review
<1>3. /\ k \in DOMAIN groups
      /\ groups[k] \cap VisibleIds(reviews)
           = {r \in VisibleIds(reviews) : reviews[r].target \in sharing}
  BY <1>2 DEF OfType, VisibleIds
<1>4. SumFunction([s \in sharing |-> fact[s].count])
        = Cardinality({r \in VisibleIds(reviews) : reviews[r].target \in sharing})
  BY TargetsCount
<1> HIDE DEF groups, sharing
<1>5. Count(Grouped(groups), k) = SumFunction([s \in sharing |-> fact[s].count])
  BY <1>3, <1>4, GroupCount
<1> QED BY <1>1, <1>5 DEF sharing

THEOREM RatingsAgree == Spec => []ReadsAgreeWithFacts
<1>1. TypeOK /\ FactsMatchAggregate => ReadsAgreeWithFacts
  BY TypedReadAgrees, UntypedReadAddsUp DEF ReadsAgreeWithFacts
<1> QED BY <1>1, TypeCorrect, FactsFollowTheStore, PTL

THEOREM OwnersAndTargetsAgree == Spec => []OwnerReadsAgree
<1>1. TypeOK /\ FactsMatchAggregate /\ OwnerListsMatch => OwnerReadsAgree
  <2> SUFFICES ASSUME TypeOK, FactsMatchAggregate, OwnerListsMatch PROVE OwnerReadsAgree
    OBVIOUS
  <2> DEFINE V == VisibleIds(reviews)
             owned == {r \in V : reviews[r].owner_key # NoOwner}
             unowned == {r \in V : reviews[r].owner_key = NoOwner}
             read == aggregates_by_owner_keys(OwnerKeys, AnyType)
  <2>1. IsFiniteSet(V)
    BY ReadAssumption, FS_Subset DEF VisibleIds, Rows
  <2>2. IsFiniteSet(owned) /\ IsFiniteSet(unowned)
    BY <2>1, FS_Subset
  <2>3. owned \cup unowned = V /\ owned \cap unowned = {}
    OBVIOUS
  <2>4. SumFunction([k \in OwnerKeys |-> Count(read, k)]) = Cardinality(owned)
    BY OwnersCountOwned
  <2>5. SumFunction([t \in Targets |-> fact[t].count]) = Cardinality(V)
    BY TargetsCountAll
  <2> HIDE DEF V, owned, unowned, read
  <2>6. Cardinality(V) = Cardinality(owned) + Cardinality(unowned)
    <3>1. Cardinality(owned \cup unowned)
            = Cardinality(owned) + Cardinality(unowned) - Cardinality(owned \cap unowned)
      BY <2>2, FS_Union
    <3>2. Cardinality(owned) \in Nat /\ Cardinality(unowned) \in Nat
      BY <2>2, FS_CardinalityType
    <3>3. Cardinality(owned \cap unowned) = 0
      BY <2>3, FS_EmptySet
    <3>4. Cardinality(owned \cup unowned) = Cardinality(owned) + Cardinality(unowned)
      BY <3>1, <3>2, <3>3
    <3> QED BY <2>3, <3>4
  <2>7. SumFunction([k \in OwnerKeys |-> Count(read, k)]) + Cardinality(unowned)
          = SumFunction([t \in Targets |-> fact[t].count])
    BY <2>4, <2>5, <2>6
  <2> QED BY <2>7 DEF OwnerReadsAgree, read, unowned, V
<1> QED BY <1>1, TypeCorrect, FactsFollowTheStore, OwnersCounted, PTL

-------------------------------------------------------------------------------
(***************************************************************************)
(* Who takes a review from its author leaves the author nothing.           *)
(***************************************************************************)
LEMMA NothingExported ==
  ASSUME NEW u
  PROVE  ~owns_something(u)' => export(u)' = [reviews |-> {}, responses |-> {}]
BY DEF export, owns_something

LEMMA TakenByEnd ==
  ASSUME TypeOK, [Next]_vars, NEW u \in Users, NEW r \in Authored(reviews, u),
         reviews'[r] = Erased \/ reviews'[r].author # u
  PROVE  ~owns_something(u)'
<1>1. r \in Rows(reviews) /\ reviews[r].author = u /\ reviews[r] # Erased
  BY DEF Authored, Rows
<1>2. ASSUME KeepsKeys, Rows(reviews) \subseteq Rows(reviews')
      PROVE  FALSE
  BY <1>1, <1>2 DEF KeepsKeys, Rows
<1>3. ASSUME NEW q \in ReviewIds, NEW t \in Targets, NEW w \in Users,
             NEW x \in RATING_MIN..RATING_MAX, create_review(q, t, w, x)
      PROVE  FALSE
  BY <1>1, <1>3, CreateEffect
<1>4. ASSUME NEW q \in Rows(reviews), NEW action, set_status(q, action)
      PROVE  FALSE
  <2>1. Rows(reviews') = Rows(reviews) /\ reviews'[r].author = reviews[r].author
    BY <1>1, <1>4, SetStatusEffect
  <2> QED BY <1>1, <2>1 DEF Rows
<1>5. ASSUME NEW v \in Users, gdpr_delete(v)
      PROVE  ~owns_something(u)'
  <2>1. v # u => reviews'[r] = reviews[r]
    BY <1>1, <1>5 DEF gdpr_delete, without, Authored, Rows
  <2> QED BY <1>1, <1>5, <2>1, ErasureEmpties
<1>6. ASSUME NEW v \in Users, NEW w \in Users, handle_user_merged(v, w)
      PROVE  ~owns_something(u)'
  <2>1. v # u => reviews'[r] = reviews[r]
    BY <1>1, <1>6 DEF handle_user_merged, Reassigned, Duplicates, Contested, Authored, Rows
  <2>2. v # w
    BY <1>6 DEF handle_user_merged
  <2> QED BY <1>1, <1>6, <2>1, <2>2, MergeEmpties
<1>7. ASSUME NEW t \in Targets, backfill_target(t)
      PROVE  FALSE
  <2>1. Rows(reviews') = Rows(reviews) /\ reviews'[r].author = reviews[r].author
    BY <1>1, <1>7, BackfillEffect
  <2> QED BY <1>1, <2>1 DEF Rows
<1>8. ASSUME UNCHANGED reviews
      PROVE  FALSE
  BY <1>1, <1>8
<1> QED
  BY <1>3, <1>4, <1>5, <1>6, <1>7, <1>8, RowGone
     DEF Next, Reviewing, Accounts, Configuration, moderate_review,
         handle_moderation_completed, respond, user_row_lands,
         register_target_type, vars

(***************************************************************************)
(* What a merge takes from the guest the survivor has.                     *)
(***************************************************************************)
LEMMA SurvivorHas ==
  ASSUME TypeOK, NEW u \in Users, NEW survivor \in Users,
         handle_user_merged(u, survivor), NEW r \in Authored(reviews, u)
  PROVE  \E q \in Rows(reviews') :
           /\ reviews'[q].author = survivor
           /\ reviews'[q].target = reviews[r].target
<1>1. Rows(reviews') = Rows(reviews) \ Duplicates(u, survivor) /\ u # survivor
  BY MergeDeletes DEF OnlyDeletes, handle_user_merged
<1>2. CASE r \notin Duplicates(u, survivor)
  <2>1. r \in Rows(reviews') /\ reviews[r].author = u
    BY <1>1, <1>2 DEF Authored
  <2> QED BY <2>1, MergeEffect
<1>3. CASE r \in Duplicates(u, survivor)
  <2>1. PICK q \in Authored(reviews, survivor) : reviews[q].target = reviews[r].target
    BY <1>3 DEF Duplicates, Contested, has_review
  <2>2. q \in Rows(reviews') /\ reviews[q].author = survivor
    BY <1>1, <2>1 DEF Duplicates, Contested, Authored
  <2> QED BY <1>1, <2>1, <2>2, MergeEffect
<1> QED BY <1>2, <1>3

(***************************************************************************)
(* An account leaves with everything it has, and a merge loses no review   *)
(* but to the survivor's own (actions.py:47-73, gdpr.py:11-15).            *)
(***************************************************************************)
THEOREM AccountsLeaveWhole == Spec => LeavesNothingBehind
<1>1. TypeOK /\ [Next]_vars =>
        \A u \in Users :
          LET mine == Authored(reviews, u)
          IN  /\ (\E r \in mine : reviews'[r] = Erased \/ reviews'[r].author # u) =>
                   export(u)' = [reviews |-> {}, responses |-> {}]
              /\ \A survivor \in Users :
                   handle_user_merged(u, survivor) =>
                     \A r \in mine : \E q \in Rows(reviews') :
                       /\ reviews'[q].author = survivor
                       /\ reviews'[q].target = reviews[r].target
  BY NothingExported, TakenByEnd, SurvivorHas
<1> QED BY <1>1, TypeCorrect, PTL DEF Spec, LeavesNothingBehind
===============================================================================
