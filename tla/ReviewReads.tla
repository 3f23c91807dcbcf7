------------------------------ MODULE ReviewReads ------------------------------
(***************************************************************************)
(* What readers of the store get: the batch aggregates a host or a seller  *)
(* page asks for, the lists of GET /reviews, and the data of one account.  *)
(* Reads change nothing: they are operators on the tables of ReviewStore.  *)
(***************************************************************************)
EXTENDS ReviewStore, FiniteSets

CONSTANTS
  KeyOf,       \* the target_key of a target; types may share keys
  AnyType,     \* no target_type given
  Anonymous,   \* a caller without an account
  Staff        \* whom stapel-core calls staff

ASSUME ReadAssumption ==
  /\ IsFiniteSet(ReviewIds) /\ IsFiniteSet(Targets) /\ IsFiniteSet(OwnerKeys)
  /\ \A t \in Targets : KeyOf[t] # None
  /\ \A s, t \in Targets : KeyOf[s] = KeyOf[t] /\ TypeOf[s] = TypeOf[t] => s = t
  /\ AnyType \notin Types /\ Anonymous \notin Users
  /\ Staff \subseteq Users

-------------------------------------------------------------------------------
(* services: the batch aggregates and the lists.                             *)

OfType(type) ==
  {r \in Rows(reviews) : type \in {AnyType, TypeOf[reviews[r].target]}}

\* Variant: what is pending or hidden counts too.
Published_or_not(R) == {<<r, reviews[r].rating>> : r \in R}

\* The published reviews among R, as aggregate() takes them.
Published(R) == {<<r, reviews[r].rating>> : r \in R \cap VisibleIds(reviews)}

\* GROUP BY: a group without a published review is absent.
Grouped(groups) ==
  [k \in {g \in DOMAIN groups : Published(groups[g]) # {}} |->
     aggregate(Published(groups[k]))]

aggregates_by_keys(keys, type) ==
  Grouped([k \in keys |-> {r \in OfType(type) : KeyOf[reviews[r].target] = k}])

\* Variant: the unknown owner is an owner.
aggregates_by_any_owner_keys(owner_keys, type) ==
  Grouped([k \in owner_keys |-> {r \in OfType(type) : reviews[r].owner_key = k}])

aggregates_by_owner_keys(owner_keys, type) ==
  Grouped([k \in owner_keys \ {NoOwner} |->
             {r \in OfType(type) : reviews[r].owner_key = k}])

list_reviews(t, include_all) ==
  {r \in Rows(reviews) :
     reviews[r].target = t /\ (include_all \/ r \in VisibleIds(reviews))}

list_reviews_by_owner(owner_key, type, include_all) ==
  {r \in OfType(type) :
     /\ owner_key # NoOwner /\ reviews[r].owner_key = owner_key
     /\ include_all \/ r \in VisibleIds(reviews)}

-------------------------------------------------------------------------------
(* ReviewListCreateView.get: who is shown more than what is published.       *)

\* Variant: a type that is not registered leaves the wish as it came.
sees_all_unguarded(caller, t) ==
  IF caller = Anonymous THEN {FALSE}
  ELSE IF isRegistered(t) THEN check_can_moderate(policyOf(t), caller, t)
  ELSE {TRUE}

\* What comes of a wish for everything on the target axis: nobody asks the host
\* about a caller without an account.
sees_all(caller, t) ==
  IF caller # Anonymous /\ isRegistered(t)
    THEN check_can_moderate(policyOf(t), caller, t)
    ELSE {FALSE}

page(R) == [status |-> 200, reviews |-> R]

list_of_target(caller, t, wants_all) ==
  {IF all = Raises THEN [status |-> 500, reviews |-> {}] ELSE page(list_reviews(t, all)) :
     all \in IF wants_all THEN sees_all(caller, t) ELSE {FALSE}}

list_of_owner(caller, owner_key, type, wants_all) ==
  list_reviews_by_owner(owner_key, type, wants_all /\ caller \in Staff)

\* What the query parameters may be; a missing one is AnyType, None or NoOwner.
Queries ==
  [target_type : Types \cup {AnyType}, target_key : {KeyOf[t] : t \in Targets} \cup {None},
   owner_key : OwnerKeys, include_all : BOOLEAN]

targetsNamed(type, key) == {t \in Targets : TypeOf[t] = type /\ KeyOf[t] = key}

\* The answers a list may get.  It is addressed by a target or by an owner, never
\* by both or neither.
get_reviews(caller, query) ==
  CASE query.owner_key # NoOwner /\ query.target_key = None ->
         {page(list_of_owner(caller, query.owner_key, query.target_type,
                             query.include_all))}
    [] /\ query.owner_key = NoOwner
       /\ query.target_type # AnyType /\ query.target_key # None ->
         UNION {list_of_target(caller, t, query.include_all) :
                  t \in targetsNamed(query.target_type, query.target_key)}
    [] OTHER -> {[status |-> 400, reviews |-> {}]}

\* AggregateView.get, past its check that a target is named.
get_aggregate(type, key) ==
  aggregate(UNION {Shown(reviews, t) : t \in targetsNamed(type, key)})

\* ReviewsGDPRProvider.export
export(u) ==
  [reviews |-> Authored(reviews, u),
   responses |-> {r \in ReviewIds : responses[r] = u}]

-------------------------------------------------------------------------------
Count(read, k) == IF k \in DOMAIN read THEN read[k].count ELSE 0

\* The batch read of a type, GET /reviews/aggregate and the last fact of a target
\* show the same rating, and the batch misses exactly the targets that show
\* nothing.  Asked for keys alone, as core's Projection asks, the batch counts
\* the published reviews of every type that shares the key, each once
\* (services.py:204-219).
ReadsAgreeWithFacts ==
  LET untyped == aggregates_by_keys({KeyOf[t] : t \in Targets}, AnyType)
  IN  \A t \in Targets :
        LET read == aggregates_by_keys({KeyOf[t]}, TypeOf[t])
            sharing == {s \in Targets : KeyOf[s] = KeyOf[t]}
        IN  /\ IF fact[t].count = 0 THEN DOMAIN read = {} ELSE read[KeyOf[t]] = fact[t]
            /\ get_aggregate(TypeOf[t], KeyOf[t]) = fact[t]
            /\ Count(untyped, KeyOf[t]) = SumFunction([s \in sharing |-> fact[s].count])

\* An owner's public list has as many rows as the owner's rating counts.
OwnerListsMatch ==
  LET read == aggregates_by_owner_keys(OwnerKeys, AnyType)
  IN  \A k \in OwnerKeys :
        Count(read, k) = Cardinality(list_of_owner(Anonymous, k, AnyType, TRUE))

\* The ratings of owners and of targets count the same reviews: each published
\* one for its target, and for one owner unless nobody knows the owner; and so
\* do the owners' public lists (services.py:238-257, 710-729).
OwnerReadsAgree ==
  LET read == aggregates_by_owner_keys(OwnerKeys, AnyType)
      owned == SumFunction([k \in OwnerKeys |-> Count(read, k)])
      unowned == {r \in VisibleIds(reviews) : reviews[r].owner_key = NoOwner}
  IN  /\ owned + Cardinality(unowned)
           = SumFunction([t \in Targets |-> fact[t].count])
      /\ OwnerListsMatch

\* What the lists show without an account, however they are addressed, is what
\* consumers were told is published, and no such read fails on the host.  Whoever
\* asks for everything is shown more only as staff, on the owner axis, or as a
\* moderator of a target whose type is registered: a removed type hides what it
\* hid (views.py:323-380, gdpr.py:53-58).
PublicListsAreTold ==
  LET shown(caller, query) == UNION {answer.reviews : answer \in get_reviews(caller, query)}
  IN  /\ told = UNION {shown(Anonymous, query) : query \in Queries}
      /\ \A query \in Queries : \A answer \in get_reviews(Anonymous, query) :
           answer.status # 500
      /\ \A caller \in Users, query \in Queries :
           \/ shown(caller, query) \subseteq told
           \/ query.owner_key # NoOwner /\ caller \in Staff
           \/ \E t \in targetsNamed(query.target_type, query.target_key) :
                isRegistered(t) /\ caller \in HostModerators[t]

\* A review leaves its author with everything else of that account; and where
\* it goes in a merge, the survivor has a review of the target: none is lost
\* but to the survivor's own (actions.py:47-73, gdpr.py:11-15).
LeavesNothingBehind ==
  [][\A u \in Users :
       LET mine == Authored(reviews, u)
       IN  /\ (\E r \in mine : reviews'[r] = Erased \/ reviews'[r].author # u) =>
                export(u)' = [reviews |-> {}, responses |-> {}]
           /\ \A survivor \in Users :
                handle_user_merged(u, survivor) =>
                  \A r \in mine : \E q \in Rows(reviews') :
                    /\ reviews'[q].author = survivor
                    /\ reviews'[q].target = reviews[r].target]_vars
===============================================================================
