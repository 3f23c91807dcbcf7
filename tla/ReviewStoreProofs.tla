-------------------------- MODULE ReviewStoreProofs --------------------------
(***************************************************************************)
(* What ReviewStore guarantees for every host, every set of accounts and   *)
(* targets, and every number of reviews.                                   *)
(***************************************************************************)
EXTENDS ReviewStore, TLAPS

(***************************************************************************)
(* A registered type resolves to a policy with every key present, and the  *)
(* owner keys it may stamp are owner keys (registry.py:88-112, 146-184).   *)
(***************************************************************************)
LEMMA PolicyResolved ==
  ASSUME TypeOK, NEW t \in Targets, isRegistered(t)
  PROVE  /\ policyOf(t) \in Policy
         /\ resolve_owner_key(policyOf(t), t) \ {Raises} \subseteq OwnerKeys
<1> DEFINE m == merged(runtime, TypeOf[t])
<1>1. m # None
  BY DEF isRegistered, get_target_types
<1>2. m \in RawPolicies \cup {None}
  BY PolicyAssumption, HostAssumption DEF TypeOK, merged, get
<1>3. policyOf(t) \in Policy
  BY <1>1, <1>2, PolicyAssumption DEF policyOf, resolve_policy
<1>4. resolve_owner_key(policyOf(t), t) \ {Raises} \subseteq OwnerKeys
  BY HostAssumption DEF resolve_owner_key, called
<1> QED BY <1>3, <1>4

(***************************************************************************)
(* An id with a row holds a review (models.py:39-126).                     *)
(***************************************************************************)
LEMMA RowIsReview ==
  ASSUME NEW rows \in Table
  PROVE  \A r \in ReviewIds : r \in Rows(rows) <=> rows[r] \in Review
BY RowAssumption DEF Table, Rows

(***************************************************************************)
(* Columns written by an update keep a table a table.                      *)
(***************************************************************************)
LEMMA ColumnUpdates ==
  ASSUME NEW row \in Review
  PROVE  /\ \A s \in Statuses : [row EXCEPT !.status = s] \in Review
         /\ \A k \in OwnerKeys : [row EXCEPT !.owner_key = k] \in Review
         /\ \A u \in Users, b \in BOOLEAN :
              [row EXCEPT !.author = u, !.unique_per_author = b] \in Review
BY DEF Review

(***************************************************************************)
(* A user row that goes when its account has nothing here takes nothing    *)
(* with it (models.py:70).                                                 *)
(***************************************************************************)
LEMMA EmptyCascade ==
  ASSUME TypeOK, NEW u \in Users, ~owns_something(u), cascade(u)
  PROVE  UNCHANGED <<reviews, responses, runtime, fact, told>> /\ users' = users \ {u}
<1>1. Authored(reviews, u) = {} /\ \A r \in ReviewIds : responses[r] # u
  BY DEF owns_something
<1>2. reviews' = reviews
  BY <1>1 DEF cascade, without, TypeOK, Table
<1>3. responses' = responses
  BY <1>1 DEF cascade, responsesWithout, TypeOK
<1> QED BY <1>2, <1>3 DEF cascade

LEMMA RowGone ==
  ASSUME TypeOK, NEW u \in Users, user_row_deleted(u)
  PROVE  UNCHANGED <<reviews, responses, runtime, fact, told>> /\ users' = users \ {u}
BY EmptyCascade DEF user_row_deleted

-------------------------------------------------------------------------------
(***************************************************************************)
(* Each operation keeps the types.                                         *)
(***************************************************************************)
LEMMA CreateType ==
  ASSUME TypeOK, NEW r \in ReviewIds, NEW t \in Targets, NEW u \in Users,
         NEW x \in RATING_MIN..RATING_MAX, create_review(r, t, u, x)
  PROVE  TypeOK'
<1>1. PICK owner_key \in resolve_owner_key(policyOf(t), t) \ {Raises} :
        reviews' = [reviews EXCEPT ![r] =
            [target |-> t, owner_key |-> owner_key, author |-> u,
             rating |-> x,
             status |-> IF policyOf(t).moderation = "pre"
                          THEN "pending" ELSE "published",
             unique_per_author |-> policyOf(t).one_per_author]]
  BY DEF create_review, insert_review
<1>2. owner_key \in OwnerKeys /\ policyOf(t).one_per_author \in BOOLEAN
  BY <1>1, PolicyResolved DEF create_review, insert_review, Policy
<1>3. reviews' \in Table
  BY <1>1, <1>2 DEF TypeOK, Table, Review, Statuses
<1>4. told' \subseteq ReviewIds
  BY DEF create_review, insert_review, TypeOK
<1> QED BY <1>3, <1>4 DEF create_review, insert_review, TypeOK

LEMMA SetStatusType ==
  ASSUME TypeOK, NEW r \in Rows(reviews), NEW action, set_status(r, action)
  PROVE  TypeOK'
<1> DEFINE new_status == IF action = "hide" THEN "hidden" ELSE "published"
<1>1. r \in ReviewIds /\ reviews[r] \in Review
  BY RowIsReview DEF TypeOK, Rows
<1>2. reviews' = [reviews EXCEPT ![r] = [reviews[r] EXCEPT !.status = new_status]]
  BY DEF set_status
<1>3. [reviews[r] EXCEPT !.status = new_status] \in Review
  BY <1>1, ColumnUpdates DEF Statuses
<1>4. reviews' \in Table
  BY <1>1, <1>2, <1>3 DEF TypeOK, Table
<1>5. told' \subseteq ReviewIds
  BY <1>1 DEF set_status, TypeOK
<1> QED BY <1>4, <1>5 DEF set_status, TypeOK

LEMMA ErasureType ==
  ASSUME TypeOK, NEW u \in Users, gdpr_delete(u)
  PROVE  TypeOK'
BY DEF gdpr_delete, TypeOK, Table, without, responsesWithout

LEMMA MergeType ==
  ASSUME TypeOK, NEW guest \in Users, NEW survivor \in Users,
         handle_user_merged(guest, survivor)
  PROVE  TypeOK'
<1>1. ASSUME NEW r \in Authored(reviews, guest)
      PROVE  [reviews[r] EXCEPT !.author = survivor,
                !.unique_per_author = @ /\ r \notin Contested(guest, survivor)] \in Review
  <2>1. reviews[r] \in Review
    BY <1>1, RowIsReview DEF TypeOK, Authored, Rows
  <2>2. (reviews[r].unique_per_author /\ r \notin Contested(guest, survivor)) \in BOOLEAN
    OBVIOUS
  <2> QED BY <2>1, <2>2, ColumnUpdates
<1>2. reviews' \in Table
  BY <1>1 DEF TypeOK, Table, handle_user_merged, Reassigned
<1>3. responses' \in [ReviewIds -> Users \cup {None}]
  BY DEF TypeOK, handle_user_merged, responsesWithout
<1> QED BY <1>2, <1>3 DEF TypeOK, handle_user_merged

LEMMA BackfillType ==
  ASSUME TypeOK, NEW t \in Targets, backfill_target(t)
  PROVE  TypeOK'
<1>1. PICK k \in resolve_owner_key(policyOf(t), t) \ {Raises} :
        reviews' = [r \in ReviewIds |->
            IF /\ r \in Rows(reviews)
               /\ reviews[r].target = t
               /\ reviews[r].owner_key = NoOwner
              THEN [reviews[r] EXCEPT !.owner_key = k]
              ELSE reviews[r]]
  BY DEF backfill_target
<1>2. k \in OwnerKeys
  BY <1>1, PolicyResolved DEF backfill_target
<1>3. \A r \in Rows(reviews) : [reviews[r] EXCEPT !.owner_key = k] \in Review
  BY <1>2, RowIsReview, ColumnUpdates DEF TypeOK, Rows
<1>4. reviews' \in Table
  BY <1>1, <1>3 DEF TypeOK, Table
<1> QED BY <1>4 DEF TypeOK, backfill_target

LEMMA OtherTypes ==
  ASSUME TypeOK
  PROVE  /\ \A r \in ReviewIds, u \in Users : respond(r, u) => TypeOK'
         /\ \A u \in Users : user_row_lands(u) \/ user_row_deleted(u) => TypeOK'
         /\ \A type \in Types, policy \in Registrations :
              register_target_type(type, policy) => TypeOK'
<1>1. ASSUME NEW r \in ReviewIds, NEW u \in Users, respond(r, u) PROVE TypeOK'
  BY <1>1 DEF respond, TypeOK
<1>2. ASSUME NEW u \in Users, user_row_lands(u) \/ user_row_deleted(u) PROVE TypeOK'
  BY <1>2, RowGone DEF user_row_lands, TypeOK
<1>3. ASSUME NEW type \in Types, NEW policy \in Registrations,
             register_target_type(type, policy)
      PROVE  TypeOK'
  BY <1>3 DEF register_target_type, registered, TypeOK
<1> QED BY <1>1, <1>2, <1>3

(***************************************************************************)
(* The rows, the responses and the registry keep their declared types.     *)
(***************************************************************************)
LEMMA TypeKept ==
  ASSUME TypeOK, [Next]_vars
  PROVE  TypeOK'
<1>1. CASE Reviewing
  BY <1>1, CreateType, SetStatusType, OtherTypes
     DEF Reviewing, moderate_review, handle_moderation_completed
<1>2. CASE Accounts
  BY <1>2, ErasureType, MergeType, OtherTypes DEF Accounts
<1>3. CASE Configuration
  BY <1>3, BackfillType, OtherTypes DEF Configuration
<1>4. CASE UNCHANGED vars
  BY <1>4 DEF vars, TypeOK
<1> QED BY <1>1, <1>2, <1>3, <1>4 DEF Next

THEOREM TypeCorrect == Spec => []TypeOK
<1>1. Init => TypeOK
  BY DEF Init, TypeOK, Table
<1> QED BY <1>1, TypeKept, PTL DEF Spec
-------------------------------------------------------------------------------
(***************************************************************************)
(* The rating of a target depends on the id, the status, the target and    *)
(* the rating of its rows, on nothing else.                                *)
(***************************************************************************)
ShowsOn(rows, r, t) == r \in VisibleIds(rows) /\ rows[r].target = t

LEMMA SameShown ==
  ASSUME NEW a, NEW b, NEW t,
         \A r \in ReviewIds : ShowsOn(a, r, t) <=> ShowsOn(b, r, t),
         \A r \in ReviewIds : ShowsOn(a, r, t) => a[r].rating = b[r].rating
  PROVE  Shown(a, t) = Shown(b, t)
<1>1. {q \in VisibleIds(a) : a[q].target = t} = {q \in VisibleIds(b) : b[q].target = t}
  BY DEF ShowsOn, VisibleIds, Rows
<1>2. \A q \in {p \in VisibleIds(a) : a[p].target = t} : a[q].rating = b[q].rating
  BY DEF ShowsOn, VisibleIds, Rows
<1> QED BY <1>1, <1>2 DEF Shown

(***************************************************************************)
(* Telling the targets ts is enough when no other rating changed.          *)
(***************************************************************************)
LEMMA ToldEnough ==
  ASSUME FactsMatchAggregate, NEW ts, emit_review_facts(ts),
         \A t \in Targets \ ts : Shown(reviews', t) = Shown(reviews, t)
  PROVE  FactsMatchAggregate'
BY DEF FactsMatchAggregate, emit_review_facts

LEMMA NothingToTell ==
  ASSUME FactsMatchAggregate, UNCHANGED fact,
         \A t \in Targets : Shown(reviews', t) = Shown(reviews, t)
  PROVE  FactsMatchAggregate'
BY DEF FactsMatchAggregate

FactsInv == FactsMatchAggregate /\ FactsTellVisibility

LEMMA CreateFacts ==
  ASSUME TypeOK, FactsInv,
         NEW r \in ReviewIds, NEW t \in Targets, NEW u \in Users,
         NEW x \in RATING_MIN..RATING_MAX, create_review(r, t, u, x)
  PROVE  FactsInv'
<1> USE DEF FactsInv
<1>1. PICK k \in resolve_owner_key(policyOf(t), t) \ {Raises} :
        reviews' = [reviews EXCEPT ![r] =
            [target |-> t, owner_key |-> k, author |-> u,
             rating |-> x,
             status |-> IF policyOf(t).moderation = "pre"
                          THEN "pending" ELSE "published",
             unique_per_author |-> policyOf(t).one_per_author]]
  BY DEF create_review, insert_review
<1>2. reviews'[r] \notin {Unwritten, Erased}
  <2>1. k \in OwnerKeys /\ policyOf(t).one_per_author \in BOOLEAN
    BY <1>1, PolicyResolved DEF create_review, insert_review, Policy
  <2>2. reviews'[r] \in Review
    BY <1>1, <2>1 DEF TypeOK, Table, Review, Statuses
  <2> QED BY <2>2, RowAssumption
<1>3. /\ r \notin Rows(reviews)
      /\ r \in Rows(reviews')
      /\ \A q \in ReviewIds \ {r} : reviews'[q] = reviews[q]
      /\ reviews'[r].target = t
      /\ reviews'[r].status =
           IF policyOf(t).moderation = "pre" THEN "pending" ELSE "published"
  BY <1>1, <1>2 DEF Rows, TypeOK, Table, create_review, insert_review
<1>4. VisibleIds(reviews') = IF policyOf(t).moderation = "pre"
                               THEN VisibleIds(reviews)
                               ELSE VisibleIds(reviews) \cup {r}
  BY <1>3 DEF VisibleIds, Rows, VISIBLE_STATUSES
<1>5. FactsTellVisibility'
  BY <1>4 DEF FactsTellVisibility, create_review, insert_review
<1>6. \A s \in Targets : s # t \/ policyOf(t).moderation = "pre" =>
        Shown(reviews', s) = Shown(reviews, s)
  <2> SUFFICES ASSUME NEW s \in Targets, s # t \/ policyOf(t).moderation = "pre"
               PROVE  Shown(reviews', s) = Shown(reviews, s)
    OBVIOUS
  <2>1. \A q \in ReviewIds : ShowsOn(reviews', q, s) <=> ShowsOn(reviews, q, s)
    BY <1>3, <1>4 DEF ShowsOn, VisibleIds
  <2>2. \A q \in ReviewIds : ShowsOn(reviews', q, s) => reviews'[q].rating = reviews[q].rating
    BY <1>3, <2>1 DEF ShowsOn, VisibleIds
  <2> QED BY <2>1, <2>2, SameShown
<1>7. FactsMatchAggregate'
  <2>1. CASE policyOf(t).moderation = "pre"
    BY <2>1, <1>6, NothingToTell DEF create_review, insert_review
  <2>2. CASE policyOf(t).moderation # "pre"
    BY <2>2, <1>6, ToldEnough DEF create_review, insert_review
  <2> QED BY <2>1, <2>2
<1> QED BY <1>5, <1>7

LEMMA SetStatusFacts ==
  ASSUME TypeOK, FactsInv, NEW r \in Rows(reviews), NEW action, set_status(r, action)
  PROVE  FactsInv'
<1> USE DEF FactsInv
<1> DEFINE new_status == IF action = "hide" THEN "hidden" ELSE "published"
           t == reviews[r].target
<1>1. r \in ReviewIds /\ reviews[r] \in Review
  BY RowIsReview DEF TypeOK, Rows
<1>2. reviews' = [reviews EXCEPT ![r] = [reviews[r] EXCEPT !.status = new_status]]
  BY DEF set_status
<1>3. /\ \A q \in ReviewIds \ {r} : reviews'[q] = reviews[q]
      /\ reviews'[r].status = new_status
      /\ reviews'[r].target = t
      /\ reviews'[r] \in Review
  <2> DEFINE row == [reviews[r] EXCEPT !.status = new_status]
  <2>1. row \in Review /\ row.status = new_status /\ row.target = t
    BY <1>1, ColumnUpdates DEF Statuses, Review
  <2> HIDE DEF row
  <2>2. reviews' = [reviews EXCEPT ![r] = row]
    BY <1>2 DEF row
  <2> QED BY <1>1, <2>1, <2>2 DEF TypeOK, Table
<1>4. Rows(reviews') = Rows(reviews)
  BY <1>1, <1>3, RowAssumption DEF Rows
<1>5. VisibleIds(reviews') = IF new_status = "hidden"
                               THEN VisibleIds(reviews) \ {r}
                               ELSE VisibleIds(reviews) \cup {r}
  BY <1>1, <1>3, <1>4 DEF VisibleIds, VISIBLE_STATUSES, Rows
<1>6. FactsTellVisibility'
  BY <1>5 DEF FactsTellVisibility, set_status
<1>7. \A s \in Targets \ {t} : Shown(reviews', s) = Shown(reviews, s)
  <2> SUFFICES ASSUME NEW s \in Targets \ {t}
               PROVE  Shown(reviews', s) = Shown(reviews, s)
    OBVIOUS
  <2>1. \A q \in ReviewIds : ShowsOn(reviews', q, s) <=> ShowsOn(reviews, q, s)
    BY <1>3, <1>4 DEF ShowsOn, VisibleIds
  <2>2. \A q \in ReviewIds : ShowsOn(reviews', q, s) => reviews'[q].rating = reviews[q].rating
    BY <1>3 DEF ShowsOn
  <2> QED BY <2>1, <2>2, SameShown
<1>8. FactsMatchAggregate'
  BY <1>7, ToldEnough DEF set_status
<1> QED BY <1>6, <1>8

(***************************************************************************)
(* An erasure, a merge and a backfill delete the rows R and leave the      *)
(* target, the rating and the status of every other row alone.             *)
(***************************************************************************)
OnlyDeletes(R) ==
  /\ Rows(reviews') = Rows(reviews) \ R
  /\ \A q \in Rows(reviews') :
       /\ reviews'[q].target = reviews[q].target
       /\ reviews'[q].rating = reviews[q].rating
       /\ reviews'[q].status = reviews[q].status

LEMMA DeletedFacts ==
  ASSUME NEW R, OnlyDeletes(R)
  PROVE  /\ VisibleIds(reviews') = VisibleIds(reviews) \ R
         /\ \A t \in Targets \ targetsOf(R \cap VisibleIds(reviews)) :
              Shown(reviews', t) = Shown(reviews, t)
<1>1. VisibleIds(reviews') = VisibleIds(reviews) \ R
  BY DEF OnlyDeletes, VisibleIds
<1>2. ASSUME NEW t \in Targets \ targetsOf(R \cap VisibleIds(reviews))
      PROVE  Shown(reviews', t) = Shown(reviews, t)
  <2>1. \A q \in R \cap VisibleIds(reviews) : reviews[q].target # t
    BY <1>2 DEF targetsOf
  <2>2. \A q \in ReviewIds : ShowsOn(reviews', q, t) <=> ShowsOn(reviews, q, t)
    BY <1>1, <2>1 DEF OnlyDeletes, ShowsOn, VisibleIds
  <2>3. \A q \in ReviewIds : ShowsOn(reviews', q, t) => reviews'[q].rating = reviews[q].rating
    BY DEF OnlyDeletes, ShowsOn, VisibleIds
  <2> QED BY <2>2, <2>3, SameShown
<1> QED BY <1>1, <1>2

LEMMA ErasureDeletes ==
  ASSUME TypeOK, NEW u \in Users, gdpr_delete(u)
  PROVE  OnlyDeletes(Authored(reviews, u))
BY DEF OnlyDeletes, gdpr_delete, without, Rows, Authored, TypeOK, Table

LEMMA MergeDeletes ==
  ASSUME TypeOK, NEW guest \in Users, NEW survivor \in Users,
         handle_user_merged(guest, survivor)
  PROVE  OnlyDeletes(Duplicates(guest, survivor))
<1> DEFINE D == Duplicates(guest, survivor)
           C == Contested(guest, survivor)
           moved(r) == [reviews[r] EXCEPT !.author = survivor,
                          !.unique_per_author = @ /\ r \notin C]
<1>1. /\ D \subseteq Authored(reviews, guest)
      /\ Authored(reviews, guest) \subseteq Rows(reviews)
  BY DEF Duplicates, Contested, Authored
<1>2. \A r \in ReviewIds :
        reviews'[r] = IF r \in D THEN Erased
                      ELSE IF r \in Authored(reviews, guest) THEN moved(r)
                      ELSE reviews[r]
  BY DEF handle_user_merged, Reassigned
<1>3. \A r \in Authored(reviews, guest) :
        /\ moved(r) \in Review
        /\ moved(r).target = reviews[r].target
        /\ moved(r).rating = reviews[r].rating
        /\ moved(r).status = reviews[r].status
  <2> SUFFICES ASSUME NEW r \in Authored(reviews, guest)
               PROVE  /\ moved(r) \in Review
                      /\ moved(r).target = reviews[r].target
                      /\ moved(r).rating = reviews[r].rating
                      /\ moved(r).status = reviews[r].status
    OBVIOUS
  <2>1. reviews[r] \in Review
    BY RowIsReview DEF TypeOK, Authored, Rows
  <2>2. (reviews[r].unique_per_author /\ r \notin C) \in BOOLEAN
    OBVIOUS
  <2> QED BY <2>1, <2>2 DEF Review
<1> HIDE DEF D, C, moved
<1>4. \A r \in ReviewIds : r \in Rows(reviews') <=> r \in Rows(reviews) \ D
  BY <1>1, <1>2, <1>3, RowAssumption DEF Rows
<1>5. Rows(reviews') = Rows(reviews) \ D
  BY <1>4 DEF Rows
<1>6. \A q \in Rows(reviews') :
       /\ reviews'[q].target = reviews[q].target
       /\ reviews'[q].rating = reviews[q].rating
       /\ reviews'[q].status = reviews[q].status
  BY <1>1, <1>2, <1>3, <1>5 DEF Rows
<1> QED BY <1>5, <1>6 DEF OnlyDeletes, D

LEMMA BackfillDeletesNothing ==
  ASSUME TypeOK, NEW t \in Targets, backfill_target(t)
  PROVE  OnlyDeletes({})
<1>1. PICK k \in resolve_owner_key(policyOf(t), t) \ {Raises} :
        reviews' = [r \in ReviewIds |->
            IF /\ r \in Rows(reviews)
               /\ reviews[r].target = t
               /\ reviews[r].owner_key = NoOwner
              THEN [reviews[r] EXCEPT !.owner_key = k]
              ELSE reviews[r]]
  BY DEF backfill_target
<1>2. k \in OwnerKeys
  BY <1>1, PolicyResolved DEF backfill_target
<1> DEFINE stamped(r) == [reviews[r] EXCEPT !.owner_key = k]
<1>3. \A r \in Rows(reviews) :
        /\ stamped(r) \in Review
        /\ stamped(r).target = reviews[r].target
        /\ stamped(r).rating = reviews[r].rating
        /\ stamped(r).status = reviews[r].status
  BY <1>2, RowIsReview DEF TypeOK, Rows, Review
<1>4. \A r \in ReviewIds : reviews'[r] = reviews[r] \/
                           (r \in Rows(reviews) /\ reviews'[r] = stamped(r))
  BY <1>1
<1> HIDE DEF stamped
<1>5. Rows(reviews') = Rows(reviews)
  BY <1>3, <1>4, RowAssumption DEF Rows
<1> QED BY <1>3, <1>4, <1>5 DEF OnlyDeletes, Rows

LEMMA UntouchedDeletesNothing ==
  ASSUME UNCHANGED reviews
  PROVE  OnlyDeletes({})
BY DEF OnlyDeletes

(***************************************************************************)
(* The facts follow a deletion when its visible rows are told.             *)
(***************************************************************************)
LEMMA DeletionTold ==
  ASSUME FactsInv, NEW R, OnlyDeletes(R),
         emit_review_facts(targetsOf(R \cap VisibleIds(reviews))),
         told' = told \ (R \cap VisibleIds(reviews))
  PROVE  FactsInv'
<1>1. FactsMatchAggregate'
  BY DeletedFacts, ToldEnough DEF FactsInv
<1>2. VisibleIds(reviews') = VisibleIds(reviews) \ R
  BY DeletedFacts
<1>3. FactsTellVisibility'
  BY <1>2 DEF FactsInv, FactsTellVisibility
<1> QED BY <1>1, <1>3 DEF FactsInv

LEMMA NoFactNeeded ==
  ASSUME FactsInv, OnlyDeletes({}), UNCHANGED <<fact, told>>
  PROVE  FactsInv'
<1>1. \A t \in Targets : Shown(reviews', t) = Shown(reviews, t)
  BY DeletedFacts DEF targetsOf
<1>2. FactsMatchAggregate'
  BY <1>1, NothingToTell DEF FactsInv
<1>3. VisibleIds(reviews') = VisibleIds(reviews)
  BY DeletedFacts
<1>4. FactsTellVisibility'
  BY <1>3 DEF FactsInv, FactsTellVisibility
<1> QED BY <1>2, <1>4 DEF FactsInv

(***************************************************************************)
(* The last fact of every target carries the rating of the reviews it      *)
(* shows, and the last fact of every review says whether it shows, after   *)
(* any history of creates, moderations, verdicts, erasures, merges,        *)
(* backfills and registrations that do not overlap (services.py:456-475).  *)
(***************************************************************************)
THEOREM FactsFollowTheStore == Spec => [](FactsMatchAggregate /\ FactsTellVisibility)
<1>1. Init => FactsInv
  <2> SUFFICES ASSUME Init PROVE FactsInv
    OBVIOUS
  <2>1. Rows(reviews) = {} /\ VisibleIds(reviews) = {}
    BY DEF Init, Rows, VisibleIds
  <2>2. \A t \in Targets : Shown(reviews, t) = {}
    BY <2>1 DEF Shown
  <2> QED BY <2>1, <2>2
          DEF Init, FactsInv, FactsMatchAggregate, FactsTellVisibility, NoRating
<1>2. TypeOK /\ FactsInv /\ [Next]_vars => FactsInv'
  <2> SUFFICES ASSUME TypeOK, FactsInv, [Next]_vars PROVE FactsInv'
    OBVIOUS
  <2>1. ASSUME NEW r \in ReviewIds, NEW t \in Targets, NEW u \in Users,
               NEW x \in RATING_MIN..RATING_MAX, create_review(r, t, u, x)
        PROVE  FactsInv'
    BY <2>1, CreateFacts
  <2>2. ASSUME NEW r \in ReviewIds, NEW u \in Users, NEW action,
               moderate_review(r, u, action)
        PROVE  FactsInv'
    BY <2>2, SetStatusFacts DEF moderate_review
  <2>3. ASSUME NEW r \in ReviewIds, NEW decision, handle_moderation_completed(r, decision)
        PROVE  FactsInv'
    BY <2>3, SetStatusFacts DEF handle_moderation_completed
  <2>4. ASSUME NEW r \in ReviewIds, NEW u \in Users, respond(r, u)
        PROVE  FactsInv'
    BY <2>4, UntouchedDeletesNothing, NoFactNeeded DEF respond
  <2>5. ASSUME NEW u \in Users, gdpr_delete(u)
        PROVE  FactsInv'
    BY <2>5, ErasureDeletes, DeletionTold DEF gdpr_delete
  <2>6. ASSUME NEW u \in Users, NEW survivor \in Users, handle_user_merged(u, survivor)
        PROVE  FactsInv'
    BY <2>6, MergeDeletes, DeletionTold DEF handle_user_merged
  <2>7. ASSUME NEW u \in Users, user_row_lands(u) \/ user_row_deleted(u)
        PROVE  FactsInv'
    BY <2>7, RowGone, UntouchedDeletesNothing, NoFactNeeded DEF user_row_lands
  <2>8. ASSUME NEW type, NEW policy, register_target_type(type, policy)
        PROVE  FactsInv'
    BY <2>8, UntouchedDeletesNothing, NoFactNeeded DEF register_target_type
  <2>9. ASSUME NEW t \in Targets, backfill_target(t)
        PROVE  FactsInv'
    BY <2>9, BackfillDeletesNothing, NoFactNeeded DEF backfill_target
  <2>10. CASE UNCHANGED vars
    BY <2>10, UntouchedDeletesNothing, NoFactNeeded DEF vars
  <2>11. CASE Next
    BY <2>1, <2>2, <2>3, <2>4, <2>5, <2>6, <2>7, <2>8, <2>9, <2>11
       DEF Next, Reviewing, Accounts, Configuration
  <2> QED BY <2>10, <2>11
<1>3. FactsInv <=> FactsMatchAggregate /\ FactsTellVisibility
  BY DEF FactsInv
<1> QED BY <1>1, <1>2, <1>3, TypeCorrect, PTL DEF Spec

-------------------------------------------------------------------------------
(***************************************************************************)
(* What each operation does to the author, the target and the flag.        *)
(***************************************************************************)
LEMMA CreateEffect ==
  ASSUME TypeOK, NEW r \in ReviewIds, NEW t \in Targets, NEW u \in Users,
         NEW x \in RATING_MIN..RATING_MAX, create_review(r, t, u, x)
  PROVE  /\ r \notin Rows(reviews)
         /\ Rows(reviews') = Rows(reviews) \cup {r}
         /\ \A q \in Rows(reviews) : reviews'[q] = reviews[q]
         /\ reviews'[r].target = t
         /\ reviews'[r].author = u
         /\ reviews'[r].unique_per_author = policyOf(t).one_per_author
<1>1. PICK k \in resolve_owner_key(policyOf(t), t) \ {Raises} :
        reviews' = [reviews EXCEPT ![r] =
            [target |-> t, owner_key |-> k, author |-> u,
             rating |-> x,
             status |-> IF policyOf(t).moderation = "pre"
                          THEN "pending" ELSE "published",
             unique_per_author |-> policyOf(t).one_per_author]]
  BY DEF create_review, insert_review
<1>2. k \in OwnerKeys /\ policyOf(t).one_per_author \in BOOLEAN
  BY <1>1, PolicyResolved DEF create_review, insert_review, Policy
<1>3. /\ reviews'[r] \in Review
      /\ reviews'[r].target = t
      /\ reviews'[r].author = u
      /\ reviews'[r].unique_per_author = policyOf(t).one_per_author
      /\ \A q \in ReviewIds \ {r} : reviews'[q] = reviews[q]
  BY <1>1, <1>2 DEF TypeOK, Table, Review, Statuses
<1>4. r \notin Rows(reviews)
  BY DEF create_review, insert_review, Rows
<1>5. Rows(reviews') = Rows(reviews) \cup {r}
  BY <1>3, <1>4, RowAssumption DEF Rows
<1> QED BY <1>3, <1>4, <1>5 DEF Rows

LEMMA SetStatusEffect ==
  ASSUME TypeOK, NEW r \in Rows(reviews), NEW action, set_status(r, action)
  PROVE  /\ Rows(reviews') = Rows(reviews)
         /\ \A q \in Rows(reviews) :
              /\ reviews'[q].target = reviews[q].target
              /\ reviews'[q].author = reviews[q].author
              /\ reviews'[q].unique_per_author = reviews[q].unique_per_author
<1> DEFINE new_status == IF action = "hide" THEN "hidden" ELSE "published"
           row == [reviews[r] EXCEPT !.status = new_status]
<1>1. r \in ReviewIds /\ reviews[r] \in Review
  BY RowIsReview DEF TypeOK, Rows
<1>2. reviews' = [reviews EXCEPT ![r] = row]
  BY DEF set_status
<1>3. /\ row \in Review
      /\ row.target = reviews[r].target
      /\ row.author = reviews[r].author
      /\ row.unique_per_author = reviews[r].unique_per_author
  BY <1>1, ColumnUpdates DEF Statuses, Review
<1> HIDE DEF row
<1>4. Rows(reviews') = Rows(reviews)
  BY <1>1, <1>2, <1>3, RowAssumption DEF Rows, TypeOK, Table
<1> QED BY <1>1, <1>2, <1>3, <1>4 DEF Rows, TypeOK, Table

LEMMA MergeEffect ==
  ASSUME TypeOK, NEW guest \in Users, NEW survivor \in Users,
         handle_user_merged(guest, survivor)
  PROVE  \A q \in Rows(reviews') :
           /\ q \in Rows(reviews) \ Duplicates(guest, survivor)
           /\ reviews'[q].target = reviews[q].target
           /\ reviews[q].author # guest => reviews'[q] = reviews[q]
           /\ reviews[q].author = guest =>
                /\ reviews'[q].author = survivor
                /\ reviews'[q].unique_per_author =>
                     /\ reviews[q].unique_per_author
                     /\ q \notin Contested(guest, survivor)
<1> SUFFICES ASSUME NEW q \in Rows(reviews')
             PROVE  /\ q \in Rows(reviews) \ Duplicates(guest, survivor)
                    /\ reviews'[q].target = reviews[q].target
                    /\ reviews[q].author # guest => reviews'[q] = reviews[q]
                    /\ reviews[q].author = guest =>
                         /\ reviews'[q].author = survivor
                         /\ reviews'[q].unique_per_author =>
                              /\ reviews[q].unique_per_author
                              /\ q \notin Contested(guest, survivor)
  OBVIOUS
<1> DEFINE moved == [reviews[q] EXCEPT !.author = survivor,
                       !.unique_per_author = @ /\ q \notin Contested(guest, survivor)]
<1>1. q \in ReviewIds /\ q \in Rows(reviews) \ Duplicates(guest, survivor)
  BY MergeDeletes DEF OnlyDeletes, Rows
<1>2. reviews[q] \in Review
  BY <1>1, RowIsReview DEF TypeOK
<1>3. reviews'[q].target = reviews[q].target
  BY MergeDeletes DEF OnlyDeletes
<1>4. reviews'[q] = IF reviews[q].author = guest THEN moved ELSE reviews[q]
  BY <1>1 DEF handle_user_merged, Reassigned, Authored
<1>5. /\ moved.author = survivor
      /\ moved.unique_per_author
           = (reviews[q].unique_per_author /\ q \notin Contested(guest, survivor))
  BY <1>2 DEF Review
<1> HIDE DEF moved
<1> QED BY <1>1, <1>3, <1>4, <1>5

LEMMA DeleteEffect ==
  ASSUME TypeOK, NEW u \in Users, gdpr_delete(u)
  PROVE  \A q \in Rows(reviews') :
           q \in Rows(reviews) \ Authored(reviews, u) /\ reviews'[q] = reviews[q]
BY ErasureDeletes DEF OnlyDeletes, gdpr_delete, without, Rows

LEMMA BackfillEffect ==
  ASSUME TypeOK, NEW t \in Targets, backfill_target(t)
  PROVE  /\ Rows(reviews') = Rows(reviews)
         /\ \A q \in Rows(reviews) :
              /\ reviews'[q].target = reviews[q].target
              /\ reviews'[q].author = reviews[q].author
              /\ reviews'[q].unique_per_author = reviews[q].unique_per_author
<1>1. Rows(reviews') = Rows(reviews)
  BY BackfillDeletesNothing DEF OnlyDeletes
<1>2. PICK k : reviews' = [r \in ReviewIds |->
            IF /\ r \in Rows(reviews)
               /\ reviews[r].target = t
               /\ reviews[r].owner_key = NoOwner
              THEN [reviews[r] EXCEPT !.owner_key = k]
              ELSE reviews[r]]
  BY DEF backfill_target
<1>3. ASSUME NEW q \in Rows(reviews)
      PROVE  /\ reviews'[q].target = reviews[q].target
             /\ reviews'[q].author = reviews[q].author
             /\ reviews'[q].unique_per_author = reviews[q].unique_per_author
  <2> DEFINE stamped == [reviews[q] EXCEPT !.owner_key = k]
  <2>1. q \in ReviewIds /\ reviews[q] \in Review
    BY RowIsReview DEF TypeOK, Rows
  <2>2. reviews'[q] = reviews[q] \/ reviews'[q] = stamped
    BY <1>2, <2>1
  <2>3. /\ stamped.target = reviews[q].target
        /\ stamped.author = reviews[q].author
        /\ stamped.unique_per_author = reviews[q].unique_per_author
    BY <2>1 DEF Review
  <2> HIDE DEF stamped
  <2> QED BY <2>2, <2>3
<1> QED BY <1>1, <1>3

-------------------------------------------------------------------------------
(***************************************************************************)
(* A step after which every row was there before, with the same target,    *)
(* author and flag.                                                        *)
(***************************************************************************)
KeepsKeys ==
  \A q \in Rows(reviews') :
    /\ q \in Rows(reviews)
    /\ reviews'[q].target = reviews[q].target
    /\ reviews'[q].author = reviews[q].author
    /\ reviews'[q].unique_per_author = reviews[q].unique_per_author

\* Every step that is neither a create nor a merge.
LEMMA KeepingSteps ==
  ASSUME TypeOK,
         \/ \E r \in ReviewIds, u \in Users : \E action : moderate_review(r, u, action)
         \/ \E r \in ReviewIds : \E decision : handle_moderation_completed(r, decision)
         \/ \E r \in ReviewIds, u \in Users : respond(r, u)
         \/ \E u \in Users : gdpr_delete(u) \/ user_row_lands(u) \/ user_row_deleted(u)
         \/ Configuration
         \/ UNCHANGED vars
  PROVE  KeepsKeys
<1>1. ASSUME NEW r \in Rows(reviews), NEW action, set_status(r, action)
      PROVE  KeepsKeys
  BY <1>1, SetStatusEffect DEF KeepsKeys
<1>2. ASSUME NEW u \in Users, gdpr_delete(u)
      PROVE  KeepsKeys
  BY <1>2, DeleteEffect DEF KeepsKeys
<1>3. ASSUME NEW t \in Targets, backfill_target(t)
      PROVE  KeepsKeys
  BY <1>3, BackfillEffect DEF KeepsKeys
<1>4. ASSUME UNCHANGED reviews
      PROVE  KeepsKeys
  BY <1>4 DEF KeepsKeys
<1>5. ASSUME NEW u \in Users, user_row_deleted(u)
      PROVE  KeepsKeys
  BY <1>4, <1>5, RowGone
<1> QED
  BY <1>1, <1>2, <1>3, <1>4, <1>5
     DEF moderate_review, handle_moderation_completed, respond, user_row_lands,
         Configuration, register_target_type, vars

(***************************************************************************)
(* The partial unique constraint never has to refuse a write of operations *)
(* that do not overlap, whatever the policies were when the rows were      *)
(* written: no IntegrityError rolls a create or a merge back               *)
(* (services.py:509, actions.py:166-187).                                  *)
(***************************************************************************)
THEOREM ConstraintNeverRefuses == Spec => []OneFlaggedReview
<1> USE DEF OneFlaggedReview, rev_one_per_author
<1>1. Init => OneFlaggedReview
  BY DEF Init, Rows
<1>2. TypeOK /\ OneFlaggedReview /\ [Next]_vars => OneFlaggedReview'
  <2> SUFFICES ASSUME TypeOK, OneFlaggedReview, [Next]_vars
               PROVE  OneFlaggedReview'
    OBVIOUS
  <2>1. ASSUME KeepsKeys PROVE OneFlaggedReview'
    BY <2>1 DEF KeepsKeys
  <2>2. ASSUME NEW r \in ReviewIds, NEW t \in Targets, NEW u \in Users,
               NEW x \in RATING_MIN..RATING_MAX, create_review(r, t, u, x)
        PROVE  OneFlaggedReview'
    <3>1. policyOf(t).one_per_author => ~has_review(t, u)
      BY <2>2 DEF create_review, insert_review
    <3>2. ASSUME policyOf(t).one_per_author, NEW q \in Rows(reviews)
          PROVE  ~(reviews[q].target = t /\ reviews[q].author = u)
      BY <3>1, <3>2 DEF has_review, Authored
    <3> QED BY <2>2, <3>2, CreateEffect
  <2>3. ASSUME NEW guest \in Users, NEW survivor \in Users,
               handle_user_merged(guest, survivor)
        PROVE  OneFlaggedReview'
    <3>1. SUFFICES ASSUME NEW q \in Rows(reviews'), NEW p \in Rows(reviews'),
                          reviews'[q].unique_per_author,
                          reviews'[p].unique_per_author,
                          reviews'[q].target = reviews'[p].target,
                          reviews'[q].author = reviews'[p].author
                   PROVE  q = p
      OBVIOUS
    <3>2. /\ q \in Rows(reviews) /\ p \in Rows(reviews)
          /\ reviews[q].target = reviews[p].target
          /\ reviews[q].unique_per_author /\ reviews[p].unique_per_author
      BY <2>3, <3>1, MergeEffect
    <3>3. CASE reviews[q].author = reviews[p].author
      BY <3>2, <3>3
    <3>4. CASE reviews[q].author # reviews[p].author
      \* One of them moved to an account that had the other: it lost its flag.
      <4>1. \A a, b \in Rows(reviews') :
              /\ reviews[a].author = guest
              /\ reviews[b].author = survivor
              /\ reviews[a].target = reviews[b].target
              => ~reviews'[a].unique_per_author
        BY <2>3, MergeEffect DEF Contested, has_review, Authored
      <4>2. \/ reviews[q].author = guest /\ reviews[p].author = survivor
            \/ reviews[p].author = guest /\ reviews[q].author = survivor
        BY <2>3, <3>1, <3>4, MergeEffect
      <4> QED BY <3>1, <3>2, <4>1, <4>2
    <3> QED BY <3>3, <3>4
  <2> QED
    BY <2>1, <2>2, <2>3, KeepingSteps
       DEF Next, Reviewing, Accounts
<1> QED BY <1>1, <1>2, TypeCorrect, PTL DEF Spec

(***************************************************************************)
(* While no registration changes a policy, nobody has two reviews of a     *)
(* target whose policy is one for each author: a merge leaves no state     *)
(* create_review would have refused (actions.py:60-73).                    *)
(***************************************************************************)
THEOREM OneVoiceUnderFixedPolicy ==
  ASSUME Registrations = {}
  PROVE  Spec => []OneVoice
<1>1. Init => OneVoice
  BY DEF Init, OneVoice, Rows
<1>2. TypeOK /\ OneVoice /\ [Next]_vars => OneVoice'
  <2> SUFFICES ASSUME TypeOK, OneVoice, [Next]_vars
               PROVE  OneVoice'
    OBVIOUS
  <2>1. runtime' = runtime
    BY RowGone, ZenonT(60)
       DEF Next, Reviewing, Accounts, Configuration, create_review, insert_review, moderate_review,
           handle_moderation_completed, set_status, respond, gdpr_delete,
           handle_user_merged, user_row_lands, backfill_target, vars
  <2>2. \A t : upholds_one_per_author(t)' <=> upholds_one_per_author(t)
    BY <2>1 DEF upholds_one_per_author, isRegistered, policyOf
  <2>3. ASSUME KeepsKeys PROVE OneVoice'
    BY <2>2, <2>3 DEF KeepsKeys, OneVoice
  <2>4. ASSUME NEW r \in ReviewIds, NEW t \in Targets, NEW u \in Users,
               NEW x \in RATING_MIN..RATING_MAX, create_review(r, t, u, x)
        PROVE  OneVoice'
    <3>1. policyOf(t).one_per_author => ~has_review(t, u)
      BY <2>4 DEF create_review, insert_review
    <3>2. ASSUME upholds_one_per_author(t), NEW q \in Rows(reviews)
          PROVE  ~(reviews[q].target = t /\ reviews[q].author = u)
      BY <3>1, <3>2 DEF has_review, Authored, upholds_one_per_author
    <3> QED BY <2>2, <2>4, <3>2, CreateEffect DEF OneVoice
  <2>5. ASSUME NEW guest \in Users, NEW survivor \in Users,
               handle_user_merged(guest, survivor)
        PROVE  OneVoice'
    <3>1. SUFFICES ASSUME NEW q \in Rows(reviews'), NEW p \in Rows(reviews'),
                          reviews'[q].target = reviews'[p].target,
                          reviews'[q].author = reviews'[p].author,
                          upholds_one_per_author(reviews'[q].target)
                   PROVE  q = p
      BY <2>1 DEF OneVoice, upholds_one_per_author, isRegistered, policyOf
    <3>2. /\ q \in Rows(reviews) /\ p \in Rows(reviews)
          /\ reviews[q].target = reviews[p].target
          /\ upholds_one_per_author(reviews[q].target)
      BY <2>5, <3>1, MergeEffect
    <3>3. CASE reviews[q].author = reviews[p].author
      BY <3>2, <3>3 DEF OneVoice
    <3>4. CASE reviews[q].author # reviews[p].author
      \* The guest's one is a duplicate: it was dropped.
      <4>1. \A a, b \in Rows(reviews') :
              /\ reviews[a].author = guest
              /\ reviews[b].author = survivor
              /\ reviews[a].target = reviews[b].target
              => ~upholds_one_per_author(reviews[a].target)
        BY <2>5, MergeEffect DEF Duplicates, Contested, has_review, Authored
      <4>2. \/ reviews[q].author = guest /\ reviews[p].author = survivor
            \/ reviews[p].author = guest /\ reviews[q].author = survivor
        BY <2>5, <3>1, <3>4, MergeEffect
      <4> QED BY <3>1, <3>2, <4>1, <4>2
    <3> QED BY <3>3, <3>4
  <2> QED
    BY <2>3, <2>4, <2>5, KeepingSteps
       DEF Next, Reviewing, Accounts
<1> QED BY <1>1, <1>2, TypeCorrect, PTL DEF Spec

(***************************************************************************)
(* No operation leaves a review or a response without its author, or a     *)
(* response without its review (actions.py:110-136, gdpr.py:50-53,         *)
(* models.py:73-77, 138-146).                                              *)
(***************************************************************************)
THEOREM NothingDangles == Spec => []RowsAttached
<1>1. Init => RowsAttached
  BY DEF Init, RowsAttached, Rows
<1>2. TypeOK /\ RowsAttached /\ [Next]_vars => RowsAttached'
  <2> SUFFICES ASSUME TypeOK, RowsAttached, [Next]_vars
               PROVE  RowsAttached'
    OBVIOUS
  <2> USE DEF RowsAttached
  <2>1. ASSUME NEW r \in ReviewIds, NEW t \in Targets, NEW u \in Users,
               NEW x \in RATING_MIN..RATING_MAX, create_review(r, t, u, x)
        PROVE  RowsAttached'
    <3>1. u \in users /\ UNCHANGED <<users, responses>>
      BY <2>1 DEF create_review, insert_review
    <3> QED BY <2>1, <3>1, CreateEffect
  <2>2. ASSUME NEW r \in Rows(reviews), NEW action, set_status(r, action)
        PROVE  RowsAttached'
    <3>1. UNCHANGED <<users, responses>>
      BY <2>2 DEF set_status
    <3> QED BY <2>2, <3>1, SetStatusEffect
  <2>3. ASSUME NEW r \in ReviewIds, NEW u \in Users, respond(r, u)
        PROVE  RowsAttached'
    BY <2>3 DEF respond, TypeOK
  <2>4. ASSUME NEW u \in Users, gdpr_delete(u)
        PROVE  RowsAttached'
    <3>1. \A r \in Rows(reviews') : reviews'[r].author \in users'
      BY <2>4, DeleteEffect DEF gdpr_delete
    <3>2. \A r \in ReviewIds : responses'[r] # None =>
            responses'[r] = responses[r] /\ r \notin Authored(reviews, u)
      BY <2>4 DEF gdpr_delete, responsesWithout
    <3>3. \A r \in Rows(reviews) \ Authored(reviews, u) : r \in Rows(reviews')
      BY <2>4, ErasureDeletes DEF OnlyDeletes
    <3> QED BY <2>4, <3>1, <3>2, <3>3 DEF gdpr_delete
  <2>5. ASSUME NEW guest \in Users, NEW survivor \in Users,
               handle_user_merged(guest, survivor)
        PROVE  RowsAttached'
    <3>1. survivor \in users /\ users' = users
      BY <2>5 DEF handle_user_merged
    <3>2. \A r \in Rows(reviews') : reviews'[r].author \in users'
      BY <2>5, <3>1, MergeEffect
    <3>3. \A r \in ReviewIds : responses'[r] # None =>
            /\ responses[r] # None
            /\ responses'[r] \in {responses[r], survivor}
            /\ r \notin Duplicates(guest, survivor)
      BY <2>5, RowAssumption DEF handle_user_merged, responsesWithout
    <3>4. \A r \in Rows(reviews) \ Duplicates(guest, survivor) : r \in Rows(reviews')
      BY <2>5, MergeDeletes DEF OnlyDeletes
    <3> QED BY <3>1, <3>2, <3>3, <3>4
  <2>6. ASSUME NEW u \in Users, user_row_lands(u)
        PROVE  RowsAttached'
    BY <2>6 DEF user_row_lands
  <2>7. ASSUME NEW u \in Users, user_row_deleted(u)
        PROVE  RowsAttached'
    BY <2>7, RowGone DEF user_row_deleted, owns_something, Authored
  <2>8. ASSUME NEW t \in Targets, backfill_target(t)
        PROVE  RowsAttached'
    <3>1. UNCHANGED <<responses, users>>
      BY <2>8 DEF backfill_target
    <3> QED BY <2>8, <3>1, BackfillEffect
  <2>9. ASSUME UNCHANGED <<reviews, responses, users>>
        PROVE  RowsAttached'
    BY <2>9
  <2> QED
    BY <2>1, <2>2, <2>3, <2>4, <2>5, <2>6, <2>7, <2>8, <2>9
       DEF Next, Reviewing, Accounts, Configuration, moderate_review,
           handle_moderation_completed, register_target_type, vars
<1> QED BY <1>1, <1>2, TypeCorrect, PTL DEF Spec
-------------------------------------------------------------------------------
(***************************************************************************)
(* An erasure leaves an account nothing, a merge leaves the guest nothing, *)
(* and neither gives an account anything but the survivor.                 *)
(***************************************************************************)
GainsNothing(u) == owns_something(u)' => owns_something(u)

LEMMA ErasureEmpties ==
  ASSUME TypeOK, NEW u \in Users, NEW v \in Users, gdpr_delete(v)
  PROVE  GainsNothing(u) /\ (v = u => ~owns_something(u)')
<1>1. \A q \in Rows(reviews') :
        q \in Rows(reviews) /\ reviews[q].author # v /\ reviews'[q] = reviews[q]
  BY DeleteEffect DEF Authored
<1>2. \A r \in ReviewIds :
        /\ responses'[r] \in {None, responses[r]}
        /\ responses[r] = v => responses'[r] = None
  BY DEF gdpr_delete, responsesWithout
<1>3. u # None
  BY RowAssumption
<1> QED BY <1>1, <1>2, <1>3 DEF GainsNothing, owns_something, Authored

LEMMA MergeEmpties ==
  ASSUME TypeOK, NEW u \in Users, NEW v \in Users, NEW w \in Users,
         handle_user_merged(v, w), w # u
  PROVE  GainsNothing(u) /\ (v = u => ~owns_something(u)')
<1>1. \A q \in Rows(reviews') :
        /\ q \in Rows(reviews)
        /\ reviews'[q].author = IF reviews[q].author = v THEN w ELSE reviews[q].author
  BY MergeEffect
<1>2. \A r \in ReviewIds :
        /\ responses'[r] \in {None, responses[r], w}
        /\ responses[r] = v => responses'[r] \in {None, w}
  BY DEF handle_user_merged, responsesWithout
<1>3. u # None
  BY RowAssumption
<1> QED BY <1>1, <1>2, <1>3 DEF GainsNothing, owns_something, Authored
-------------------------------------------------------------------------------
(***************************************************************************)
(* A row that stays keeps what it is about, its rating, and an owner key   *)
(* once it has one.                                                        *)
(***************************************************************************)
Settled(r) ==
  reviews'[r] # Erased =>
    /\ reviews'[r].target = reviews[r].target
    /\ reviews'[r].rating = reviews[r].rating
    /\ reviews[r].owner_key # NoOwner
         => reviews'[r].owner_key = reviews[r].owner_key

LEMMA StatusSettled ==
  ASSUME TypeOK, NEW r \in Rows(reviews), NEW q \in Rows(reviews), NEW action,
         set_status(q, action)
  PROVE  Settled(r)
<1> DEFINE row == [reviews[q] EXCEPT !.status =
                     IF action = "hide" THEN "hidden" ELSE "published"]
<1>1. reviews[q] \in Review /\ q \in ReviewIds /\ r \in ReviewIds
  BY RowIsReview DEF TypeOK, Rows
<1>2. /\ row.target = reviews[q].target
      /\ row.rating = reviews[q].rating
      /\ row.owner_key = reviews[q].owner_key
  BY <1>1 DEF Review
<1>3. reviews' = [reviews EXCEPT ![q] = row]
  BY DEF set_status
<1> HIDE DEF row
<1> QED BY <1>1, <1>2, <1>3 DEF Settled, TypeOK, Table

LEMMA MergeSettled ==
  ASSUME TypeOK, NEW guest \in Users, NEW survivor \in Users,
         handle_user_merged(guest, survivor), NEW r \in Rows(reviews)
  PROVE  Settled(r)
<1> DEFINE row == [reviews[r] EXCEPT !.author = survivor,
                     !.unique_per_author = @ /\ r \notin Contested(guest, survivor)]
<1>1. reviews[r] \in Review /\ r \in ReviewIds
  BY RowIsReview DEF TypeOK, Rows
<1>2. /\ row.target = reviews[r].target
      /\ row.rating = reviews[r].rating
      /\ row.owner_key = reviews[r].owner_key
  BY <1>1 DEF Review
<1>3. reviews'[r] \in {Erased, row, reviews[r]}
  BY <1>1 DEF handle_user_merged, Reassigned
<1> HIDE DEF row
<1> QED BY <1>2, <1>3 DEF Settled

LEMMA BackfillSettled ==
  ASSUME TypeOK, NEW t \in Targets, backfill_target(t), NEW r \in Rows(reviews)
  PROVE  Settled(r)
<1>1. PICK k \in resolve_owner_key(policyOf(t), t) \ {Raises} :
        reviews' = [q \in ReviewIds |->
            IF /\ q \in Rows(reviews)
               /\ reviews[q].target = t
               /\ reviews[q].owner_key = NoOwner
              THEN [reviews[q] EXCEPT !.owner_key = k]
              ELSE reviews[q]]
  BY DEF backfill_target
<1> DEFINE row == [reviews[r] EXCEPT !.owner_key = k]
<1>2. reviews[r] \in Review /\ r \in ReviewIds
  BY RowIsReview DEF TypeOK, Rows
<1>3. row.target = reviews[r].target /\ row.rating = reviews[r].rating
  BY <1>2 DEF Review
<1>4. \/ reviews'[r] = reviews[r]
      \/ reviews'[r] = row /\ reviews[r].owner_key = NoOwner
  BY <1>1, <1>2
<1> HIDE DEF row
<1> QED BY <1>3, <1>4 DEF Settled

(***************************************************************************)
(* What a review is about is settled when it is written, whichever         *)
(* operations follow (services.py:362-367, models.py:57-70).               *)
(***************************************************************************)
THEOREM ColumnsSettled == Spec => SettledColumns
<1>1. TypeOK /\ [Next]_vars => \A r \in Rows(reviews) : Settled(r)
  <2> SUFFICES ASSUME TypeOK, [Next]_vars, NEW r \in Rows(reviews)
               PROVE  Settled(r)
    OBVIOUS
  <2>1. ASSUME UNCHANGED reviews PROVE Settled(r)
    BY <2>1 DEF Settled
  <2>2. ASSUME NEW q \in ReviewIds, NEW t \in Targets, NEW u \in Users,
               NEW x \in RATING_MIN..RATING_MAX, create_review(q, t, u, x)
        PROVE  Settled(r)
    BY <2>2, CreateEffect DEF Settled
  <2>3. ASSUME NEW u \in Users, gdpr_delete(u)
        PROVE  Settled(r)
    <3>1. reviews'[r] \in {Erased, reviews[r]}
      BY <2>3 DEF gdpr_delete, without, Rows
    <3> QED BY <3>1 DEF Settled
  <2> QED
    BY <2>1, <2>2, <2>3, RowGone, StatusSettled, MergeSettled, BackfillSettled
       DEF Next, Reviewing, Accounts, Configuration, moderate_review,
           handle_moderation_completed, respond, user_row_lands,
           register_target_type, vars
<1>2. (\A r \in Rows(reviews) : Settled(r)) =>
        \A r \in Rows(reviews) :
          reviews'[r] # Erased =>
            /\ reviews'[r].target = reviews[r].target
            /\ reviews'[r].rating = reviews[r].rating
            /\ reviews[r].owner_key # NoOwner
                 => reviews'[r].owner_key = reviews[r].owner_key
  BY DEF Settled
<1> QED BY <1>1, <1>2, TypeCorrect, PTL DEF Spec, SettledColumns
===============================================================================
