----------------------------- MODULE LedgerProofs -----------------------------
(***************************************************************************)
(* ReviewStore implements RatingLedger: seen through its published reviews *)
(* and the facts it emits, every operation publishes one review, withdraws *)
(* some, or does nothing.                                                  *)
(***************************************************************************)
EXTENDS ReviewStoreProofs

shownNow == [t \in Targets |-> Shown(reviews, t)]

(***************************************************************************)
(* The ledger's Tell follows from the facts matching before and after, as  *)
(* long as the targets told are those whose rating changed.                *)
(***************************************************************************)
LEMMA TellStep ==
  ASSUME FactsInv, FactsInv', NEW ts,
         \A t \in Targets \ ts : Shown(reviews', t) = Shown(reviews, t)
  PROVE  Ledger!Tell(ts)
BY DEF FactsInv, FactsMatchAggregate, Ledger!Tell

LEMMA WithdrawStep ==
  ASSUME FactsInv, FactsInv', NEW R \in SUBSET ReviewIds,
         \A t \in Targets : Shown(reviews', t) = {v \in Shown(reviews, t) : v[1] \notin R},
         told' = told \ R,
         ErasedIds(reviews) \subseteq ErasedIds(reviews'),
         ErasedIds(reviews') \subseteq ErasedIds(reviews) \cup R
  PROVE  Ledger!Withdraw(R)
<1> DEFINE ts == {t \in Targets : shownNow'[t] # shownNow[t]}
<1>1. \A t \in Targets \ ts : Shown(reviews', t) = Shown(reviews, t)
  BY DEF shownNow
<1>2. Ledger!Tell(ts)
  BY <1>1, TellStep
<1>3. shownNow' = [t \in Targets |-> {v \in shownNow[t] : v[1] \notin R}]
  BY DEF shownNow
<1> QED BY <1>2, <1>3 DEF Ledger!Withdraw, shownNow

(***************************************************************************)
(* What a published row contributes to the reviews shown.                  *)
(***************************************************************************)
LEMMA ShownPairs ==
  ASSUME NEW rows, NEW t, NEW v
  PROVE  v \in Shown(rows, t) <=>
           \E r \in ReviewIds : ShowsOn(rows, r, t) /\ v = <<r, rows[r].rating>>
BY DEF Shown, ShowsOn, VisibleIds, Rows

LEMMA ShownShrinks ==
  ASSUME NEW a, NEW b, NEW t, NEW R,
         \A r \in ReviewIds : ShowsOn(b, r, t) <=> ShowsOn(a, r, t) /\ r \notin R,
         \A r \in ReviewIds : ShowsOn(b, r, t) => b[r].rating = a[r].rating
  PROVE  Shown(b, t) = {v \in Shown(a, t) : v[1] \notin R}
<1>1. ASSUME NEW v \in Shown(b, t) PROVE v \in Shown(a, t) /\ v[1] \notin R
  BY <1>1, ShownPairs
<1>2. ASSUME NEW v \in Shown(a, t), v[1] \notin R PROVE v \in Shown(b, t)
  BY <1>2, ShownPairs
<1> QED BY <1>1, <1>2

LEMMA ShownGrows ==
  ASSUME NEW a, NEW b, NEW t, NEW r \in ReviewIds, ShowsOn(b, r, t),
         \A q \in ReviewIds : ShowsOn(b, q, t) <=> ShowsOn(a, q, t) \/ q = r,
         \A q \in ReviewIds : ShowsOn(a, q, t) => b[q].rating = a[q].rating
  PROVE  Shown(b, t) = Shown(a, t) \cup {<<r, b[r].rating>>}
<1>1. ASSUME NEW v \in Shown(b, t) PROVE v \in Shown(a, t) \cup {<<r, b[r].rating>>}
  BY <1>1, ShownPairs
<1>2. ASSUME NEW v \in Shown(a, t) \cup {<<r, b[r].rating>>} PROVE v \in Shown(b, t)
  BY <1>2, ShownPairs
<1> QED BY <1>1, <1>2

-------------------------------------------------------------------------------
(***************************************************************************)
(* Deleting rows withdraws the reviews deleted.                            *)
(***************************************************************************)
LEMMA DeletionWithdraws ==
  ASSUME FactsInv, FactsInv', NEW R \in SUBSET ReviewIds, OnlyDeletes(R),
         ErasedIds(reviews) \subseteq ErasedIds(reviews'),
         ErasedIds(reviews') \subseteq ErasedIds(reviews) \cup R
  PROVE  Ledger!Withdraw(R)
<1>1. VisibleIds(reviews') = VisibleIds(reviews) \ R
  BY DeletedFacts
<1>2. told' = told \ R
  BY <1>1 DEF FactsInv, FactsTellVisibility
<1>3. ASSUME NEW t \in Targets
      PROVE  Shown(reviews', t) = {v \in Shown(reviews, t) : v[1] \notin R}
  <2>1. \A r \in ReviewIds : ShowsOn(reviews', r, t) <=> ShowsOn(reviews, r, t) /\ r \notin R
    BY <1>1 DEF OnlyDeletes, ShowsOn, VisibleIds
  <2>2. \A r \in ReviewIds : ShowsOn(reviews', r, t) => reviews'[r].rating = reviews[r].rating
    BY DEF OnlyDeletes, ShowsOn, VisibleIds
  <2> QED BY <2>1, <2>2, ShownShrinks
<1> QED BY <1>2, <1>3, WithdrawStep

LEMMA NoRatingTouched ==
  ASSUME FactsInv, FactsInv', OnlyDeletes({}),
         ErasedIds(reviews') = ErasedIds(reviews)
  PROVE  Ledger!Next
<1>1. Ledger!Withdraw({})
  BY DeletionWithdraws
<1> QED BY <1>1 DEF Ledger!Next

(***************************************************************************)
(* A review becomes visible: created published, or published by a          *)
(* moderator or a verdict.                                                 *)
(***************************************************************************)
LEMMA Publication ==
  ASSUME FactsInv, FactsInv', NEW r \in ReviewIds, NEW t \in Targets,
         r \notin VisibleIds(reviews), reviews[r] # Erased,
         reviews'[r].target = t, reviews'[r].rating \in RATING_MIN..RATING_MAX,
         VisibleIds(reviews') = VisibleIds(reviews) \cup {r},
         \A q \in VisibleIds(reviews) :
           reviews'[q].target = reviews[q].target /\ reviews'[q].rating = reviews[q].rating,
         ErasedIds(reviews') = ErasedIds(reviews)
  PROVE  Ledger!Publish(r, t)
<1> DEFINE v == <<r, reviews'[r].rating>>
<1>1. \A s \in Targets \ {t} : Shown(reviews', s) = Shown(reviews, s)
  <2> SUFFICES ASSUME NEW s \in Targets \ {t}
               PROVE  Shown(reviews', s) = Shown(reviews, s)
    OBVIOUS
  <2>1. \A q \in ReviewIds : ShowsOn(reviews', q, s) <=> ShowsOn(reviews, q, s)
    BY DEF ShowsOn
  <2>2. \A q \in ReviewIds : ShowsOn(reviews', q, s) => reviews'[q].rating = reviews[q].rating
    BY DEF ShowsOn
  <2> QED BY <2>1, <2>2, SameShown
<1>2. Shown(reviews', t) = Shown(reviews, t) \cup {v}
  <2>1. \A q \in ReviewIds : ShowsOn(reviews', q, t) <=> ShowsOn(reviews, q, t) \/ q = r
    BY DEF ShowsOn
  <2>2. \A q \in ReviewIds : ShowsOn(reviews, q, t) => reviews'[q].rating = reviews[q].rating
    BY DEF ShowsOn
  <2> QED BY <2>1, <2>2, ShownGrows
<1>3. shownNow' = [shownNow EXCEPT ![t] = @ \cup {<<r, reviews'[r].rating>>}]
  BY <1>1, <1>2 DEF shownNow
<1>4. r \notin told \cup ErasedIds(reviews) /\ told' = told \cup {r}
  BY DEF FactsInv, FactsTellVisibility, ErasedIds
<1>5. Ledger!Tell({t})
  BY <1>1, TellStep
<1> QED BY <1>3, <1>4, <1>5 DEF Ledger!Publish, shownNow

LEMMA CreateLedger ==
  ASSUME TypeOK, FactsInv, FactsInv',
         NEW r \in ReviewIds, NEW t \in Targets, NEW u \in Users,
         NEW x \in RATING_MIN..RATING_MAX, create_review(r, t, u, x)
  PROVE  Ledger!Next
<1>1. PICK k \in resolve_owner_key(policyOf(t), t) \ {Raises} :
        reviews' = [reviews EXCEPT ![r] =
            [target |-> t, owner_key |-> k, author |-> u,
             rating |-> x,
             status |-> IF policyOf(t).moderation = "pre"
                          THEN "pending" ELSE "published",
             unique_per_author |-> policyOf(t).one_per_author]]
  BY DEF create_review, insert_review
<1>2. k \in OwnerKeys /\ policyOf(t).one_per_author \in BOOLEAN
  BY <1>1, PolicyResolved DEF create_review, insert_review, Policy
<1>3. /\ reviews'[r] \in Review
      /\ reviews'[r].target = t
      /\ reviews'[r].rating = x
      /\ reviews'[r].status =
           IF policyOf(t).moderation = "pre" THEN "pending" ELSE "published"
      /\ \A q \in ReviewIds \ {r} : reviews'[q] = reviews[q]
  BY <1>1, <1>2 DEF TypeOK, Table, Review, Statuses
<1>4. /\ r \notin Rows(reviews)
      /\ reviews[r] # Erased
      /\ ErasedIds(reviews') = ErasedIds(reviews)
      /\ Rows(reviews') = Rows(reviews) \cup {r}
  BY <1>3, RowAssumption DEF create_review, insert_review, Rows, ErasedIds
<1>5. r \notin VisibleIds(reviews)
  BY <1>4 DEF VisibleIds
<1>6. CASE policyOf(t).moderation = "pre"
  <2>1. VisibleIds(reviews') = VisibleIds(reviews)
    BY <1>3, <1>4, <1>6 DEF VisibleIds, VISIBLE_STATUSES, Rows
  <2>2. \A s \in Targets : Shown(reviews', s) = {v \in Shown(reviews, s) : v[1] \notin {}}
    <3> SUFFICES ASSUME NEW s \in Targets
                 PROVE  Shown(reviews', s) = {v \in Shown(reviews, s) : v[1] \notin {}}
      OBVIOUS
    <3>1. \A q \in ReviewIds : ShowsOn(reviews', q, s) <=> ShowsOn(reviews, q, s)
      BY <1>3, <1>5, <2>1 DEF ShowsOn
    <3>2. \A q \in ReviewIds :
            ShowsOn(reviews', q, s) => reviews'[q].rating = reviews[q].rating
      BY <1>3, <1>5, <2>1 DEF ShowsOn
    <3>3. Shown(reviews', s) = Shown(reviews, s)
      BY <3>1, <3>2, SameShown
    <3> QED BY <3>3
  <2>3. told' = told \ {}
    BY <2>1 DEF FactsInv, FactsTellVisibility
  <2>4. Ledger!Withdraw({})
    BY <1>4, <2>2, <2>3, WithdrawStep
  <2> QED BY <2>4 DEF Ledger!Next
<1>7. CASE policyOf(t).moderation # "pre"
  <2>1. VisibleIds(reviews') = VisibleIds(reviews) \cup {r}
    BY <1>3, <1>4, <1>7 DEF VisibleIds, VISIBLE_STATUSES, Rows
  <2>2. \A q \in VisibleIds(reviews) : reviews'[q] = reviews[q]
    BY <1>3, <1>5 DEF VisibleIds, Rows
  <2>3. Ledger!Publish(r, t)
    BY <1>3, <1>4, <1>5, <2>1, <2>2, Publication
  <2> QED BY <2>3 DEF Ledger!Next
<1> QED BY <1>6, <1>7

LEMMA SetStatusLedger ==
  ASSUME TypeOK, FactsInv, FactsInv',
         NEW r \in Rows(reviews), NEW action, set_status(r, action)
  PROVE  Ledger!Next
<1> DEFINE new_status == IF action = "hide" THEN "hidden" ELSE "published"
           row == [reviews[r] EXCEPT !.status = new_status]
<1>1. r \in ReviewIds /\ reviews[r] \in Review
  BY RowIsReview DEF TypeOK, Rows
<1>2. reviews' = [reviews EXCEPT ![r] = row] /\ reviews[r].status # new_status
  BY DEF set_status
<1>3. /\ row \in Review
      /\ row.status = new_status
      /\ row.target = reviews[r].target
      /\ row.rating = reviews[r].rating
  BY <1>1, ColumnUpdates DEF Statuses, Review
<1> HIDE DEF row
<1>4. /\ reviews'[r] = row
      /\ \A q \in ReviewIds \ {r} : reviews'[q] = reviews[q]
  BY <1>1, <1>2 DEF TypeOK, Table
<1>5. /\ Rows(reviews') = Rows(reviews)
      /\ ErasedIds(reviews') = ErasedIds(reviews)
      /\ reviews[r] # Erased
  BY <1>1, <1>3, <1>4, RowAssumption DEF Rows, ErasedIds
<1>6. CASE new_status = "hidden"
  <2>1. VisibleIds(reviews') = VisibleIds(reviews) \ {r}
    BY <1>3, <1>4, <1>5, <1>6 DEF VisibleIds, VISIBLE_STATUSES, Rows
  <2> DEFINE R == {r}
  <2>2. \A s \in Targets : Shown(reviews', s) = {v \in Shown(reviews, s) : v[1] \notin R}
    <3> SUFFICES ASSUME NEW s \in Targets
                 PROVE  Shown(reviews', s) = {v \in Shown(reviews, s) : v[1] \notin R}
      OBVIOUS
    <3>1. \A q \in ReviewIds : q \in R <=> q = r
      OBVIOUS
    <3> HIDE DEF R
    <3>2. \A q \in ReviewIds :
            ShowsOn(reviews', q, s) <=> ShowsOn(reviews, q, s) /\ q \notin R
      BY <1>4, <2>1, <3>1 DEF ShowsOn
    <3>3. \A q \in ReviewIds :
            ShowsOn(reviews', q, s) => reviews'[q].rating = reviews[q].rating
      BY <1>4, <2>1, <3>1 DEF ShowsOn
    <3> QED BY <3>2, <3>3, ShownShrinks
  <2>3. told' = told \ {r}
    BY <2>1 DEF FactsInv, FactsTellVisibility
  <2>4. Ledger!Withdraw({r})
    BY <1>1, <1>5, <2>2, <2>3, WithdrawStep
  <2> QED BY <1>1, <2>4 DEF Ledger!Next
<1>7. CASE new_status # "hidden"
  <2>1. new_status = "published"
    BY <1>7
  <2>2. VisibleIds(reviews') = VisibleIds(reviews) \cup {r}
    BY <1>1, <1>3, <1>4, <1>5, <2>1 DEF VisibleIds, VISIBLE_STATUSES, Rows
  <2>3. r \notin VisibleIds(reviews)
    BY <1>2, <2>1 DEF VisibleIds, VISIBLE_STATUSES
  <2>4. reviews[r].target \in Targets /\ row.rating \in RATING_MIN..RATING_MAX
    BY <1>1, <1>3 DEF Review
  <2>5. \A q \in VisibleIds(reviews) : reviews'[q] = reviews[q]
    BY <1>4, <2>3 DEF VisibleIds, Rows
  <2>6. Ledger!Publish(r, reviews[r].target)
    BY <1>1, <1>3, <1>4, <1>5, <2>2, <2>3, <2>4, <2>5, Publication
  <2> QED BY <1>1, <2>4, <2>6 DEF Ledger!Next
<1> QED BY <1>6, <1>7

LEMMA ErasureLedger ==
  ASSUME TypeOK, FactsInv, FactsInv', NEW u \in Users, gdpr_delete(u)
  PROVE  Ledger!Next
<1> DEFINE gone == Authored(reviews, u)
<1>1. gone \in SUBSET ReviewIds
  BY DEF Authored, Rows
<1>2. ErasedIds(reviews') = ErasedIds(reviews) \cup gone
  BY <1>1 DEF gdpr_delete, without, ErasedIds
<1>3. Ledger!Withdraw(gone)
  BY <1>1, <1>2, ErasureDeletes, DeletionWithdraws
<1> QED BY <1>1, <1>3 DEF Ledger!Next

LEMMA MergeLedger ==
  ASSUME TypeOK, FactsInv, FactsInv', NEW guest \in Users, NEW survivor \in Users,
         handle_user_merged(guest, survivor)
  PROVE  Ledger!Next
<1> DEFINE D == Duplicates(guest, survivor)
<1>1. D \in SUBSET ReviewIds
  BY DEF Duplicates, Contested, Authored, Rows
<1>2. \A r \in ReviewIds : r \in D => reviews'[r] = Erased
  BY DEF handle_user_merged, Reassigned
<1>3. \A r \in ReviewIds : r \notin D /\ r \in Rows(reviews) => reviews'[r] # Erased
  BY MergeDeletes DEF OnlyDeletes, Rows
<1>4. \A r \in ReviewIds : r \notin Rows(reviews) => reviews'[r] = reviews[r] /\ r \notin D
  BY DEF handle_user_merged, Reassigned, Duplicates, Contested, Authored
<1>5. /\ ErasedIds(reviews) \subseteq ErasedIds(reviews')
      /\ ErasedIds(reviews') \subseteq ErasedIds(reviews) \cup D
  BY <1>2, <1>3, <1>4 DEF ErasedIds, Rows
<1>6. Ledger!Withdraw(D)
  BY <1>1, <1>5, MergeDeletes, DeletionWithdraws
<1> QED BY <1>1, <1>6 DEF Ledger!Next

LEMMA QuietLedger ==
  ASSUME TypeOK, FactsInv, FactsInv',
         UNCHANGED reviews \/ \E t \in Targets : backfill_target(t)
  PROVE  Ledger!Next
<1>1. CASE UNCHANGED reviews
  BY <1>1, UntouchedDeletesNothing, NoRatingTouched
<1>2. ASSUME NEW t \in Targets, backfill_target(t)
      PROVE  Ledger!Next
  <2>1. OnlyDeletes({})
    BY <1>2, BackfillDeletesNothing
  <2>2. \A r \in ReviewIds : r \in Rows(reviews) <=> r \in Rows(reviews')
    BY <2>1 DEF OnlyDeletes
  <2>3. \A r \in ReviewIds : r \notin Rows(reviews) => reviews'[r] = reviews[r]
    BY <1>2 DEF backfill_target
  <2>4. ErasedIds(reviews') = ErasedIds(reviews)
    BY <2>2, <2>3 DEF ErasedIds, Rows
  <2> QED BY <2>1, <2>4, NoRatingTouched
<1> QED BY <1>1, <1>2

-------------------------------------------------------------------------------
(***************************************************************************)
(* ReviewStore implements RatingLedger: whatever enters or leaves a public *)
(* rating is told, and the fact and the state it describes change in one   *)
(* step (services.py:1-17, 456-460; gdpr.py:53-58; actions.py:60-73).      *)
(***************************************************************************)
THEOREM StoreKeepsLedger == Spec => KeepsLedger
<1>1. Init => Ledger!Init
  <2> SUFFICES ASSUME Init PROVE Ledger!Init
    OBVIOUS
  <2>1. Rows(reviews) = {} /\ VisibleIds(reviews) = {} /\ ErasedIds(reviews) = {}
    BY RowAssumption DEF Init, Rows, VisibleIds, ErasedIds
  <2>2. \A t \in Targets : Shown(reviews, t) = {}
    BY <2>1 DEF Shown
  <2> QED BY <2>1, <2>2 DEF Init, Ledger!Init, NoRating
<1>2. TypeOK /\ FactsInv /\ FactsInv' /\ [Next]_vars => [Ledger!Next]_(Ledger!ledger)
  <2> SUFFICES ASSUME TypeOK, FactsInv, FactsInv', [Next]_vars
               PROVE  Ledger!Next
    OBVIOUS
  <2>1. CASE Reviewing
    <3>1. ASSUME NEW r \in ReviewIds, NEW u \in Users, respond(r, u)
          PROVE  Ledger!Next
      BY <3>1, QuietLedger DEF respond
    <3> QED
      BY <2>1, <3>1, CreateLedger, SetStatusLedger
         DEF Reviewing, moderate_review, handle_moderation_completed
  <2>2. CASE Accounts
    <3>1. ASSUME NEW u \in Users, user_row_lands(u) \/ user_row_deleted(u)
          PROVE  Ledger!Next
      BY <3>1, RowGone, QuietLedger DEF user_row_lands
    <3> QED BY <2>2, <3>1, ErasureLedger, MergeLedger DEF Accounts
  <2>3. CASE Configuration
    BY <2>3, QuietLedger DEF Configuration, register_target_type
  <2>4. CASE UNCHANGED vars
    BY <2>4, QuietLedger DEF vars
  <2> QED BY <2>1, <2>2, <2>3, <2>4 DEF Next
<1>3. FactsInv <=> FactsMatchAggregate /\ FactsTellVisibility
  BY DEF FactsInv
<1> QED
  BY <1>1, <1>2, <1>3, TypeCorrect, FactsFollowTheStore, PTL
     DEF Spec, KeepsLedger, Ledger!Spec
===============================================================================
