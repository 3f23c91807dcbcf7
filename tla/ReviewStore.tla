------------------------------ MODULE ReviewStore ------------------------------
(***************************************************************************)
(* stapel-reviews when its handlers do not overlap: one action for each    *)
(* whole operation on the review and response tables (services.py,         *)
(* actions.py, gdpr.py), with the facts it emits.  A refused operation     *)
(* raises before it writes, so it is a disabled action.                    *)
(*                                                                         *)
(* ReviewRequests lets the statements of the same operations interleave.   *)
(***************************************************************************)
EXTENDS ReviewPolicy, Rating

CONSTANTS
  ReviewIds,        \* uuids; an id is drawn once
  Unwritten,        \* the row of an id not drawn yet
  Erased,           \* the row of an id whose row was deleted
  RATING_MIN,
  RATING_MAX

Statuses == {"pending", "published", "hidden"}

VISIBLE_STATUSES == {"published"}

Review ==
  [target : Targets, owner_key : OwnerKeys, author : Users,
   rating : RATING_MIN..RATING_MAX, status : Statuses,
   unique_per_author : BOOLEAN]

\* A Review table: an id not drawn yet, a deleted row, or a row.
Table == [ReviewIds -> Review \cup {Unwritten, Erased}]

ASSUME RowAssumption ==
  /\ Unwritten \notin Review
  /\ Erased \notin Review
  /\ Unwritten # Erased
  /\ None \notin Users
  /\ RATING_MIN \in Int /\ RATING_MAX \in Int

VARIABLES
  reviews,    \* the Review table
  responses,  \* the Response table: the author of each review's response
  users,      \* the user rows that exist in this database
  runtime,    \* _runtime_target_types
  fact,       \* fact[t]: the aggregate of the last fact keyed by t
  told        \* the reviews whose last fact is reviews.review.published

vars == <<reviews, responses, users, runtime, fact, told>>

-------------------------------------------------------------------------------
(* Reading the tables.                                                       *)

Rows(rows) == {r \in ReviewIds : rows[r] \notin {Unwritten, Erased}}

ErasedIds(rows) == {r \in ReviewIds : rows[r] = Erased}

Authored(rows, u) == {r \in Rows(rows) : rows[r].author = u}

VisibleIds(rows) == {r \in Rows(rows) : rows[r].status \in VISIBLE_STATUSES}

\* The published reviews of t: what aggregate() averages.
Shown(rows, t) ==
  {<<r, rows[r].rating>> : r \in {q \in VisibleIds(rows) : rows[q].target = t}}

\* Variant: only the reviews that show count as reviewed.
has_visible_review(t, author) ==
  \E r \in Authored(reviews, author) \cap VisibleIds(reviews) : reviews[r].target = t

has_review(t, author) == \E r \in Authored(reviews, author) : reviews[r].target = t

policyOf(t) == resolve_policy(runtime, TypeOf[t])

isRegistered(t) == TypeOf[t] \in get_target_types(runtime)

\* The callbacks that may raise about t under the policy it has now.
mayRaise(t) ==
  {callback \in HostRaises[t] : isRegistered(t) /\ policyOf(t)[callback]}

\* The partial unique constraint: one flagged review per (target, author).  It
\* is in no guard below: that it never has to refuse a row is an invariant.
rev_one_per_author(rows) ==
  \A r, q \in Rows(rows) :
    /\ rows[r].unique_per_author /\ rows[q].unique_per_author
    /\ rows[r].target = rows[q].target
    /\ rows[r].author = rows[q].author
    => r = q

-------------------------------------------------------------------------------
(* Writing.                                                                  *)

\* Variant: the aggregate is computed before the write.
emit_before_write(ts) ==
  fact' = [t \in Targets |->
             IF t \in ts THEN aggregate(Shown(reviews, t)) ELSE fact[t]]

\* Variant: one fact for the whole transaction.
emit_once(ts) ==
  fact' = [t \in Targets |->
             IF ts # {} /\ t = CHOOSE first \in ts : TRUE
               THEN aggregate(Shown(reviews', t)) ELSE fact[t]]

\* The facts of one transaction, keyed by the targets ts: each recomputes the
\* aggregate after the write, and the last one of a target stands.
emit_review_facts(ts) ==
  fact' = [t \in Targets |->
             IF t \in ts THEN aggregate(Shown(reviews', t)) ELSE fact[t]]

targetsOf(R) == {reviews[r].target : r \in R}

\* Deleting review rows cascades to their responses.
without(R) == [r \in ReviewIds |-> IF r \in R THEN Erased ELSE reviews[r]]

\* Variant: a raw delete, without the cascade.
responsesKept(R) == responses

responsesWithout(R) == [r \in ReviewIds |-> IF r \in R THEN None ELSE responses[r]]

Init ==
  /\ reviews = [r \in ReviewIds |-> Unwritten]
  /\ responses = [r \in ReviewIds |-> None]
  /\ users = {}
  /\ runtime = [type \in {} |-> None]
  /\ fact = [t \in Targets |-> NoRating]
  /\ told = {}

\* Past every check: the row, and the fact if it shows at once.
insert_review(r, t, author, rating, owner_key) ==
  /\ reviews' = [reviews EXCEPT ![r] =
       [target |-> t, owner_key |-> owner_key, author |-> author,
        rating |-> rating,
        status |-> IF policyOf(t).moderation = "pre"
                     THEN "pending" ELSE "published",
        unique_per_author |-> policyOf(t).one_per_author]]
  /\ IF policyOf(t).moderation = "pre"
       THEN UNCHANGED <<fact, told>>
       ELSE emit_review_facts({t}) /\ told' = told \cup {r}
  /\ UNCHANGED <<responses, users, runtime>>

create_review(r, t, author, rating) ==
  /\ reviews[r] = Unwritten
  /\ author \in users
  /\ isRegistered(t)
  /\ rating \in RATING_MIN..RATING_MAX
  /\ policyOf(t).one_per_author => ~has_review(t, author)
  /\ TRUE \in check_can_review(policyOf(t), author, t)
  /\ \E owner_key \in resolve_owner_key(policyOf(t), t) \ {Raises} :
       /\ policyOf(t).allow_self_review \/ ~is_owner(owner_key, author)
       /\ insert_review(r, t, author, rating, owner_key)

MODERATION_ACTIONS == {"hide", "publish"}

\* Past the gate: a status that is already there is no write and no fact.
set_status(r, action) ==
  LET new_status == IF action = "hide" THEN "hidden" ELSE "published"
  IN  /\ reviews[r].status # new_status
      /\ reviews' = [reviews EXCEPT ![r].status = new_status]
      /\ emit_review_facts({reviews[r].target})
      /\ told' = IF new_status = "hidden" THEN told \ {r} ELSE told \cup {r}
      /\ UNCHANGED <<responses, users, runtime>>

moderate_review(r, actor, action) ==
  /\ r \in Rows(reviews)
  /\ actor \in users
  /\ action \in MODERATION_ACTIONS
  /\ isRegistered(reviews[r].target)
  /\ TRUE \in check_can_moderate(policyOf(reviews[r].target), actor, reviews[r].target)
  /\ set_status(r, action)

\* The verdict words that move a review; needs_review and dismissed do not.
VERDICT_ACTIONS == [approved |-> "publish", rejected |-> "hide"]

\* moderation.completed: SYSTEM_ACTOR passes every gate, the registry's too.
handle_moderation_completed(r, decision) ==
  /\ r \in Rows(reviews)
  /\ decision \in DOMAIN VERDICT_ACTIONS
  /\ set_status(r, VERDICT_ACTIONS[decision])

respond(r, author) ==
  /\ r \in Rows(reviews)
  /\ author \in users
  /\ isRegistered(reviews[r].target)
  /\ policyOf(reviews[r].target).allow_response
  /\ TRUE \in check_can_respond(policyOf(reviews[r].target), author,
                               reviews[r].target, reviews[r].owner_key)
  /\ responses[r] = None
  /\ responses' = [responses EXCEPT ![r] = author]
  /\ UNCHANGED <<reviews, users, runtime, fact, told>>

-------------------------------------------------------------------------------
(* Accounts.                                                                 *)

\* Variant: the erasure tells nobody.
gdpr_delete_untold(u) ==
  /\ reviews' = without(Authored(reviews, u))
  /\ responses' = [r \in ReviewIds |->
                     IF responses[r] = u THEN None
                     ELSE responsesWithout(Authored(reviews, u))[r]]
  /\ UNCHANGED <<users, runtime, fact, told>>

\* ReviewsGDPRProvider.delete, which user.deleted runs too.
gdpr_delete(u) ==
  LET gone == Authored(reviews, u)
  IN  /\ reviews' = without(gone)
      /\ responses' = [r \in ReviewIds |->
                         IF responses[r] = u THEN None
                         ELSE responsesWithout(gone)[r]]
      /\ emit_review_facts(targetsOf(gone \cap VisibleIds(reviews)))
      /\ told' = told \ (gone \cap VisibleIds(reviews))
      /\ UNCHANGED <<users, runtime>>

\* Variant: of any target, once the survivor reviewed something.
ContestedAnywhere(guest, survivor) ==
  IF Authored(reviews, survivor) # {} THEN Authored(reviews, guest) ELSE {}

\* The guest's reviews of targets the survivor reviewed too.
Contested(guest, survivor) ==
  {r \in Authored(reviews, guest) : has_review(reviews[r].target, survivor)}

upholds_one_per_author(t) == isRegistered(t) /\ policyOf(t).one_per_author

\* Variant: a hidden review is no duplicate.
VisibleDuplicates(guest, survivor) ==
  {r \in Contested(guest, survivor) \cap VisibleIds(reviews) :
     upholds_one_per_author(reviews[r].target)}

\* Of those, the ones the policy has dropped; the others lose their flag.
Duplicates(guest, survivor) ==
  {r \in Contested(guest, survivor) : upholds_one_per_author(reviews[r].target)}

\* The Review table after _drop_duplicate_reviews and the reassignment.
Reassigned(guest, survivor) ==
  [r \in ReviewIds |->
     IF r \in Duplicates(guest, survivor)
       THEN Erased
       ELSE IF r \in Authored(reviews, guest)
         THEN [reviews[r] EXCEPT
                 !.author = survivor,
                 !.unique_per_author = @ /\ r \notin Contested(guest, survivor)]
         ELSE reviews[r]]

owns_something(u) ==
  Authored(reviews, u) # {} \/ \E r \in ReviewIds : responses[r] = u

\* A survivor without a user row is MergeTargetNotReady: redelivered.
handle_user_merged(guest, survivor) ==
  LET dropped == Duplicates(guest, survivor)
  IN  /\ guest # survivor
      /\ owns_something(guest)
      /\ survivor \in users
      /\ reviews' = Reassigned(guest, survivor)
      /\ responses' = [r \in ReviewIds |->
                         IF responsesWithout(dropped)[r] = guest
                           THEN survivor ELSE responsesWithout(dropped)[r]]
      /\ emit_review_facts(targetsOf(dropped \cap VisibleIds(reviews)))
      /\ told' = told \ (dropped \cap VisibleIds(reviews))
      /\ UNCHANGED <<users, runtime>>

\* stapel-auth's row of an account: projected here at some time ...
user_row_lands(u) ==
  /\ u \notin users
  /\ users' = users \cup {u}
  /\ UNCHANGED <<reviews, responses, runtime, fact, told>>

\* on_delete=CASCADE: what an account wrote goes with its user row, and no fact
\* tells of it.
cascade(u) ==
  LET gone == Authored(reviews, u)
  IN  /\ users' = users \ {u}
      /\ reviews' = without(gone)
      /\ responses' = [r \in ReviewIds |->
                         IF responses[r] = u THEN None ELSE responsesWithout(gone)[r]]
      /\ UNCHANGED <<runtime, fact, told>>

\* ... and deleted, as the store expects it, once user.deleted or user.merged
\* was handled, so that the cascade finds nothing.
user_row_deleted(u) ==
  /\ u \in users
  /\ ~owns_something(u)
  /\ cascade(u)

-------------------------------------------------------------------------------
(* The host's configuration and the backfill.                                *)

register_target_type(type, policy) ==
  /\ runtime' = registered(runtime, type, policy)
  /\ UNCHANGED <<reviews, responses, users, fact, told>>

\* Variant: every row of the target gets what the resolver says now.
backfill_anew(t) ==
  /\ isRegistered(t)
  /\ \E owner_key \in resolve_owner_key(policyOf(t), t) \ {Raises} :
       reviews' = [r \in ReviewIds |->
         IF r \in Rows(reviews) /\ reviews[r].target = t
           THEN [reviews[r] EXCEPT !.owner_key = owner_key]
           ELSE reviews[r]]
  /\ UNCHANGED <<responses, users, runtime, fact, told>>

\* One target of backfill_owner_keys: stamp the rows still without an owner.  A
\* resolver that raises is stepped over.
backfill_target(t) ==
  /\ isRegistered(t)
  /\ \E owner_key \in resolve_owner_key(policyOf(t), t) \ {NoOwner, Raises} :
       /\ \E r \in Rows(reviews) :
            reviews[r].target = t /\ reviews[r].owner_key = NoOwner
       /\ reviews' = [r \in ReviewIds |->
            IF /\ r \in Rows(reviews)
               /\ reviews[r].target = t
               /\ reviews[r].owner_key = NoOwner
              THEN [reviews[r] EXCEPT !.owner_key = owner_key]
              ELSE reviews[r]]
  /\ UNCHANGED <<responses, users, runtime, fact, told>>

-------------------------------------------------------------------------------
Reviewing ==
  \E r \in ReviewIds :
    \/ \E t \in Targets, u \in Users, x \in RATING_MIN..RATING_MAX :
         create_review(r, t, u, x)
    \/ \E u \in Users, action \in MODERATION_ACTIONS : moderate_review(r, u, action)
    \/ \E decision \in DOMAIN VERDICT_ACTIONS :
         handle_moderation_completed(r, decision)
    \/ \E u \in Users : respond(r, u)

Accounts ==
  \E u \in Users :
    \/ gdpr_delete(u)
    \/ \E survivor \in Users : handle_user_merged(u, survivor)
    \/ user_row_lands(u)
    \/ user_row_deleted(u)

Configuration ==
  \/ \E type \in Types, policy \in Registrations :
       register_target_type(type, policy)
  \/ \E t \in Targets : backfill_target(t)

Next == Reviewing \/ Accounts \/ Configuration

Spec == Init /\ [][Next]_vars

-------------------------------------------------------------------------------
(* What the tables and the facts satisfy.                                    *)

\* The tables hold rows of the declared columns, and a response, like a
\* review, belongs to a user row (models.py:39-153).
TypeOK ==
  /\ reviews \in Table
  /\ responses \in [ReviewIds -> Users \cup {None}]
  /\ users \subseteq Users
  /\ DOMAIN runtime \subseteq Types
  /\ \A type \in DOMAIN runtime : runtime[type] \in Registrations
  /\ told \subseteq ReviewIds

\* A host that only keeps the aggregate of the last fact of a target has the
\* live aggregate, whichever operation wrote last: a create, a moderation, a
\* verdict, an erasure or a merge (services.py:456-475, gdpr.py:53-64,
\* actions.py:188-200).
FactsMatchAggregate ==
  fact = [t \in Targets |-> aggregate(Shown(reviews, t))]

\* A consumer keyed by review is never left believing in a review that was
\* hidden, erased or dropped, nor unaware of one that shows (gdpr.py:57-58).
FactsTellVisibility == told = VisibleIds(reviews)

\* The constraint rev_one_per_author never has to refuse what an operation
\* writes: the existence check of create_review and the flag handling of a
\* merge keep every table within it, whatever policy changes come between
\* (services.py:509, actions.py:180-187).
OneFlaggedReview == rev_one_per_author(reviews)

\* Every author of a review has a user row, and a response sits on an existing
\* review and was written by one: a merge reassigns to no account that is not
\* here yet, and whatever deletes a review takes its response with it
\* (actions.py:123-136, gdpr.py:50-53).
RowsAttached ==
  /\ \A r \in Rows(reviews) : reviews[r].author \in users
  /\ \A r \in ReviewIds :
       responses[r] # None => r \in Rows(reviews) /\ responses[r] \in users

\* Where the policy is on, nobody has two reviews of one target.  It holds as
\* long as no registration changes a policy: merges keep what create_review
\* refused to break (actions.py:60-73).
OneVoice ==
  \A r, q \in Rows(reviews) :
    /\ reviews[r].target = reviews[q].target
    /\ reviews[r].author = reviews[q].author
    /\ upholds_one_per_author(reviews[r].target)
    => r = q

\* What a review is about is settled when it is written: no operation moves it
\* to another target, changes its rating, or revises an owner key once stamped
\* (services.py:362-367; models.py:57-70).
SettledColumns ==
  [][\A r \in Rows(reviews) :
       reviews'[r] # Erased =>
         /\ reviews'[r].target = reviews[r].target
         /\ reviews'[r].rating = reviews[r].rating
         /\ reviews[r].owner_key # NoOwner
              => reviews'[r].owner_key = reviews[r].owner_key]_vars

\* The store keeps the host's rating ledger.
Ledger == INSTANCE RatingLedger WITH
            Aggregate <- aggregate,
            shown  <- [t \in Targets |-> Shown(reviews, t)],
            erased <- ErasedIds(reviews)

\* Every operation is a step of the ledger, or no step of it
\* (services.py:1-17, 456-460).
KeepsLedger == Ledger!Spec
===============================================================================
