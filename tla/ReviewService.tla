----------------------------- MODULE ReviewService -----------------------------
(***************************************************************************)
(* The review store as the outside meets it: the POST views of views.py,   *)
(* with the checks of services.py in their order and the answer to each    *)
(* exception, beside the consumer of the events of actions.py.             *)
(*                                                                         *)
(* The comm layer is external: events of other services come in order and  *)
(* at least once.  The consumer handles them one by one, forgets what it   *)
(* has acknowledged, and after a crash starts again behind that.           *)
(***************************************************************************)
EXTENDS ReviewReads, Sequences

CONSTANTS
  Guests,                  \* accounts with is_anonymous
  Ratings,                 \* what callers send as a rating
  Verbs,                   \* ... as a moderation action
  Events,                  \* what other services may say
  MODERATION_TARGET_TYPE,
  MaxInbox                 \* bound: events not acknowledged

ASSUME ServiceAssumption ==
  /\ Guests \subseteq Users
  /\ MaxInbox \in Nat
  /\ \A e \in Events :
       /\ e.kind = "user.deleted" => e.user_id \in Users \cup {None}
       /\ e.kind = "user.merged" =>
            {e.from_user_id, e.into_user_id} \subseteq Users \cup {None}

VARIABLES
  ALLOW_ANONYMOUS_WRITES,  \* a setting: chosen by SInit for good
  inbox,     \* the events not acknowledged yet
  handled,   \* how many of them were handled since the consumer last started
  seen,      \* history: how many of them were ever handled
  ruled,     \* history: the status the platform last asked for, unless a
             \* moderator of the host acted since
  closed     \* history: accounts whose end has been announced

commVars == <<inbox, handled, seen, ruled, closed>>
svars == <<vars, ALLOW_ANONYMOUS_WRITES, commVars>>

SInit ==
  /\ Init
  /\ ALLOW_ANONYMOUS_WRITES \in BOOLEAN
  /\ inbox = <<>> /\ handled = 0 /\ seen = 0
  /\ ruled = [r \in ReviewIds |-> None]
  /\ closed = {}

-------------------------------------------------------------------------------
(* What the services may raise, first things first, and what the views answer. *)

\* The owner keys a create may be told; an unknown type is told none.
owners(t) ==
  IF isRegistered(t) THEN resolve_owner_key(policyOf(t), t) ELSE {NoOwner}

\* What a create may end with, given what the resolver answers if it is asked.
create_raises(t, author, rating, owner_key) ==
  IF ~isRegistered(t) THEN {"UnknownTargetType"}
  ELSE IF rating \notin RATING_MIN..RATING_MAX THEN {"InvalidRating"}
  ELSE IF policyOf(t).one_per_author /\ has_review(t, author) THEN {"DuplicateReview"}
  ELSE {IF allowed = Raises THEN "HostError"
        ELSE IF ~allowed THEN "NotAllowedToReview"
        ELSE IF owner_key = Raises THEN "HostError"
        ELSE IF ~policyOf(t).allow_self_review /\ is_owner(owner_key, author)
          THEN "SelfReview"
        ELSE "nothing" : allowed \in check_can_review(policyOf(t), author, t)}

moderate_raises(r, actor, action) ==
  LET t == reviews[r].target
  IN  IF action \notin MODERATION_ACTIONS THEN {"InvalidModerationAction"}
      ELSE IF ~isRegistered(t) THEN {"UnknownTargetType"}
      ELSE {IF allowed = Raises THEN "HostError"
            ELSE IF ~allowed THEN "NotAllowedToModerate"
            ELSE "nothing" : allowed \in check_can_moderate(policyOf(t), actor, t)}

respond_raises(r, author) ==
  LET t == reviews[r].target
  IN  IF ~isRegistered(t) THEN {"UnknownTargetType"}
      ELSE IF ~policyOf(t).allow_response THEN {"ResponseNotAllowed"}
      ELSE {IF allowed = Raises THEN "HostError"
            ELSE IF ~allowed THEN "NotAllowedToRespond"
            ELSE IF responses[r] # None THEN "AlreadyResponded"
            ELSE "nothing" :
              allowed \in check_can_respond(policyOf(t), author, t, reviews[r].owner_key)}

CREATE_ERRORS ==
  [UnknownTargetType |-> 400, InvalidRating |-> 400, DuplicateReview |-> 400,
   NotAllowedToReview |-> 403, SelfReview |-> 403]

MODERATE_ERRORS == [InvalidModerationAction |-> 400, NotAllowedToModerate |-> 403]

\* Variant: the second response is not expected.
RESPOND_ERRORS_once == [ResponseNotAllowed |-> 400, NotAllowedToRespond |-> 403]

RESPOND_ERRORS ==
  [ResponseNotAllowed |-> 400, NotAllowedToRespond |-> 403, AlreadyResponded |-> 409]

\* What no except clause names is a server error, an exception of the host too.
status_of(errors, raised, success) ==
  IF raised = "nothing" THEN success ELSE get(errors, raised, 500)

\* ReviewListCreateView.post: permission_classes, the guest wall, the service.
post_review(caller, t, rating, owner_key) ==
  IF caller = Anonymous THEN {401}
  ELSE IF caller \in Guests /\ ~ALLOW_ANONYMOUS_WRITES THEN {403}
  ELSE {status_of(CREATE_ERRORS, raised, 201) :
          raised \in create_raises(t, caller, rating, owner_key)}

\* ReviewModerateView.post
post_moderate(caller, r, action) ==
  IF caller = Anonymous THEN {401}
  ELSE IF r \notin Rows(reviews) THEN {404}
  ELSE {status_of(MODERATE_ERRORS, raised, 200) :
          raised \in moderate_raises(r, caller, action)}

\* ReviewRespondView.post: no wall, a guest may be who answers.
post_respond(caller, r) ==
  IF caller = Anonymous THEN {401}
  ELSE IF r \notin Rows(reviews) THEN {404}
  ELSE {status_of(RESPOND_ERRORS, raised, 201) : raised \in respond_raises(r, caller)}

-------------------------------------------------------------------------------
(* The granted requests; the others write nothing.                           *)

\* An account that was closed is not logged in any more.
callers == users \ closed

creates(r, caller, t, rating) ==
  /\ caller \in callers
  /\ reviews[r] = Unwritten
  /\ \E owner_key \in owners(t) :
       /\ 201 \in post_review(caller, t, rating, owner_key)
       /\ insert_review(r, t, caller, rating, owner_key)
  /\ UNCHANGED <<ALLOW_ANONYMOUS_WRITES, commVars>>

\* set_status, or nothing when the review is there already.
decided(r, action) ==
  \/ set_status(r, action)
  \/ /\ reviews[r].status = IF action = "hide" THEN "hidden" ELSE "published"
     /\ UNCHANGED vars

moderates(r, caller, action) ==
  /\ caller \in callers
  /\ 200 \in post_moderate(caller, r, action)
  /\ decided(r, action)
  /\ ruled' = [ruled EXCEPT ![r] = None]
  /\ UNCHANGED <<ALLOW_ANONYMOUS_WRITES, inbox, handled, seen, closed>>

responds(r, caller) ==
  /\ caller \in callers
  /\ 201 \in post_respond(caller, r)
  /\ responses' = [responses EXCEPT ![r] = caller]
  /\ UNCHANGED <<reviews, users, runtime, fact, told>>
  /\ UNCHANGED <<ALLOW_ANONYMOUS_WRITES, commVars>>

-------------------------------------------------------------------------------
(* actions.py: the handlers, events that name nothing included.  A handler   *)
(* that raises is a disabled step: the event stays where it is.              *)

user_deleted(e) ==
  IF e.user_id = None THEN UNCHANGED vars ELSE gdpr_delete(e.user_id)

\* Variant: the survivor is looked for first.
user_merged_survivor_first(e) ==
  IF None \in {e.from_user_id, e.into_user_id} \/ e.from_user_id = e.into_user_id
    THEN UNCHANGED vars
    ELSE /\ e.into_user_id \in users
         /\ IF owns_something(e.from_user_id)
              THEN handle_user_merged(e.from_user_id, e.into_user_id)
              ELSE UNCHANGED vars

\* Variant: a merge that comes too early is taken for done.
user_merged_given_up(e) ==
  IF \/ None \in {e.from_user_id, e.into_user_id}
     \/ e.from_user_id = e.into_user_id
     \/ ~owns_something(e.from_user_id)
     \/ e.into_user_id \notin users
    THEN UNCHANGED vars
    ELSE handle_user_merged(e.from_user_id, e.into_user_id)

\* MergeTargetNotReady only for a guest with something to carry over.
user_merged(e) ==
  IF \/ None \in {e.from_user_id, e.into_user_id}
     \/ e.from_user_id = e.into_user_id
     \/ ~owns_something(e.from_user_id)
    THEN UNCHANGED vars
    ELSE handle_user_merged(e.from_user_id, e.into_user_id)

\* The verdict is about a review that is here, in a word that moves reviews.
rules(e) ==
  /\ e.target_type = MODERATION_TARGET_TYPE
  /\ e.target_key \in Rows(reviews)
  /\ e.decision \in DOMAIN VERDICT_ACTIONS

\* Variant: a review that has been decided on is left alone.
moderation_completed_once(e) ==
  IF rules(e) /\ reviews[e.target_key].status = "pending"
    THEN decided(e.target_key, VERDICT_ACTIONS[e.decision])
    ELSE UNCHANGED vars

moderation_completed(e) ==
  IF rules(e)
    THEN decided(e.target_key, VERDICT_ACTIONS[e.decision])
    ELSE UNCHANGED vars

on_action(e) ==
  \/ e.kind = "user.deleted" /\ user_deleted(e)
  \/ e.kind = "user.merged" /\ user_merged(e)
  \/ e.kind = "moderation.completed" /\ moderation_completed(e)

-------------------------------------------------------------------------------
(* The comm layer and the other services.                                    *)

\* e says that the account u has come to its end.
ends(e, u) ==
  \/ e.kind = "user.deleted" /\ e.user_id = u
  \/ /\ e.kind = "user.merged" /\ e.from_user_id = u
     /\ e.into_user_id \notin {None, u}

\* stapel-auth ends an account that is known here; stapel-moderation decides on
\* a review that was written.
announces(e) ==
  /\ Len(inbox) < MaxInbox
  /\ inbox' = Append(inbox, e)
  /\ \/ /\ e.kind = "user.deleted"
        /\ e.user_id \in callers \cup {None}
        /\ UNCHANGED ruled
     \/ /\ e.kind = "user.merged"
        /\ {e.from_user_id, e.into_user_id} \cap closed = {}
        /\ UNCHANGED ruled
     \/ /\ e.kind = "moderation.completed"
        /\ reviews[e.target_key] # Unwritten
        /\ ruled' = IF rules(e)
                      THEN [ruled EXCEPT ![e.target_key] =
                              IF VERDICT_ACTIONS[e.decision] = "hide"
                                THEN "hidden" ELSE "published"]
                      ELSE ruled
  /\ closed' = closed \cup {u \in Users : ends(e, u)}
  /\ UNCHANGED <<vars, ALLOW_ANONYMOUS_WRITES, handled, seen>>

deliver ==
  /\ handled < Len(inbox)
  /\ on_action(inbox[handled + 1])
  /\ handled' = handled + 1
  /\ seen' = IF handled < seen THEN seen ELSE handled + 1
  /\ UNCHANGED <<ALLOW_ANONYMOUS_WRITES, inbox, ruled, closed>>

acknowledge ==
  /\ handled > 0
  /\ inbox' = SubSeq(inbox, handled + 1, Len(inbox))
  /\ handled' = 0
  /\ seen' = seen - handled
  /\ UNCHANGED <<vars, ALLOW_ANONYMOUS_WRITES, ruled, closed>>

\* What was handled and not acknowledged is delivered again.
crash ==
  /\ handled > 0
  /\ handled' = 0
  /\ UNCHANGED <<vars, ALLOW_ANONYMOUS_WRITES, inbox, seen, ruled, closed>>

account_lands(u) ==
  /\ u \notin closed
  /\ user_row_lands(u)
  /\ UNCHANGED <<ALLOW_ANONYMOUS_WRITES, commVars>>

\* The row of a closed account goes once its end has been heard here, and the
\* database cascades.
account_removed(u) ==
  /\ u \in closed \cap users
  /\ \A i \in 1..Len(inbox) : i > seen => ~ends(inbox[i], u)
  /\ cascade(u)
  /\ UNCHANGED <<ALLOW_ANONYMOUS_WRITES, commVars>>

configures == Configuration /\ UNCHANGED <<ALLOW_ANONYMOUS_WRITES, commVars>>

SNext ==
  \/ \E r \in ReviewIds, u \in Users :
       \/ \E t \in Targets, x \in Ratings : creates(r, u, t, x)
       \/ \E action \in Verbs : moderates(r, u, action)
       \/ responds(r, u)
  \/ \E e \in Events : announces(e)
  \/ deliver \/ acknowledge \/ crash
  \/ \E u \in Users : account_lands(u) \/ account_removed(u)
  \/ configures

SSpec == SInit /\ [][SNext]_svars

\* The consumer goes on, and a user row that is late does land
\* (actions.py:20-29).
SFairSpec ==
  SSpec /\ WF_svars(deliver) /\ \A u \in Users : WF_svars(account_lands(u))

-------------------------------------------------------------------------------
\* Whatever callers send and whatever is delivered, however often, the tables,
\* the user rows and the facts only change by whole operations of the store.  The
\* checks of the services, in the order they come, let nothing through that the
\* store refuses; and when a user row goes, the handlers have left its cascade
\* nothing to take untold (services.py:501-525, 580-597, 683-696;
\* actions.py:47-57, 99-128; models.py:70).
KeepsStore == Spec

\* A request that fails as a server error had an account, and either the host
\* raised, in a callback this kind of request asks, or the type of the review
\* moderated or answered was removed (registry.py:124-143, 164-168;
\* views.py:437, 470); every other exception has an answer of its own
\* (views.py:387-417, errors.py:8-55).
ServerErrorsAreTheHosts ==
  \A caller \in Users \cup {Anonymous} :
    /\ \A t \in Targets, x \in Ratings : \A owner_key \in owners(t) :
         500 \in post_review(caller, t, x, owner_key) =>
           caller # Anonymous /\ mayRaise(t) \cap {"can_review", "owner_key_for"} # {}
    /\ \A r \in Rows(reviews) :
         LET t == reviews[r].target
         IN  /\ 500 \in UNION {post_moderate(caller, r, action) : action \in Verbs} =>
                  caller # Anonymous /\ (isRegistered(t) => "can_moderate" \in mayRaise(t))
             /\ 500 \in post_respond(caller, r) =>
                  caller # Anonymous /\ (isRegistered(t) => "can_respond" \in mayRaise(t))

\* Verdicts are told apart by nothing but the review's status, and yet the last
\* one stands: when the consumer has caught up, replays included, a review has
\* the status the platform asked for last, unless the host moderated it since
\* (actions.py:223-225, services.py:616-622).
VerdictStands ==
  handled = Len(inbox) =>
    \A r \in Rows(reviews) : ruled[r] # None => reviews[r].status = ruled[r]

\* When the consumer has caught up, nothing here belongs to an account whose
\* end was announced: a merge that came too early was not taken for done, and a
\* replay brings nothing back (actions.py:74-84, 110-128).
ClosedAccountsEmpty ==
  handled = Len(inbox) => \A u \in closed : ~owns_something(u)

\* No event blocks those behind it for ever, not even a merge delivered again
\* after the survivor's row is gone (actions.py:241-244, 110-128).
EveryEventHandled == inbox # <<>> /\ handled = 0 ~> handled > 0

\* actions.py:223-225: a redelivered verdict finds the review already hidden or
\* published and returns without a write and without a fact.
RedeliveredVerdictIsQuiet ==
  [][(/\ handled < seen /\ handled' = handled + 1
      /\ inbox[handled + 1].kind = "moderation.completed")
     => UNCHANGED vars]_svars
===============================================================================
