---------------------------- MODULE ServiceProofs ----------------------------
(***************************************************************************)
(* The service implements the review store: for every host, every set of   *)
(* accounts and events, and whatever is delivered how often, a granted     *)
(* request and a handled event are whole operations of the store.  So      *)
(* everything proved of the store holds of the service.  And what a replay *)
(* may undo is done again: the last verdict stands, and closed accounts    *)
(* end empty.                                                              *)
(***************************************************************************)
EXTENDS ReviewService, ReviewStoreProofs

(***************************************************************************)
(* A status of success means that the service raised nothing: what the     *)
(* views answer to an exception is never one (views.py:387-482).           *)
(***************************************************************************)
LEMMA Granted ==
  ASSUME NEW raised
  PROVE  /\ status_of(CREATE_ERRORS, raised, 201) = 201 => raised = "nothing"
         /\ status_of(MODERATE_ERRORS, raised, 200) = 200 => raised = "nothing"
         /\ status_of(RESPOND_ERRORS, raised, 201) = 201 => raised = "nothing"
BY DEF status_of, get, CREATE_ERRORS, MODERATE_ERRORS, RESPOND_ERRORS

(***************************************************************************)
(* What a gate of the host may answer, it answers or raises.               *)
(***************************************************************************)
LEMMA GateAnswers ==
  ASSUME NEW policy, NEW u, NEW t, NEW k
  PROVE  /\ check_can_review(policy, u, t) \subseteq BOOLEAN \cup {Raises}
         /\ check_can_moderate(policy, u, t) \subseteq BOOLEAN \cup {Raises}
         /\ check_can_respond(policy, u, t, k) \subseteq BOOLEAN \cup {Raises}
BY DEF check_can_review, check_can_moderate, check_can_respond, called, is_owner

(***************************************************************************)
(* A granted request passes every check of the store's operation.          *)
(***************************************************************************)
LEMMA CreateGranted ==
  ASSUME NEW r \in ReviewIds, NEW u \in Users, NEW t \in Targets, NEW x,
         creates(r, u, t, x)
  PROVE  x \in RATING_MIN..RATING_MAX /\ create_review(r, t, u, x)
<1>1. PICK owner_key \in owners(t) :
        /\ 201 \in post_review(u, t, x, owner_key)
        /\ insert_review(r, t, u, x, owner_key)
  BY DEF creates
<1>2. "nothing" \in create_raises(t, u, x, owner_key)
  BY <1>1, Granted DEF post_review
<1>3. /\ isRegistered(t)
      /\ x \in RATING_MIN..RATING_MAX
      /\ policyOf(t).one_per_author => ~has_review(t, u)
  BY <1>2 DEF create_raises
<1>4. PICK allowed \in check_can_review(policyOf(t), u, t) :
        "nothing" = IF allowed = Raises THEN "HostError"
                    ELSE IF ~allowed THEN "NotAllowedToReview"
                    ELSE IF owner_key = Raises THEN "HostError"
                    ELSE IF ~policyOf(t).allow_self_review /\ is_owner(owner_key, u)
                      THEN "SelfReview"
                    ELSE "nothing"
  BY <1>2, <1>3 DEF create_raises
<1>5. /\ allowed # Raises /\ allowed
      /\ owner_key # Raises
      /\ policyOf(t).allow_self_review \/ ~is_owner(owner_key, u)
  BY <1>4
<1>6. TRUE \in check_can_review(policyOf(t), u, t)
  BY <1>4, <1>5, GateAnswers
<1>7. owner_key \in resolve_owner_key(policyOf(t), t) \ {Raises}
  BY <1>3, <1>5 DEF owners
<1>8. reviews[r] = Unwritten /\ u \in users
  BY DEF creates, callers
<1> QED BY <1>1, <1>3, <1>5, <1>6, <1>7, <1>8 DEF create_review

LEMMA ModerationGranted ==
  ASSUME NEW r \in ReviewIds, NEW u \in Users, NEW action,
         moderates(r, u, action)
  PROVE  UNCHANGED vars \/ (action \in MODERATION_ACTIONS /\ moderate_review(r, u, action))
<1> DEFINE t == reviews[r].target
<1>1. 200 \in post_moderate(u, r, action) /\ decided(r, action) /\ u \in users
  BY DEF moderates, callers
<1>2. r \in Rows(reviews) /\ "nothing" \in moderate_raises(r, u, action)
  BY <1>1, Granted DEF post_moderate
<1>3. action \in MODERATION_ACTIONS /\ isRegistered(t)
  BY <1>2 DEF moderate_raises
<1>4. PICK allowed \in check_can_moderate(policyOf(t), u, t) :
        allowed # Raises /\ allowed
  BY <1>2, <1>3 DEF moderate_raises
<1>5. TRUE \in check_can_moderate(policyOf(t), u, t)
  BY <1>4, GateAnswers
<1> QED BY <1>1, <1>2, <1>3, <1>5 DEF decided, moderate_review

LEMMA ResponseGranted ==
  ASSUME NEW r \in ReviewIds, NEW u \in Users, responds(r, u)
  PROVE  respond(r, u)
<1> DEFINE t == reviews[r].target
<1>1. 201 \in post_respond(u, r) /\ u \in users
  BY DEF responds, callers
<1>2. r \in Rows(reviews) /\ "nothing" \in respond_raises(r, u)
  BY <1>1, Granted DEF post_respond
<1>3. isRegistered(t) /\ policyOf(t).allow_response
  BY <1>2 DEF respond_raises
<1>4. PICK allowed \in check_can_respond(policyOf(t), u, t, reviews[r].owner_key) :
        allowed # Raises /\ allowed /\ responses[r] = None
  BY <1>2, <1>3 DEF respond_raises
<1>5. TRUE \in check_can_respond(policyOf(t), u, t, reviews[r].owner_key)
  BY <1>4, GateAnswers
<1> QED BY <1>1, <1>2, <1>3, <1>4, <1>5 DEF responds, respond

(***************************************************************************)
(* Handling an event is an operation of the store or changes nothing.      *)
(***************************************************************************)
LEMMA EventHandled ==
  ASSUME NEW e \in Events, on_action(e)
  PROVE  [Next]_vars
<1>1. CASE e.kind = "user.deleted" /\ user_deleted(e)
  BY <1>1, ServiceAssumption DEF user_deleted, Next, Accounts
<1>2. CASE e.kind = "user.merged" /\ user_merged(e)
  BY <1>2, ServiceAssumption DEF user_merged, Next, Accounts
<1>3. CASE e.kind = "moderation.completed" /\ moderation_completed(e)
  <2>1. CASE rules(e)
    <3>1. /\ e.target_key \in Rows(reviews)
          /\ e.decision \in DOMAIN VERDICT_ACTIONS
          /\ decided(e.target_key, VERDICT_ACTIONS[e.decision])
      BY <1>3, <2>1 DEF rules, moderation_completed
    <3>2. UNCHANGED vars \/ handle_moderation_completed(e.target_key, e.decision)
      BY <3>1 DEF decided, handle_moderation_completed
    <3> QED BY <3>1, <3>2 DEF Next, Reviewing, Rows
  <2>2. CASE ~rules(e)
    BY <1>3, <2>2 DEF moderation_completed
  <2> QED BY <2>1, <2>2
<1> QED BY <1>1, <1>2, <1>3 DEF on_action

-------------------------------------------------------------------------------
(***************************************************************************)
(* The consumer's place in its inbox, for any events and any bound.        *)
(***************************************************************************)
STypeOK ==
  /\ ALLOW_ANONYMOUS_WRITES \in BOOLEAN
  /\ inbox \in Seq(Events)
  /\ handled \in 0..Len(inbox) /\ seen \in handled..Len(inbox)
  /\ ruled \in [ReviewIds -> Statuses \cup {None}]
  /\ closed \subseteq Users

LEMMA ServiceTypes ==
  ASSUME STypeOK, [SNext]_svars
  PROVE  STypeOK'
<1> USE DEF STypeOK
<1>1. ASSUME NEW r \in ReviewIds, NEW u \in Users, NEW t \in Targets, NEW x,
             creates(r, u, t, x)
      PROVE  STypeOK'
  BY <1>1 DEF creates, commVars
<1>2. ASSUME NEW r \in ReviewIds, NEW u \in Users, NEW action, moderates(r, u, action)
      PROVE  STypeOK'
  BY <1>2 DEF moderates
<1>3. ASSUME NEW r \in ReviewIds, NEW u \in Users, responds(r, u)
      PROVE  STypeOK'
  BY <1>3 DEF responds, commVars
<1>4. ASSUME NEW e \in Events, announces(e)
      PROVE  STypeOK'
  <2>1. inbox' \in Seq(Events) /\ Len(inbox') = Len(inbox) + 1
    BY <1>4 DEF announces
  <2>2. closed' \subseteq Users
    BY <1>4 DEF announces
  <2>3. ruled' \in [ReviewIds -> Statuses \cup {None}]
    BY <1>4 DEF announces, Statuses
  <2> QED BY <1>4, <2>1, <2>2, <2>3 DEF announces
<1>5. CASE deliver
  BY <1>5 DEF deliver
<1>6. CASE acknowledge
  <2>1. /\ inbox' \in Seq(Events) /\ Len(inbox') = Len(inbox) - handled
    BY <1>6 DEF acknowledge
  <2> QED BY <1>6, <2>1 DEF acknowledge
<1>7. CASE crash
  BY <1>7 DEF crash
<1>8. ASSUME NEW u \in Users, account_lands(u) \/ account_removed(u)
      PROVE  STypeOK'
  BY <1>8 DEF account_lands, account_removed, commVars
<1>9. CASE configures \/ UNCHANGED svars
  BY <1>9 DEF configures, svars, commVars
<1> QED BY <1>1, <1>2, <1>3, <1>4, <1>5, <1>6, <1>7, <1>8, <1>9 DEF SNext

-------------------------------------------------------------------------------
(***************************************************************************)
(* Closed accounts end empty.  Only its own requests and a merge into it   *)
(* give an account anything.                                               *)
(***************************************************************************)
LEMMA OthersGainNothing ==
  ASSUME TypeOK, NEW u \in Users,
         \/ \E q \in Rows(reviews) : \E action : decided(q, action)
         \/ Configuration
         \/ UNCHANGED vars
  PROVE  GainsNothing(u)
<1>1. CASE UNCHANGED vars
  BY <1>1 DEF GainsNothing, owns_something, Authored, vars
<1>2. ASSUME NEW q \in Rows(reviews), NEW action, set_status(q, action)
      PROVE  GainsNothing(u)
  <2>1. responses' = responses
    BY <1>2 DEF set_status
  <2> QED BY <1>2, <2>1, SetStatusEffect DEF GainsNothing, owns_something, Authored
<1>3. CASE Configuration
  <2>1. responses' = responses
    BY <1>3 DEF Configuration, register_target_type, backfill_target
  <2>2. KeepsKeys
    BY <1>3, KeepingSteps
  <2> QED BY <2>1, <2>2 DEF KeepsKeys, GainsNothing, owns_something, Authored
<1> QED BY <1>1, <1>2, <1>3 DEF decided

(***************************************************************************)
(* An event merges another account into u.                                 *)
(***************************************************************************)
MergesInto(e, u) ==
  /\ e.kind = "user.merged" /\ e.into_user_id = u
  /\ e.from_user_id \notin {None, u}

LEMMA EventEmpties ==
  ASSUME TypeOK, NEW e \in Events, on_action(e), NEW u \in Users, ~MergesInto(e, u)
  PROVE  GainsNothing(u) /\ (ends(e, u) => ~owns_something(u)')
<1>1. u # None /\ (UNCHANGED vars => GainsNothing(u))
  BY OthersGainNothing, RowAssumption
<1>2. CASE e.kind = "user.deleted" /\ user_deleted(e)
  <2>1. e.user_id = None => UNCHANGED vars /\ ~ends(e, u)
    BY <1>1, <1>2 DEF user_deleted, ends
  <2>2. e.user_id # None => e.user_id \in Users /\ gdpr_delete(e.user_id)
    BY <1>2, ServiceAssumption DEF user_deleted
  <2>3. ends(e, u) <=> e.user_id = u
    BY <1>2 DEF ends
  <2> QED BY <1>1, <2>1, <2>2, <2>3, ErasureEmpties
<1>3. CASE e.kind = "user.merged" /\ user_merged(e)
  <2> DEFINE v == e.from_user_id
             w == e.into_user_id
  <2>1. {v, w} \subseteq Users \cup {None}
    BY <1>3, ServiceAssumption
  <2>2. ends(e, u) <=> v = u /\ w \notin {None, u}
    BY <1>3 DEF ends
  <2>3. CASE None \in {v, w} \/ v = w
    BY <1>1, <1>3, <2>2, <2>3 DEF user_merged
  <2>4. CASE None \notin {v, w} /\ v # w /\ ~owns_something(v)
    <3>1. UNCHANGED vars
      BY <1>3, <2>4 DEF user_merged
    <3>2. GainsNothing(u)
      BY <1>1, <3>1
    <3> QED BY <2>2, <2>4, <3>2 DEF GainsNothing
  <2>5. CASE None \notin {v, w} /\ v # w /\ owns_something(v)
    <3>1. handle_user_merged(v, w) /\ v \in Users /\ w \in Users
      BY <1>3, <2>1, <2>5 DEF user_merged
    <3>2. w # u
      BY <1>3, <2>5 DEF MergesInto
    <3> QED BY <2>2, <3>1, <3>2, MergeEmpties
  <2> QED BY <2>3, <2>4, <2>5
<1>4. CASE e.kind = "moderation.completed" /\ moderation_completed(e)
  <2>1. ~ends(e, u)
    BY <1>4 DEF ends
  <2>2. GainsNothing(u)
    BY <1>4, OthersGainNothing DEF moderation_completed, rules
  <2> QED BY <2>1, <2>2
<1> QED BY <1>2, <1>3, <1>4 DEF on_action

(***************************************************************************)
(* What makes ClosedAccountsEmpty inductive: an account ends once, a merge *)
(* into an account that was closed since is followed by what closed it,    *)
(* and a closed account whose end was heard has nothing.                   *)
(***************************************************************************)
EndsOnce(u) ==
  \A i \in 1..Len(inbox) : ends(inbox[i], u) =>
    /\ u \in closed
    /\ \A j \in 1..Len(inbox) : ends(inbox[j], u) => i = j

EndFollows(u) ==
  \A i \in 1..Len(inbox) : MergesInto(inbox[i], u) =>
    \E j \in 1..Len(inbox) : j > i /\ ends(inbox[j], u)

EmptyUnlessEnding(u) ==
  (\A i \in 1..Len(inbox) : i > seen => ~ends(inbox[i], u)) => ~owns_something(u)

ClosedInv ==
  /\ \A u \in Users : EndsOnce(u)
  /\ \A u \in closed : EndFollows(u) /\ EmptyUnlessEnding(u)

LEMMA QuietStep ==
  ASSUME ClosedInv, UNCHANGED <<inbox, seen, closed>>,
         \A u \in closed : GainsNothing(u)
  PROVE  ClosedInv'
BY DEF ClosedInv, EndsOnce, EndFollows, EmptyUnlessEnding, GainsNothing, ends, MergesInto

LEMMA EndAnnounced ==
  ASSUME STypeOK, ClosedInv, NEW e \in Events, announces(e)
  PROVE  ClosedInv'
<1>1. UNCHANGED <<reviews, responses, seen>>
  BY DEF announces, vars
<1>2. /\ Len(inbox') = Len(inbox) + 1 /\ Len(inbox) \in Nat
      /\ \A i \in 1..Len(inbox) : inbox'[i] = inbox[i]
      /\ inbox'[Len(inbox) + 1] = e
      /\ seen \in 0..Len(inbox)
  BY DEF announces, STypeOK
<1>3. closed' = closed \cup {u \in Users : ends(e, u)}
  BY DEF announces
<1>4. ASSUME NEW u \in Users, ends(e, u)
      PROVE  u \notin closed /\ ~MergesInto(e, u)
  BY <1>4, RowAssumption DEF announces, callers, ends, MergesInto
<1>5. ASSUME NEW u \in Users
      PROVE  EndsOnce(u)'
  <2>1. EndsOnce(u)
    BY DEF ClosedInv
  <2>2. CASE ends(e, u)
    <3>1. \A i \in 1..Len(inbox) : ~ends(inbox[i], u)
      BY <1>4, <2>1, <2>2 DEF EndsOnce
    <3> QED BY <1>2, <1>3, <2>2, <3>1 DEF EndsOnce
  <2>3. CASE ~ends(e, u)
    BY <1>2, <1>3, <2>1, <2>3 DEF EndsOnce
  <2> QED BY <2>2, <2>3
<1>6. ASSUME NEW u \in closed'
      PROVE  EndFollows(u)' /\ EmptyUnlessEnding(u)'
  <2>1. u \in Users
    BY <1>3 DEF STypeOK
  <2>2. CASE ends(e, u)
    <3>1. ~MergesInto(e, u)
      BY <1>4, <2>1, <2>2
    <3>2. EndFollows(u)'
      BY <1>2, <2>2, <3>1 DEF EndFollows
    <3>3. EmptyUnlessEnding(u)'
      BY <1>1, <1>2, <2>2 DEF EmptyUnlessEnding
    <3> QED BY <3>2, <3>3
  <2>3. CASE ~ends(e, u)
    <3>1. u \in closed /\ ~MergesInto(e, u)
      BY <1>3, <2>3 DEF announces, MergesInto
    <3>2. EndFollows(u) /\ EmptyUnlessEnding(u)
      BY <3>1 DEF ClosedInv
    <3>3. EndFollows(u)'
      BY <1>2, <3>1, <3>2 DEF EndFollows
    <3>4. owns_something(u)' = owns_something(u)
      BY <1>1 DEF owns_something, Authored, Rows
    <3>5. EmptyUnlessEnding(u)'
      BY <1>1, <1>2, <2>3, <3>2, <3>4 DEF EmptyUnlessEnding
    <3> QED BY <3>3, <3>5
  <2> QED BY <2>2, <2>3
<1> QED BY <1>5, <1>6 DEF ClosedInv

(***************************************************************************)
(* A merge delivered again finds that its guest, whose only end it is, has *)
(* nothing to carry over.                                                  *)
(***************************************************************************)
LEMMA ReplayGainsNothing ==
  ASSUME TypeOK, STypeOK, ClosedInv, deliver, handled < seen, NEW u \in Users
  PROVE  GainsNothing(u)
<1> DEFINE e == inbox[handled + 1]
           v == e.from_user_id
<1>1. /\ handled \in Nat /\ Len(inbox) \in Nat /\ handled + 1 \in 1..Len(inbox)
      /\ e \in Events /\ on_action(e) /\ seen \in Nat /\ handled + 1 <= seen
  BY DEF deliver, STypeOK
<1>2. CASE ~MergesInto(e, u)
  BY <1>1, <1>2, EventEmpties
<1>3. CASE MergesInto(e, u)
  <2>1. /\ e.kind = "user.merged" /\ e.into_user_id = u /\ v \notin {None, u}
        /\ v \in Users /\ u # None
    BY <1>1, <1>3, ServiceAssumption, RowAssumption DEF MergesInto
  <2>2. ends(e, v)
    BY <2>1 DEF ends
  <2> HIDE DEF e, v
  <2>3. v \in closed /\ \A i \in 1..Len(inbox) : ends(inbox[i], v) => i = handled + 1
    BY <1>1, <2>1, <2>2 DEF ClosedInv, EndsOnce, e
  <2>4. \A i \in 1..Len(inbox) : i > seen => ~ends(inbox[i], v)
    BY <1>1, <2>3
  <2>5. ~owns_something(v)
    BY <2>3, <2>4 DEF ClosedInv, EmptyUnlessEnding
  <2>6. UNCHANGED vars
    BY <1>1, <2>1, <2>5 DEF on_action, user_merged, v
  <2> QED BY <2>6, OthersGainNothing
<1> QED BY <1>2, <1>3

LEMMA EndDelivered ==
  ASSUME TypeOK, STypeOK, ClosedInv, deliver
  PROVE  ClosedInv'
<1> DEFINE e == inbox[handled + 1]
<1>1. /\ inbox' = inbox /\ closed' = closed
      /\ handled \in Nat /\ Len(inbox) \in Nat /\ handled + 1 \in 1..Len(inbox)
      /\ seen \in handled..Len(inbox)
      /\ seen' = IF handled < seen THEN seen ELSE handled + 1
      /\ e \in Events /\ on_action(e) /\ closed \subseteq Users
  BY DEF deliver, STypeOK
<1>2. \A u \in Users : EndsOnce(u)'
  BY <1>1 DEF ClosedInv, EndsOnce
<1>3. ASSUME NEW u \in closed
      PROVE  EndFollows(u)' /\ EmptyUnlessEnding(u)'
  <2>1. EndFollows(u) /\ EmptyUnlessEnding(u) /\ u \in Users
    BY <1>1 DEF ClosedInv
  <2>2. EndFollows(u)'
    BY <1>1, <2>1 DEF EndFollows
  <2>3. CASE handled < seen
    <3>1. GainsNothing(u) /\ seen' = seen
      BY <1>1, <2>1, <2>3, ReplayGainsNothing
    <3> QED BY <1>1, <2>1, <2>2, <3>1 DEF GainsNothing, EmptyUnlessEnding
  <2>4. CASE ~(handled < seen)
    <3>1. seen = handled /\ seen' = handled + 1
      BY <1>1, <2>4
    <3>2. ASSUME \A i \in 1..Len(inbox) : i > handled + 1 => ~ends(inbox[i], u)
          PROVE  ~owns_something(u)'
      <4>1. ~MergesInto(e, u)
        BY <1>1, <2>1, <3>2 DEF EndFollows
      <4>2. GainsNothing(u) /\ (ends(e, u) => ~owns_something(u)')
        BY <1>1, <2>1, <4>1, EventEmpties
      <4>3. CASE ~ends(e, u)
        <5>1. \A i \in 1..Len(inbox) : i > seen => ~ends(inbox[i], u)
          BY <1>1, <3>1, <3>2, <4>3
        <5>2. ~owns_something(u)
          BY <2>1, <5>1 DEF EmptyUnlessEnding
        <5> QED BY <4>2, <5>2 DEF GainsNothing
      <4> QED BY <4>2, <4>3
    <3>3. EmptyUnlessEnding(u)'
      BY <1>1, <3>1, <3>2 DEF EmptyUnlessEnding
    <3> QED BY <2>2, <3>3
  <2> QED BY <2>3, <2>4
<1> QED BY <1>1, <1>2, <1>3 DEF ClosedInv

LEMMA EndAcknowledged ==
  ASSUME STypeOK, ClosedInv, acknowledge
  PROVE  ClosedInv'
<1>1. /\ UNCHANGED <<reviews, responses, closed>> /\ seen' = seen - handled
      /\ handled \in Nat /\ Len(inbox) \in Nat /\ handled <= Len(inbox)
      /\ seen \in Nat /\ handled <= seen
      /\ inbox' = SubSeq(inbox, handled + 1, Len(inbox))
  BY DEF acknowledge, STypeOK, vars
<1>2. /\ Len(inbox') = Len(inbox) - handled
      /\ \A i \in 1..Len(inbox') : inbox'[i] = inbox[i + handled]
  BY <1>1 DEF STypeOK
<1>3. ASSUME NEW j \in 1..Len(inbox), j > handled
      PROVE  j - handled \in 1..Len(inbox') /\ inbox'[j - handled] = inbox[j]
  <2>1. j - handled \in 1..Len(inbox') /\ (j - handled) + handled = j
    BY <1>1, <1>2, <1>3
  <2> QED BY <1>2, <2>1
<1>4. ASSUME NEW u \in Users
      PROVE  EndsOnce(u)'
  <2>1. \A i \in 1..Len(inbox') :
          i + handled \in 1..Len(inbox) /\ inbox'[i] = inbox[i + handled]
    BY <1>1, <1>2
  <2>2. ASSUME NEW i \in 1..Len(inbox'), ends(inbox'[i], u)
        PROVE  u \in closed /\ \A j \in 1..Len(inbox') : ends(inbox'[j], u) => i = j
    <3>1. EndsOnce(u) /\ i + handled \in 1..Len(inbox) /\ ends(inbox[i + handled], u)
      BY <2>1, <2>2 DEF ClosedInv
    <3>2. ASSUME NEW j \in 1..Len(inbox'), ends(inbox'[j], u)
          PROVE  i = j
      <4>1. i + handled = j + handled
        BY <2>1, <3>1, <3>2 DEF EndsOnce
      <4> QED BY <1>1, <1>2, <4>1
    <3> QED BY <3>1, <3>2 DEF EndsOnce
  <2> QED BY <1>1, <2>2 DEF EndsOnce
<1>5. ASSUME NEW u \in closed
      PROVE  EndFollows(u)' /\ EmptyUnlessEnding(u)'
  <2>1. EndFollows(u) /\ EmptyUnlessEnding(u)
    BY DEF ClosedInv
  <2>2. ASSUME NEW i \in 1..Len(inbox'), MergesInto(inbox'[i], u)
        PROVE  \E j \in 1..Len(inbox') : j > i /\ ends(inbox'[j], u)
    <3>0. i + handled \in 1..Len(inbox) /\ inbox'[i] = inbox[i + handled]
      BY <1>1, <1>2
    <3>1. i + handled \in 1..Len(inbox) /\ MergesInto(inbox[i + handled], u)
      BY <2>2, <3>0
    <3>2. PICK j \in 1..Len(inbox) : j > i + handled /\ ends(inbox[j], u)
      BY <2>1, <3>1 DEF EndFollows
    <3>3. j > handled /\ j - handled > i
      BY <1>1, <1>2, <3>2
    <3> QED BY <1>3, <3>2, <3>3
  <2>3. EndFollows(u)'
    BY <2>2 DEF EndFollows
  <2>4. owns_something(u)' = owns_something(u)
    BY <1>1 DEF owns_something, Authored, Rows
  <2>5. ASSUME \A i \in 1..Len(inbox') : i > seen' => ~ends(inbox'[i], u),
               NEW i \in 1..Len(inbox), i > seen
        PROVE  ~ends(inbox[i], u)
    <3>1. i > handled /\ i - handled > seen'
      BY <1>1, <2>5
    <3>2. i - handled \in 1..Len(inbox') /\ inbox'[i - handled] = inbox[i]
      BY <1>3, <3>1
    <3> QED BY <2>5, <3>1, <3>2
  <2>6. EmptyUnlessEnding(u)'
    BY <2>1, <2>4, <2>5 DEF EmptyUnlessEnding
  <2> QED BY <2>3, <2>6
<1> QED BY <1>1, <1>4, <1>5 DEF ClosedInv

(***************************************************************************)
(* When the row of a closed account goes, its cascade finds nothing.       *)
(***************************************************************************)
LEMMA RemovalIsQuiet ==
  ASSUME TypeOK, STypeOK, ClosedInv, NEW u \in Users, account_removed(u)
  PROVE  user_row_deleted(u) /\ UNCHANGED <<reviews, responses, runtime, fact, told>>
<1>1. ~owns_something(u)
  BY DEF account_removed, ClosedInv, EmptyUnlessEnding
<1> QED BY <1>1, EmptyCascade DEF account_removed, user_row_deleted

LEMMA ClosedStep ==
  ASSUME TypeOK, STypeOK, ClosedInv, [SNext]_svars
  PROVE  ClosedInv'
<1>1. closed \subseteq Users
  BY DEF STypeOK
<1>2. ASSUME NEW q \in ReviewIds, NEW v \in Users, NEW t \in Targets, NEW x,
             creates(q, v, t, x)
      PROVE  ClosedInv'
  <2>1. /\ v \notin closed /\ responses' = responses
        /\ UNCHANGED <<inbox, seen, closed>>
    BY <1>2 DEF creates, insert_review, callers, commVars
  <2>2. x \in RATING_MIN..RATING_MAX /\ create_review(q, t, v, x)
    BY <1>2, CreateGranted
  <2>3. \A u \in closed : GainsNothing(u)
    BY <2>1, <2>2, CreateEffect DEF GainsNothing, owns_something, Authored
  <2> QED BY <2>1, <2>3, QuietStep
<1>3. ASSUME NEW q \in ReviewIds, NEW v \in Users, NEW action, moderates(q, v, action)
      PROVE  ClosedInv'
  <2>1. /\ decided(q, action) /\ q \in Rows(reviews)
        /\ UNCHANGED <<inbox, seen, closed>>
    BY <1>3 DEF moderates, post_moderate
  <2> QED BY <1>1, <2>1, OthersGainNothing, QuietStep
<1>4. ASSUME NEW q \in ReviewIds, NEW v \in Users, responds(q, v)
      PROVE  ClosedInv'
  <2>1. /\ v \notin closed /\ reviews' = reviews
        /\ responses' = [responses EXCEPT ![q] = v]
        /\ UNCHANGED <<inbox, seen, closed>>
    BY <1>4 DEF responds, callers, commVars
  <2>2. \A u \in closed : GainsNothing(u)
    BY <2>1 DEF GainsNothing, owns_something, Authored, Rows, TypeOK
  <2> QED BY <2>1, <2>2, QuietStep
<1>5. ASSUME NEW e \in Events, announces(e)
      PROVE  ClosedInv'
  BY <1>5, EndAnnounced
<1>6. CASE deliver
  BY <1>6, EndDelivered
<1>7. CASE acknowledge
  BY <1>7, EndAcknowledged
<1>8. CASE crash
  BY <1>1, <1>8, OthersGainNothing, QuietStep DEF crash
<1>9. ASSUME NEW v \in Users, account_lands(v) \/ account_removed(v)
      PROVE  ClosedInv'
  <2>1. UNCHANGED <<reviews, responses, inbox, seen, closed>>
    BY <1>9, RemovalIsQuiet DEF account_lands, account_removed, user_row_lands, commVars
  <2> QED BY <2>1, QuietStep DEF GainsNothing, owns_something, Authored, Rows
<1>10. CASE configures
  BY <1>1, <1>10, OthersGainNothing, QuietStep DEF configures, commVars
<1>11. CASE UNCHANGED svars
  BY <1>1, <1>11, OthersGainNothing, QuietStep DEF svars, commVars
<1> QED BY <1>2, <1>3, <1>4, <1>5, <1>6, <1>7, <1>8, <1>9, <1>10, <1>11 DEF SNext

(***************************************************************************)
(* Every step of the service is an operation of the store, or none.        *)
(***************************************************************************)
LEMMA StoreStep ==
  ASSUME TypeOK, STypeOK, ClosedInv, [SNext]_svars
  PROVE  [Next]_vars
<1>1. ASSUME NEW r \in ReviewIds, NEW u \in Users, NEW t \in Targets, NEW x,
             creates(r, u, t, x)
      PROVE  Next
  BY <1>1, CreateGranted DEF Next, Reviewing
<1>2. ASSUME NEW r \in ReviewIds, NEW u \in Users, NEW action, moderates(r, u, action)
      PROVE  [Next]_vars
  BY <1>2, ModerationGranted DEF Next, Reviewing
<1>3. ASSUME NEW r \in ReviewIds, NEW u \in Users, responds(r, u)
      PROVE  Next
  BY <1>3, ResponseGranted DEF Next, Reviewing
<1>4. CASE deliver
  <2>1. inbox[handled + 1] \in Events
    BY <1>4 DEF deliver, STypeOK
  <2> QED BY <1>4, <2>1, EventHandled DEF deliver
<1>5. ASSUME NEW u \in Users, account_lands(u) \/ account_removed(u)
      PROVE  Next
  BY <1>5, RemovalIsQuiet DEF account_lands, Next, Accounts
<1>6. CASE configures
  BY <1>6 DEF configures, Next
<1>7. CASE (\E e \in Events : announces(e)) \/ acknowledge \/ crash \/ UNCHANGED svars
  BY <1>7 DEF announces, acknowledge, crash, svars
<1> QED BY <1>1, <1>2, <1>3, <1>4, <1>5, <1>6, <1>7 DEF SNext

LEMMA ServiceInv == SSpec => [](TypeOK /\ STypeOK /\ ClosedInv)
<1>1. SInit => TypeOK /\ STypeOK /\ ClosedInv
  <2>1. SInit => TypeOK
    BY DEF SInit, Init, TypeOK, Table
  <2>2. SInit => STypeOK
    BY DEF SInit, STypeOK
  <2>3. SInit => ClosedInv
    BY DEF SInit, ClosedInv, EndsOnce
  <2> QED BY <2>1, <2>2, <2>3
<1>2. TypeOK /\ STypeOK /\ ClosedInv /\ [SNext]_svars => (TypeOK /\ STypeOK /\ ClosedInv)'
  BY ServiceTypes, ClosedStep, StoreStep, TypeKept
<1> QED BY <1>1, <1>2, PTL DEF SSpec

(***************************************************************************)
(* The service is a refinement of the store (KeepsStore): also when a user *)
(* row goes, with all the database would cascade.                          *)
(***************************************************************************)
THEOREM ServiceKeepsStore == SSpec => KeepsStore
<1>1. SInit => Init
  BY DEF SInit
<1> QED BY <1>1, StoreStep, ServiceInv, PTL DEF SSpec, Spec, KeepsStore

(***************************************************************************)
(* The facts a host receives from the running service carry the live       *)
(* rating, and nothing it holds dangles, whatever is replayed.             *)
(***************************************************************************)
THEOREM ServiceTellsTheTruth ==
  SSpec => [](FactsMatchAggregate /\ FactsTellVisibility /\ OneFlaggedReview /\ RowsAttached)
BY ServiceKeepsStore, FactsFollowTheStore, ConstraintNeverRefuses, NothingDangles, PTL
   DEF KeepsStore
-------------------------------------------------------------------------------
(***************************************************************************)
(* The last verdict stands.  A review keeps its status or loses its row in *)
(* every step that is no decision about it.                                *)
(***************************************************************************)
asks_for(e) == IF VERDICT_ACTIONS[e.decision] = "hide" THEN "hidden" ELSE "published"

IsVerdict(e, r) ==
  /\ e.kind = "moderation.completed"
  /\ e.target_type = MODERATION_TARGET_TYPE
  /\ e.target_key = r
  /\ e.decision \in DOMAIN VERDICT_ACTIONS

KeepsStatus(r) ==
  /\ reviews[r] # Unwritten => reviews'[r] # Unwritten
  /\ r \in Rows(reviews') => r \in Rows(reviews) /\ reviews'[r].status = reviews[r].status

LEMMA AccountsKeepStatus ==
  ASSUME TypeOK, NEW r \in ReviewIds
  PROVE  /\ \A u \in Users : gdpr_delete(u) => KeepsStatus(r)
         /\ \A u, v \in Users : handle_user_merged(u, v) => KeepsStatus(r)
<1>1. ASSUME NEW u \in Users, gdpr_delete(u)
      PROVE  KeepsStatus(r)
  <2>1. r \in Rows(reviews') => r \in Rows(reviews) /\ reviews'[r].status = reviews[r].status
    BY <1>1, ErasureDeletes DEF OnlyDeletes
  <2>2. reviews'[r] \in {Erased, reviews[r]}
    BY <1>1 DEF gdpr_delete, without
  <2> QED BY <2>1, <2>2, RowAssumption DEF KeepsStatus
<1>2. ASSUME NEW u \in Users, NEW v \in Users, handle_user_merged(u, v)
      PROVE  KeepsStatus(r)
  <2>1. /\ r \in Rows(reviews') => r \in Rows(reviews) /\ reviews'[r].status = reviews[r].status
        /\ r \in Rows(reviews) \ Duplicates(u, v) => r \in Rows(reviews')
    BY <1>2, MergeDeletes DEF OnlyDeletes
  <2>2. /\ r \in Duplicates(u, v) => reviews'[r] = Erased
        /\ r \notin Rows(reviews) /\ r \notin Duplicates(u, v) => reviews'[r] = reviews[r]
    BY <1>2 DEF handle_user_merged, Reassigned, Authored
  <2> QED BY <2>1, <2>2, RowAssumption DEF KeepsStatus, Rows
<1> QED BY <1>1, <1>2

LEMMA ConfigurationKeepsStatus ==
  ASSUME TypeOK, Configuration, NEW r \in ReviewIds
  PROVE  KeepsStatus(r)
<1>1. ASSUME NEW t \in Targets, backfill_target(t)
      PROVE  KeepsStatus(r)
  <2>1. /\ r \in Rows(reviews') => r \in Rows(reviews) /\ reviews'[r].status = reviews[r].status
        /\ r \in Rows(reviews) => r \in Rows(reviews')
    BY <1>1, BackfillDeletesNothing DEF OnlyDeletes
  <2>2. r \notin Rows(reviews) => reviews'[r] = reviews[r]
    BY <1>1 DEF backfill_target
  <2> QED BY <2>1, <2>2 DEF KeepsStatus, Rows
<1>2. UNCHANGED reviews => KeepsStatus(r)
  BY DEF KeepsStatus
<1> QED BY <1>1, <1>2 DEF Configuration, register_target_type

(***************************************************************************)
(* A decision gives its review the status it asks for, and no other.       *)
(***************************************************************************)
LEMMA DecidedEffect ==
  ASSUME TypeOK, NEW q \in Rows(reviews), NEW action, decided(q, action),
         NEW r \in ReviewIds
  PROVE  /\ r # q => KeepsStatus(r)
         /\ q \in Rows(reviews')
         /\ reviews'[q].status = IF action = "hide" THEN "hidden" ELSE "published"
<1> DEFINE status == IF action = "hide" THEN "hidden" ELSE "published"
<1>1. CASE set_status(q, action)
  <2>1. q \in ReviewIds /\ reviews[q] \in Review
    BY RowIsReview DEF TypeOK, Rows
  <2>2. reviews' = [reviews EXCEPT ![q] = [reviews[q] EXCEPT !.status = status]]
    BY <1>1 DEF set_status
  <2>3. /\ reviews'[q].status = status
        /\ r # q => reviews'[r] = reviews[r]
    BY <2>1, <2>2 DEF TypeOK, Table, Review
  <2>4. q \in Rows(reviews')
    BY <1>1, SetStatusEffect
  <2> QED BY <2>3, <2>4 DEF KeepsStatus, Rows
<1>2. CASE reviews[q].status = status /\ UNCHANGED vars
  BY <1>2 DEF KeepsStatus, vars
<1> QED BY <1>1, <1>2 DEF decided

(***************************************************************************)
(* Handling an event moves the review it is a verdict on, and no other.    *)
(***************************************************************************)
LEMMA EventEffect ==
  ASSUME TypeOK, NEW e \in Events, on_action(e), NEW r \in ReviewIds
  PROVE  /\ ~IsVerdict(e, r) => KeepsStatus(r)
         /\ IsVerdict(e, r) /\ r \in Rows(reviews) =>
              r \in Rows(reviews') /\ reviews'[r].status = asks_for(e)
         /\ IsVerdict(e, r) /\ r \notin Rows(reviews) => UNCHANGED reviews
<1>1. UNCHANGED vars => KeepsStatus(r)
  BY DEF KeepsStatus, vars
<1>2. CASE e.kind = "user.deleted" /\ user_deleted(e)
  BY <1>1, <1>2, AccountsKeepStatus, ServiceAssumption DEF user_deleted, IsVerdict
<1>3. CASE e.kind = "user.merged" /\ user_merged(e)
  BY <1>1, <1>3, AccountsKeepStatus, ServiceAssumption DEF user_merged, IsVerdict
<1>4. CASE e.kind = "moderation.completed" /\ moderation_completed(e)
  <2>1. CASE rules(e)
    <3>1. /\ e.target_key \in Rows(reviews)
          /\ decided(e.target_key, VERDICT_ACTIONS[e.decision])
      BY <1>4, <2>1 DEF rules, moderation_completed
    <3>2. IsVerdict(e, r) <=> r = e.target_key
      BY <1>4, <2>1 DEF rules, IsVerdict
    <3> QED BY <3>1, <3>2, DecidedEffect DEF asks_for
  <2>2. CASE ~rules(e)
    <3>1. UNCHANGED vars
      BY <1>4, <2>2 DEF moderation_completed
    <3>2. ~(IsVerdict(e, r) /\ r \in Rows(reviews))
      BY <2>2 DEF rules, IsVerdict
    <3> QED BY <1>1, <3>1, <3>2 DEF vars
  <2> QED BY <2>1, <2>2
<1> QED BY <1>2, <1>3, <1>4 DEF on_action

(***************************************************************************)
(* What makes VerdictStands inductive: of the verdicts on a review that    *)
(* wait or may be replayed, the last one asks for what the platform asked  *)
(* last, and when none is still to be handled the review is as it asked.   *)
(***************************************************************************)
LastRules(r) ==
  \A i \in 1..Len(inbox) :
    /\ IsVerdict(inbox[i], r)
    /\ \A j \in 1..Len(inbox) : j > i => ~IsVerdict(inbox[j], r)
    => asks_for(inbox[i]) = ruled[r]

AsRuled(r) ==
  (\A i \in 1..Len(inbox) : i > handled => ~IsVerdict(inbox[i], r))
    => reviews[r].status = ruled[r]

VerdictInv ==
  \A r \in ReviewIds : ruled[r] # None =>
    /\ reviews[r] # Unwritten
    /\ r \in Rows(reviews) => LastRules(r) /\ AsRuled(r)

(***************************************************************************)
(* A step that leaves the inbox and the verdict on r alone.                *)
(***************************************************************************)
LEMMA StatusStep ==
  ASSUME VerdictInv, NEW r \in ReviewIds, KeepsStatus(r),
         UNCHANGED <<inbox, handled, ruled>>, ruled'[r] # None
  PROVE  /\ reviews'[r] # Unwritten
         /\ r \in Rows(reviews') => LastRules(r)' /\ AsRuled(r)'
BY DEF VerdictInv, KeepsStatus, LastRules, AsRuled, IsVerdict, asks_for

LEMMA AnnounceStep ==
  ASSUME STypeOK, VerdictInv, NEW e \in Events, announces(e)
  PROVE  VerdictInv'
<1> SUFFICES ASSUME NEW r \in ReviewIds, ruled'[r] # None
             PROVE  /\ reviews'[r] # Unwritten
                    /\ r \in Rows(reviews') => LastRules(r)' /\ AsRuled(r)'
  BY DEF VerdictInv
<1>1. reviews' = reviews /\ handled' = handled
  BY DEF announces, vars
<1>2. /\ Len(inbox') = Len(inbox) + 1 /\ Len(inbox) \in Nat
      /\ \A i \in 1..Len(inbox) : inbox'[i] = inbox[i]
      /\ inbox'[Len(inbox) + 1] = e
      /\ handled \in 0..Len(inbox)
  BY DEF announces, STypeOK
<1>3. CASE r \in Rows(reviews) /\ IsVerdict(e, r)
  <2>1. ruled'[r] = asks_for(e)
    BY <1>3 DEF announces, rules, IsVerdict, asks_for, STypeOK
  <2>2. LastRules(r)'
    BY <1>2, <1>3, <2>1 DEF LastRules
  <2>3. AsRuled(r)'
    BY <1>1, <1>2, <1>3 DEF AsRuled
  <2> QED BY <1>1, <1>3, <2>2, <2>3, RowAssumption DEF Rows
<1>4. CASE ~(r \in Rows(reviews) /\ IsVerdict(e, r))
  <2>1. ruled'[r] = ruled[r]
    BY <1>4 DEF announces, rules, IsVerdict, STypeOK
  <2>2. CASE r \notin Rows(reviews)
    BY <1>1, <2>1, <2>2 DEF VerdictInv
  <2>3. CASE r \in Rows(reviews)
    <3>1. ~IsVerdict(e, r) /\ LastRules(r) /\ AsRuled(r)
      BY <1>4, <2>1, <2>3 DEF VerdictInv
    <3>2. LastRules(r)'
      BY <1>2, <2>1, <3>1 DEF LastRules
    <3>3. AsRuled(r)'
      BY <1>1, <1>2, <2>1, <3>1 DEF AsRuled
    <3> QED BY <1>1, <2>1, <3>2, <3>3 DEF VerdictInv
  <2> QED BY <2>2, <2>3
<1> QED BY <1>3, <1>4

LEMMA DeliverStep ==
  ASSUME TypeOK, STypeOK, VerdictInv, deliver
  PROVE  VerdictInv'
<1> SUFFICES ASSUME NEW r \in ReviewIds, ruled'[r] # None
             PROVE  /\ reviews'[r] # Unwritten
                    /\ r \in Rows(reviews') => LastRules(r)' /\ AsRuled(r)'
  BY DEF VerdictInv
<1> DEFINE e == inbox[handled + 1]
<1>1. /\ inbox' = inbox /\ ruled' = ruled /\ handled' = handled + 1
      /\ handled \in Nat /\ Len(inbox) \in Nat /\ handled + 1 \in 1..Len(inbox)
      /\ e \in Events /\ on_action(e)
  BY DEF deliver, STypeOK
<1>2. reviews[r] # Unwritten
  BY <1>1 DEF VerdictInv
<1>3. /\ reviews'[r] # Unwritten
      /\ r \in Rows(reviews') => r \in Rows(reviews)
  BY <1>1, <1>2, EventEffect, RowAssumption DEF KeepsStatus, Rows
<1>4. ASSUME r \in Rows(reviews')
      PROVE  LastRules(r)' /\ AsRuled(r)'
  <2>1. LastRules(r) /\ AsRuled(r) /\ r \in Rows(reviews)
    BY <1>1, <1>3, <1>4 DEF VerdictInv
  <2>2. LastRules(r)'
    BY <1>1, <2>1 DEF LastRules
  <2>3. ASSUME \A i \in 1..Len(inbox) : i > handled + 1 => ~IsVerdict(inbox[i], r)
        PROVE  reviews'[r].status = ruled[r]
    <3>1. CASE IsVerdict(e, r)
      <4>1. asks_for(e) = ruled[r]
        BY <1>1, <2>1, <2>3, <3>1 DEF LastRules
      <4> QED BY <1>1, <2>1, <3>1, <4>1, EventEffect
    <3>2. CASE ~IsVerdict(e, r)
      <4>1. \A i \in 1..Len(inbox) : i > handled => ~IsVerdict(inbox[i], r)
        BY <1>1, <2>3, <3>2
      <4>2. reviews[r].status = ruled[r]
        BY <2>1, <4>1 DEF AsRuled
      <4> QED BY <1>1, <1>4, <3>2, <4>2, EventEffect DEF KeepsStatus
    <3> QED BY <3>1, <3>2
  <2>4. AsRuled(r)'
    BY <1>1, <2>3 DEF AsRuled
  <2> QED BY <2>2, <2>4
<1> QED BY <1>3, <1>4

LEMMA AcknowledgeStep ==
  ASSUME STypeOK, VerdictInv, acknowledge
  PROVE  VerdictInv'
<1> SUFFICES ASSUME NEW r \in ReviewIds, ruled'[r] # None
             PROVE  /\ reviews'[r] # Unwritten
                    /\ r \in Rows(reviews') => LastRules(r)' /\ AsRuled(r)'
  BY DEF VerdictInv
<1>1. /\ reviews' = reviews /\ ruled' = ruled /\ handled' = 0
      /\ handled \in Nat /\ Len(inbox) \in Nat /\ handled <= Len(inbox)
      /\ inbox' = SubSeq(inbox, handled + 1, Len(inbox))
  BY DEF acknowledge, STypeOK, vars
<1>2. /\ Len(inbox') = Len(inbox) - handled
      /\ \A i \in 1..Len(inbox') : inbox'[i] = inbox[i + handled]
  BY <1>1 DEF STypeOK
<1>3. \A i \in 1..Len(inbox) : i > handled =>
        i - handled \in 1..Len(inbox') /\ inbox'[i - handled] = inbox[i]
  <2> SUFFICES ASSUME NEW i \in 1..Len(inbox), i > handled
               PROVE  i - handled \in 1..Len(inbox') /\ inbox'[i - handled] = inbox[i]
    OBVIOUS
  <2>1. i - handled \in 1..Len(inbox') /\ (i - handled) + handled = i
    BY <1>1, <1>2
  <2> QED BY <1>2, <2>1
<1>4. ASSUME r \in Rows(reviews)
      PROVE  LastRules(r)' /\ AsRuled(r)'
  <2>1. LastRules(r) /\ AsRuled(r)
    BY <1>1, <1>4 DEF VerdictInv
  <2>2. LastRules(r)'
    <3> SUFFICES ASSUME NEW i \in 1..Len(inbox'), IsVerdict(inbox'[i], r),
                        \A j \in 1..Len(inbox') : j > i => ~IsVerdict(inbox'[j], r)
                 PROVE  asks_for(inbox'[i]) = ruled'[r]
      BY DEF LastRules
    <3>1. i + handled \in 1..Len(inbox) /\ inbox'[i] = inbox[i + handled]
      BY <1>1, <1>2
    <3>2. ASSUME NEW j \in 1..Len(inbox), j > i + handled
          PROVE  ~IsVerdict(inbox[j], r)
      <4>1. j > handled /\ j - handled > i
        BY <1>1, <1>2, <3>2
      <4>2. j - handled \in 1..Len(inbox') /\ inbox'[j - handled] = inbox[j]
        BY <1>3, <4>1
      <4> QED BY <4>1, <4>2
    <3> QED BY <1>1, <2>1, <3>1, <3>2 DEF LastRules
  <2>3. AsRuled(r)'
    BY <1>1, <1>2, <1>3, <2>1 DEF AsRuled
  <2> QED BY <2>2, <2>3
<1> QED BY <1>1, <1>4 DEF VerdictInv

(***************************************************************************)
(* VerdictStands, for any events, replayed however often, in any host.     *)
(***************************************************************************)
THEOREM LastVerdictStands == SSpec => []VerdictStands
<1>1. SInit => VerdictInv
  BY DEF SInit, VerdictInv
<1>2. TypeOK /\ STypeOK /\ ClosedInv /\ VerdictInv /\ [SNext]_svars => VerdictInv'
  <2> SUFFICES ASSUME TypeOK, STypeOK, ClosedInv, VerdictInv, [SNext]_svars
               PROVE  VerdictInv'
    OBVIOUS
  <2>1. ASSUME NEW q \in ReviewIds, NEW u \in Users, NEW t \in Targets, NEW x,
               creates(q, u, t, x)
        PROVE  VerdictInv'
    <3>1. /\ q \notin Rows(reviews)
          /\ reviews[q] = Unwritten
          /\ \A r \in ReviewIds \ {q} : reviews'[r] = reviews[r]
          /\ UNCHANGED <<inbox, handled, ruled>>
      BY <2>1 DEF creates, insert_review, commVars, Rows, TypeOK, Table
    <3>2. \A r \in ReviewIds \ {q} : KeepsStatus(r)
      BY <3>1 DEF KeepsStatus, Rows
    <3> QED BY <3>1, <3>2, StatusStep DEF VerdictInv
  <2>2. ASSUME NEW q \in ReviewIds, NEW u \in Users, NEW action, moderates(q, u, action)
        PROVE  VerdictInv'
    <3>1. /\ decided(q, action) /\ q \in Rows(reviews)
          /\ ruled' = [ruled EXCEPT ![q] = None]
          /\ UNCHANGED <<inbox, handled>>
      BY <2>2 DEF moderates, post_moderate
    <3> SUFFICES ASSUME NEW r \in ReviewIds, ruled'[r] # None
                 PROVE  /\ reviews'[r] # Unwritten
                        /\ r \in Rows(reviews') => LastRules(r)' /\ AsRuled(r)'
      BY DEF VerdictInv
    <3>2. r # q /\ ruled'[r] = ruled[r]
      BY <3>1 DEF STypeOK
    <3>3. KeepsStatus(r)
      BY <3>1, <3>2, DecidedEffect
    <3> QED BY <3>1, <3>2, <3>3 DEF VerdictInv, KeepsStatus, LastRules, AsRuled
  <2>3. ASSUME NEW q \in ReviewIds, NEW u \in Users, responds(q, u)
        PROVE  VerdictInv'
    BY <2>3 DEF responds, commVars, VerdictInv, LastRules, AsRuled
  <2>4. ASSUME NEW e \in Events, announces(e)
        PROVE  VerdictInv'
    BY <2>4, AnnounceStep
  <2>5. CASE deliver
    BY <2>5, DeliverStep
  <2>6. CASE acknowledge
    BY <2>6, AcknowledgeStep
  <2>7. CASE crash
    <3>1. /\ reviews' = reviews /\ inbox' = inbox /\ ruled' = ruled
          /\ handled' = 0 /\ handled \in Nat
      BY <2>7 DEF crash, vars, STypeOK
    <3> QED BY <3>1 DEF VerdictInv, LastRules, AsRuled
  <2>8. ASSUME NEW u \in Users, account_lands(u) \/ account_removed(u)
        PROVE  VerdictInv'
    <3>1. UNCHANGED <<reviews, inbox, handled, ruled>>
      BY <2>8, RemovalIsQuiet DEF account_lands, account_removed, user_row_lands, commVars
    <3> QED BY <3>1 DEF VerdictInv, LastRules, AsRuled
  <2>9. CASE configures
    <3>1. Configuration /\ UNCHANGED <<inbox, handled, ruled>>
      BY <2>9 DEF configures, commVars
    <3> QED BY <3>1, ConfigurationKeepsStatus, StatusStep DEF VerdictInv
  <2>10. CASE UNCHANGED svars
    BY <2>10 DEF svars, vars, commVars, VerdictInv, LastRules, AsRuled
  <2> QED BY <2>1, <2>2, <2>3, <2>4, <2>5, <2>6, <2>7, <2>8, <2>9, <2>10 DEF SNext
<1>3. STypeOK /\ VerdictInv => VerdictStands
  BY DEF STypeOK, VerdictInv, AsRuled, VerdictStands, Rows
<1> QED BY <1>1, <1>2, <1>3, ServiceInv, PTL DEF SSpec
(***************************************************************************)
(* ClosedAccountsEmpty: whatever the order of merges, ends and replays, a  *)
(* consumer that has caught up keeps nothing of a closed account.          *)
(***************************************************************************)
THEOREM NothingOfClosedAccounts == SSpec => []ClosedAccountsEmpty
<1>1. ASSUME STypeOK, ClosedInv
      PROVE  ClosedAccountsEmpty
  <2>1. SUFFICES ASSUME handled = Len(inbox), NEW u \in closed
                 PROVE  ~owns_something(u)
    BY DEF ClosedAccountsEmpty
  <2>2. seen = Len(inbox) /\ Len(inbox) \in Nat
    BY <1>1, <2>1 DEF STypeOK
  <2>3. \A i \in 1..Len(inbox) : ~(i > seen)
    BY <2>2
  <2> QED BY <1>1, <2>3 DEF ClosedInv, EmptyUnlessEnding
<1> QED BY <1>1, ServiceInv, PTL

-------------------------------------------------------------------------------
(***************************************************************************)
(* A request that fails as a server error had an account, and the host     *)
(* raised or the type was removed under the review (views.py:387-482).     *)
(***************************************************************************)
LEMMA CreateAnswered ==
  ASSUME NEW caller, NEW t \in Targets, NEW x, NEW owner_key \in owners(t),
         500 \in post_review(caller, t, x, owner_key)
  PROVE  caller # Anonymous /\ mayRaise(t) \cap {"can_review", "owner_key_for"} # {}
<1>1. PICK raised \in create_raises(t, caller, x, owner_key) :
        status_of(CREATE_ERRORS, raised, 201) = 500
  BY DEF post_review
<1>2. raised # "nothing" /\ raised \notin DOMAIN CREATE_ERRORS
  BY <1>1 DEF status_of, get, CREATE_ERRORS
<1>3. isRegistered(t) /\ caller # Anonymous
  BY <1>2, <1>1 DEF create_raises, CREATE_ERRORS, post_review
<1>4. PICK allowed \in check_can_review(policyOf(t), caller, t) :
        raised = IF allowed = Raises THEN "HostError"
                 ELSE IF ~allowed THEN "NotAllowedToReview"
                 ELSE IF owner_key = Raises THEN "HostError"
                 ELSE IF ~policyOf(t).allow_self_review /\ is_owner(owner_key, caller)
                   THEN "SelfReview"
                 ELSE "nothing"
  BY <1>1, <1>2 DEF create_raises, CREATE_ERRORS
<1>5. allowed = Raises \/ owner_key = Raises
  BY <1>2, <1>4 DEF CREATE_ERRORS
<1>6. CASE allowed = Raises
  <2>1. policyOf(t).can_review /\ "can_review" \in HostRaises[t]
    BY <1>4, <1>6, HostAssumption DEF check_can_review, called
  <2>2. policyOf(t)["can_review"]
    BY <2>1
  <2> QED BY <1>3, <2>1, <2>2 DEF mayRaise
<1>7. CASE owner_key = Raises
  <2>1. Raises \in resolve_owner_key(policyOf(t), t)
    BY <1>3, <1>7 DEF owners
  <2>2. policyOf(t).owner_key_for /\ Raises \in called("owner_key_for", t, HostOwners[t])
    BY <2>1, HostAssumption DEF resolve_owner_key
  <2>3. Raises \notin HostOwners[t]
    BY HostAssumption
  <2>4. "owner_key_for" \in HostRaises[t]
    BY <2>2, <2>3 DEF called
  <2>5. policyOf(t)["owner_key_for"]
    BY <2>2
  <2> QED BY <1>3, <2>4, <2>5 DEF mayRaise
<1> QED BY <1>3, <1>5, <1>6, <1>7

LEMMA ModerationAnswered ==
  ASSUME NEW caller, NEW r, NEW action, 500 \in post_moderate(caller, r, action)
  PROVE  /\ caller # Anonymous
         /\ isRegistered(reviews[r].target) => "can_moderate" \in mayRaise(reviews[r].target)
<1> DEFINE t == reviews[r].target
<1>1. caller # Anonymous /\ r \in Rows(reviews)
  BY DEF post_moderate
<1>2. PICK raised \in moderate_raises(r, caller, action) :
        raised # "nothing" /\ raised \notin DOMAIN MODERATE_ERRORS
  BY DEF post_moderate, status_of, get, MODERATE_ERRORS
<1>3. CASE isRegistered(t)
  <2>1. PICK allowed \in check_can_moderate(policyOf(t), caller, t) :
          raised = IF allowed = Raises THEN "HostError"
                   ELSE IF ~allowed THEN "NotAllowedToModerate"
                   ELSE "nothing"
    BY <1>2, <1>3 DEF moderate_raises, MODERATE_ERRORS
  <2>2. allowed = Raises
    BY <1>2, <2>1 DEF MODERATE_ERRORS
  <2>3. policyOf(t).can_moderate /\ "can_moderate" \in HostRaises[t]
    BY <2>1, <2>2, HostAssumption DEF check_can_moderate, called
  <2>4. policyOf(t)["can_moderate"]
    BY <2>3
  <2> QED BY <1>1, <1>3, <2>3, <2>4 DEF mayRaise
<1> QED BY <1>1, <1>3

LEMMA ResponseAnswered ==
  ASSUME NEW caller, NEW r, 500 \in post_respond(caller, r)
  PROVE  /\ caller # Anonymous
         /\ isRegistered(reviews[r].target) => "can_respond" \in mayRaise(reviews[r].target)
<1> DEFINE t == reviews[r].target
<1>1. caller # Anonymous /\ r \in Rows(reviews)
  BY DEF post_respond
<1>2. PICK raised \in respond_raises(r, caller) :
        raised # "nothing" /\ raised \notin DOMAIN RESPOND_ERRORS
  BY DEF post_respond, status_of, get, RESPOND_ERRORS
<1>3. CASE isRegistered(t)
  <2>1. PICK allowed \in check_can_respond(policyOf(t), caller, t, reviews[r].owner_key) :
          raised = IF allowed = Raises THEN "HostError"
                   ELSE IF ~allowed THEN "NotAllowedToRespond"
                   ELSE IF responses[r] # None THEN "AlreadyResponded"
                   ELSE "nothing"
    BY <1>2, <1>3 DEF respond_raises, RESPOND_ERRORS
  <2>2. allowed = Raises
    BY <1>2, <2>1 DEF RESPOND_ERRORS
  <2>3. policyOf(t).can_respond /\ "can_respond" \in HostRaises[t]
    BY <2>1, <2>2, HostAssumption DEF check_can_respond, called, is_owner
  <2>4. policyOf(t)["can_respond"]
    BY <2>3
  <2> QED BY <1>1, <1>3, <2>3, <2>4 DEF mayRaise
<1> QED BY <1>1, <1>3

\* Whatever policies, callbacks and settings a host has, a server error is the
\* host's own or that of a removed type: every exception of services.py has an
\* answer (views.py:387-482, errors.py:8-55).
THEOREM EveryRefusalAnswered == SSpec => []ServerErrorsAreTheHosts
<1>1. ServerErrorsAreTheHosts
  BY CreateAnswered, ModerationAnswered, ResponseAnswered
     DEF ServerErrorsAreTheHosts
<1> QED BY <1>1, PTL
===============================================================================
