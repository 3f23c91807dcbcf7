----------------------------- MODULE RatingLedger -----------------------------
(***************************************************************************)
(* What stapel-reviews promises to a host that keeps its own copy of the   *)
(* ratings (services.py:1-17, 456-460): whatever enters or leaves a public *)
(* rating is told, one review is published at a time, and after every      *)
(* change the last fact of the target carries the rating of exactly the    *)
(* reviews shown.  An erased review never comes back.                      *)
(***************************************************************************)
EXTENDS Integers

CONSTANTS
  ReviewIds, Targets, RATING_MIN, RATING_MAX,
  Aggregate(_)      \* the rating of a set of published reviews

VARIABLES
  shown,    \* shown[t]: the published reviews of t, as <<id, rating>>
  fact,     \* fact[t]: the aggregate in the last fact keyed by t
  told,     \* the reviews whose last fact is reviews.review.published
  erased    \* the reviews that no longer exist

ledger == <<shown, fact, told, erased>>

Init ==
  /\ shown = [t \in Targets |-> {}]
  /\ fact = [t \in Targets |-> Aggregate({})]
  /\ told = {}
  /\ erased = {}

\* Every target in ts is told its new rating; the facts of the others stand.
Tell(ts) ==
  fact' = [t \in Targets |-> IF t \in ts THEN Aggregate(shown'[t]) ELSE fact[t]]

\* One review becomes visible (create_review, moderate_review).
Publish(r, t) ==
  /\ r \notin told \cup erased
  /\ \E x \in RATING_MIN..RATING_MAX :
       shown' = [shown EXCEPT ![t] = @ \cup {<<r, x>>}]
  /\ told' = told \cup {r}
  /\ Tell({t})
  /\ UNCHANGED erased

\* The reviews R leave the ratings they are in (hide, erasure, merge).
Withdraw(R) ==
  /\ shown' = [t \in Targets |-> {v \in shown[t] : v[1] \notin R}]
  /\ told' = told \ R
  /\ Tell({t \in Targets : shown'[t] # shown[t]})
  /\ erased \subseteq erased'
  /\ erased' \subseteq erased \cup R

Next ==
  \/ \E r \in ReviewIds, t \in Targets : Publish(r, t)
  \/ \E R \in SUBSET ReviewIds : Withdraw(R)

Spec == Init /\ [][Next]_ledger
===============================================================================
