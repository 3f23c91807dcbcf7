----------------------------- MODULE ReviewPolicy -----------------------------
(***************************************************************************)
(* registry.py: the target types a host registers, the policy each one     *)
(* resolves to, and the questions the policy's callbacks answer.           *)
(*                                                                         *)
(* The host is external.  Its answers are the constants Host*: who may     *)
(* review, moderate and respond, which owner keys a resolver may give for  *)
(* a target at different times, and which callbacks may raise.             *)
(***************************************************************************)
EXTENDS Integers

CONSTANTS
  Users,            \* account ids
  Targets,          \* (target_type, target_key) pairs
  Types,            \* target type names
  TypeOf,           \* the type of each target
  OwnerKeys,        \* the host's opaque owner keys, "" (NoOwner) included
  NoOwner,          \* the empty owner key
  None,             \* Python's None
  RawPolicies,      \* policy dicts a host writes: records with missing keys
  TARGET_TYPES,     \* the settings layer: a record type -> raw policy or None
  Registrations,    \* what register_target_type is called with at run time
  MODERATION_DEFAULT,
  RESPONSES,
  HostReviewers,    \* HostReviewers[t]: whom can_review answers "yes" for
  HostModerators,   \* the same for can_moderate
  HostResponders,   \* the same for can_respond
  HostOwners,       \* HostOwners[t]: the answers owner_key_for may give
  HostRaises,       \* HostRaises[t]: the callbacks that may raise about t
  Raises            \* the outcome of one that does

(* dict.get *)
get(dict, key, default) == IF key \in DOMAIN dict THEN dict[key] ELSE default

(***************************************************************************)
(* The policy the services read, every key present.  A callback is only    *)
(* named or not: its answers are the host's.                               *)
(***************************************************************************)
Filled(raw) ==
  [can_review        |-> get(raw, "can_review", FALSE),
   can_moderate      |-> get(raw, "can_moderate", FALSE),
   can_respond       |-> get(raw, "can_respond", FALSE),
   owner_key_for     |-> get(raw, "owner_key_for", FALSE),
   moderation        |-> get(raw, "moderation", MODERATION_DEFAULT),
   one_per_author    |-> get(raw, "one_per_author", FALSE),
   allow_response    |-> get(raw, "allow_response", RESPONSES),
   allow_self_review |-> get(raw, "allow_self_review", FALSE)]

Policy ==
  [can_review : BOOLEAN, can_moderate : BOOLEAN, can_respond : BOOLEAN,
   owner_key_for : BOOLEAN, moderation : {"pre", "post"},
   one_per_author : BOOLEAN, allow_response : BOOLEAN,
   allow_self_review : BOOLEAN]

ASSUME PolicyAssumption ==
  /\ \A raw \in RawPolicies : Filled(raw) \in Policy
  /\ None \notin RawPolicies
  /\ Registrations \subseteq RawPolicies \cup {None}
  /\ DOMAIN TARGET_TYPES \subseteq Types
  /\ \A type \in DOMAIN TARGET_TYPES :
       TARGET_TYPES[type] \in RawPolicies \cup {None}

ASSUME HostAssumption ==
  /\ TypeOf \in [Targets -> Types]
  /\ NoOwner \in OwnerKeys
  /\ NoOwner \notin Users
  /\ HostReviewers \in [Targets -> SUBSET Users]
  /\ HostModerators \in [Targets -> SUBSET Users]
  /\ HostResponders \in [Targets -> SUBSET Users]
  /\ HostOwners \in [Targets -> SUBSET OwnerKeys]
  /\ HostRaises \in
       [Targets -> SUBSET {"can_review", "can_moderate", "can_respond", "owner_key_for"}]
  /\ Raises \notin BOOLEAN \cup OwnerKeys

-------------------------------------------------------------------------------
(* The registry.  "runtime" is _runtime_target_types, a dict over Types.     *)

\* settings <- runtime; None removes what a lower layer provided.
merged(runtime, type) == get(runtime, type, get(TARGET_TYPES, type, None))

get_target_types(runtime) == {type \in Types : merged(runtime, type) # None}

resolve_policy(runtime, type) == Filled(merged(runtime, type))

\* register_target_type(name, policy): the runtime layer with one more entry.
registered(runtime, name, policy) ==
  [type \in DOMAIN runtime \cup {name} |->
     IF type = name THEN policy ELSE runtime[type]]

-------------------------------------------------------------------------------
(* The gates: what each may answer.  An exception of a callback is not        *)
(* caught here, so it is an outcome of its own.                              *)

\* A callback asked about t gives one of these answers, or raises.
called(callback, t, answers) ==
  answers \cup IF callback \in HostRaises[t] THEN {Raises} ELSE {}

\* An empty owner key owns nothing.
is_owner(owner_key, actor) == owner_key # NoOwner /\ owner_key = actor

\* No callback: anyone may review.
check_can_review(policy, author, t) ==
  IF policy.can_review
    THEN called("can_review", t, {author \in HostReviewers[t]})
    ELSE {TRUE}

\* No callback: nobody moderates.
check_can_moderate(policy, actor, t) ==
  IF policy.can_moderate
    THEN called("can_moderate", t, {actor \in HostModerators[t]})
    ELSE {FALSE}

\* No callback: the stamped owner responds, and nobody else.
check_can_respond(policy, actor, t, owner_key) ==
  IF policy.can_respond
    THEN called("can_respond", t, {actor \in HostResponders[t]})
    ELSE {is_owner(owner_key, actor)}

\* Variant: a type without a resolver answers None where the column holds "".
resolve_owner_key_none(policy, t) ==
  IF policy.owner_key_for THEN called("owner_key_for", t, HostOwners[t]) ELSE {None}

\* The keys resolve_owner_key may return; no resolver, no owner.
resolve_owner_key(policy, t) ==
  IF policy.owner_key_for THEN called("owner_key_for", t, HostOwners[t]) ELSE {NoOwner}
===============================================================================
