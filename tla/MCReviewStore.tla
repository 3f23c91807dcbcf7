---------------------------- MODULE MCReviewStore ----------------------------
(***************************************************************************)
(* A small host for ReviewStore: a guest who is merged into an account, a  *)
(* seller who owns the first target, and staff who moderate.               *)
(***************************************************************************)
EXTENDS ReviewReads, TLC

CONSTANTS guest, seller, staff, shop, listing, service,
          lamp, sofa, r1, r2, r3

AllTargets == {lamp, sofa}
OneTarget == {lamp}
ListingType == [t \in Targets |-> listing]

\* Two targets that share their key, told apart by their types only.
OwnTypes == [t \in Targets |-> IF t = lamp THEN listing ELSE service]
SameKey == [t \in Targets |-> 1]

SellerReviews == [t \in Targets |-> {guest, seller}]
StaffModerates == [t \in Targets |-> {staff}]
StaffMayFail == [t \in Targets |-> {"can_moderate"}]
SellerOwnsLamp ==
  [t \in Targets |-> IF t = lamp THEN {seller, NoOwner} ELSE {shop}]

\* One review for each author, published at once.
Strict == [can_review |-> TRUE, can_moderate |-> TRUE, one_per_author |-> TRUE,
           owner_key_for |-> TRUE]
\* As many as one likes, shown when a moderator says so, answered by staff.
Lenient == [moderation |-> "pre", can_respond |-> TRUE, allow_self_review |-> TRUE]

StrictAndLenient == {Strict, Lenient}
StrictTypes == [type \in Types |-> Strict]

\* A type made lenient, strict again, or taken away.
AnyRegistration == {Lenient, Strict, None}

Interchangeable == Permutations(ReviewIds)
==============================================================================
