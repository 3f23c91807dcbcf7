--------------------------- MODULE MCReviewService ---------------------------
(***************************************************************************)
(* One target that is moderated before it shows, reviewed once by each     *)
(* author, a guest who comes to be merged into the seller, and a host that *)
(* may remove the type.                                                    *)
(***************************************************************************)
EXTENDS ReviewService, TLC

CONSTANTS guest, seller, staff, shop, listing, review, lamp, r1, r2

ListingType == [t \in Targets |-> listing]
TheKey == [t \in Targets |-> 1]
BuyersReview == [t \in Targets |-> {guest, seller}]
StaffModerates == [t \in Targets |-> {staff}]
SellerOrShop == [t \in Targets |-> {seller, shop}]
ResolverMayFail == [t \in Targets |-> {"owner_key_for"}]

Moderated ==
  [can_review |-> TRUE, can_moderate |-> TRUE, can_respond |-> TRUE,
   owner_key_for |-> TRUE, one_per_author |-> TRUE, moderation |-> "pre"]
ThePolicies == {Moderated}
ModeratedListing == [type \in {listing} |-> Moderated]
Removal == {None}

-------------------------------------------------------------------------------
verdict_on(type, r, decision) ==
  [kind |-> "moderation.completed", target_type |-> type, target_key |-> r,
   decision |-> decision]
merge_of(from, into) ==
  [kind |-> "user.merged", from_user_id |-> from, into_user_id |-> into]
deletion_of(user) == [kind |-> "user.deleted", user_id |-> user]

\* Verdicts on the review and one about something else with its id, the merge
\* of the guest, the end of an account, and a merge and an end of nobody.
SomeEvents ==
  {verdict_on(review, r1, "approved"), verdict_on(review, r1, "rejected"),
   verdict_on(listing, r1, "rejected"), merge_of(guest, seller),
   merge_of(guest, None), deletion_of(seller), deletion_of(None)}
===============================================================================
