--------------------------- MODULE MCReviewRequests ---------------------------
(***************************************************************************)
(* A guest and an account that review one lamp, staff who moderate and     *)
(* answer, and what each run lets them ask for at once.                    *)
(***************************************************************************)
EXTENDS ReviewRequests, TLC

CONSTANTS guest, seller, staff, shop, listing, lamp, desk, r1, r2, r3, q1, q2, q3, q4

ListingType == [t \in Targets |-> listing]
AnyoneReviews == [t \in Targets |-> Users]
StaffModerates == [t \in Targets |-> {staff}]
ShopOwns == [t \in Targets |-> {shop}]
HostMayFail == [t \in Targets |-> {"can_review", "can_moderate"}]
HostNeverFails == [t \in Targets |-> {}]

\* One review for each author, published at once, answered by staff.
Published ==
  [can_review |-> TRUE, can_moderate |-> TRUE, can_respond |-> TRUE,
   one_per_author |-> TRUE]
\* The same, shown when it is approved.
Moderated == Published @@ [moderation |-> "pre"]

\* The host comes to allow several reviews of one author.
Unlimited == [can_moderate |-> TRUE, can_respond |-> TRUE]

PublishedListing == [type \in {listing} |-> Published]
ModeratedListing == [type \in {listing} |-> Moderated]
ThePolicies == {Published, Moderated, Unlimited}
Relaxing == {Unlimited}

-------------------------------------------------------------------------------
review(target, author, rating) ==
  [kind |-> "create", target |-> target, author |-> author, rating |-> rating]
create(author, rating) == review(lamp, author, rating)
moderate(action) == [kind |-> "moderate", actor |-> staff, action |-> action]
verdict(action) == [kind |-> "verdict", action |-> action]
answer == [kind |-> "respond", author |-> staff]
erase(user) == [kind |-> "erase", user |-> user]
merge(from, into) == [kind |-> "merge", guest |-> from, survivor |-> into]

Everything ==
  {create(guest, 4), create(seller, 5), moderate("hide"), verdict("publish"),
   answer, erase(guest), merge(guest, seller)}

\* What waits or is delivered again: a response does neither, and a verdict runs
\* a moderation's statements.
Waiting == Everything \ {answer, moderate("hide")}
ElsewhereToo == Everything \cup {review(desk, guest, 5)}

TwoCreates == {create(guest, 4), create(seller, 5)}
TwoAnswers == {create(guest, 4), answer}
ErasureAndVerdict == {create(guest, 4), verdict("publish"), erase(guest)}

Interchangeable == Permutations(Requests)
===============================================================================
