--------------------------- MODULE MCHostProjection ---------------------------
(***************************************************************************)
(* Two targets and two reviews.                                            *)
(***************************************************************************)
EXTENDS HostProjection

CONSTANTS r1, r2

R == INSTANCE Rating

TheAggregate(reviews) == R!aggregate(reviews)
===============================================================================
