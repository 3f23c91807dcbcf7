-------------------------------- MODULE Rating --------------------------------
(***************************************************************************)
(* The rating number stapel-reviews owns: mean and count of a set of       *)
(* published reviews, as services.aggregate computes it.                   *)
(*                                                                         *)
(* A published review is the pair <<id, rating>>, so that two reviews with *)
(* the same rating are two members of the set.                             *)
(***************************************************************************)
EXTENDS Integers, FiniteSetsExt

(***************************************************************************)
(* round(avg, 3), in thousandths.  Rounding half up and Python's rounding  *)
(* half to even differ only on exact ties, and an exact tie needs a count  *)
(* divisible by 16: every model here has fewer reviews.                    *)
(***************************************************************************)
Thousandths(sum, count) == (2000 * sum + count) \div (2 * count)

Rated(v) == v[2]

aggregate(shown) ==
  LET count == Cardinality(shown)
  IN  [avg   |-> IF count = 0
                   THEN 0
                   ELSE Thousandths(MapThenSumSet(Rated, shown), count),
       count |-> count]

NoRating == aggregate({})
===============================================================================
