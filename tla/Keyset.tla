-------------------------------- MODULE Keyset --------------------------------
(***************************************************************************)
(* Walking a set of targets in pages, each behind the last target of the   *)
(* one before (services.py:323-336 and 422-434).  A target is a number;    *)
(* their order is the order of (target_type, target_key).                  *)
(***************************************************************************)
EXTENDS Integers, FiniteSetsExt

\* Those behind the cursor, or the keyset.
Behind(targets, cursor) == {t \in targets : t > cursor}

\* The first n of them in their order.
FirstOf(targets, n) ==
  {t \in targets : Cardinality({s \in targets : s <= t}) <= n}
===============================================================================
