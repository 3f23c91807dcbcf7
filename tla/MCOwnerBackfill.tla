---------------------------- MODULE MCOwnerBackfill ----------------------------
(***************************************************************************)
(* Two reviews of two targets of different types, and a host that knows    *)
(* one owner, another one, none, or fails.                                 *)
(***************************************************************************)
EXTENDS OwnerBackfill

CONSTANTS r1, r2, seller, shop

run(type, size, dry) == [target_type |-> type, batch_size |-> size, dry_run |-> dry]

\* Over everything, page by page or at once; over one type; and for show.
AllRuns ==
  {run(Targets, 1, FALSE), run(Targets, 2, FALSE),
   run({1}, 2, FALSE), run(Targets, 2, TRUE)}

OneRun == {run(Targets, 2, FALSE)}
===============================================================================
