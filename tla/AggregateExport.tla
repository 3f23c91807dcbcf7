---------------------------- MODULE AggregateExport ----------------------------
(***************************************************************************)
(* services.aggregates_export, paged by a host that rebuilds its           *)
(* projection, beside the live traffic of a RatingLedger (which            *)
(* ReviewStore implements).                                                *)
(*                                                                         *)
(* A page is one query; writes fall between pages.                         *)
(***************************************************************************)
EXTENDS RatingLedger, Keyset

CONSTANTS
  limit,        \* rows of a page, after the clamp
  MaxTime       \* bound: the last millisecond of the model

\* A group of the query has a row: its count is not 0.
ASSUME ExportAssumption ==
  /\ Targets \subseteq Nat \ {0} /\ IsFiniteSet(Targets)
  /\ \A some \in SUBSET (ReviewIds \X (RATING_MIN..RATING_MAX)) :
       some # {} => Aggregate(some).count > 0
  /\ limit \in Nat \ {0} /\ MaxTime \in Nat

VARIABLES
  now,          \* the clock of updated_at and of events, in milliseconds
  updated_at,   \* of each review that shows, when it was published
  pc,           \* "idle", "walking", "done"
  cursor,       \* the last target of the page before; 0: no cursor
  exported,     \* the rows the host has read
  steady        \* history: the targets shown since the walk began

walkVars == <<pc, cursor, exported>>
xvars == <<ledger, now, updated_at, walkVars, steady>>

ShownTargets == {t \in Targets : shown[t] # {}}

XInit ==
  /\ Init
  /\ now = 1
  /\ updated_at = [r \in ReviewIds |-> 0]
  /\ pc = "idle" /\ cursor = 0 /\ exported = {} /\ steady = {}

-------------------------------------------------------------------------------
\* A step of the ledger, at the time now.
traffic ==
  /\ \/ \E r \in ReviewIds, t \in Targets : Publish(r, t)
     \/ \E R \in SUBSET told : \E gone \in SUBSET R :
          erased' = erased \cup gone /\ Withdraw(R)
  /\ shown' # shown
  /\ updated_at' = [r \in ReviewIds |->
       IF r \in told' \ told THEN now ELSE IF r \in told' THEN updated_at[r] ELSE 0]
  /\ steady' = {t \in steady : shown'[t] # {}}
  /\ UNCHANGED <<now, walkVars>>

tick ==
  /\ now < MaxTime
  /\ now' = now + 1
  /\ UNCHANGED <<ledger, updated_at, walkVars, steady>>

begin ==
  /\ pc # "walking"
  /\ pc' = "walking" /\ cursor' = 0 /\ exported' = {}
  /\ steady' = ShownTargets
  /\ UNCHANGED <<ledger, now, updated_at>>

\* Variant: microseconds.
seq_micros(t) == 1000 * Max({updated_at[v[1]] : v \in shown[t]})

\* The newest updated_at among the published reviews of t.
seq(t) == Max({updated_at[v[1]] : v \in shown[t]})

row(t) == [target |-> t, aggregate |-> Aggregate(shown[t]), seq |-> seq(t)]

\* Variant: the cursor counts the rows read, as an OFFSET does.
left_by_offset(position) ==
  ShownTargets \ FirstOf(ShownTargets, Cardinality(exported))

\* Variant: the keyset includes the target the cursor names.
left_inclusive(position) == {t \in ShownTargets : t >= position}

\* The groups behind the cursor.
left_behind(position) == Behind(ShownTargets, position)

export_page ==
  /\ pc = "walking"
  /\ LET groups == left_behind(cursor)
         has_more == Cardinality(groups) > limit
         page == FirstOf(groups, limit)
     IN  /\ exported' = exported \cup {row(t) : t \in page}
         /\ IF has_more
              THEN cursor' = Max(page) /\ UNCHANGED pc
              ELSE pc' = "done" /\ UNCHANGED cursor
  /\ UNCHANGED <<ledger, now, updated_at, steady>>

XNext == traffic \/ tick \/ begin \/ export_page

XSpec == XInit /\ [][XNext]_xvars

\* The host keeps paging.
XFairSpec == XSpec /\ WF_xvars(export_page)

-------------------------------------------------------------------------------
\* The rows read are of known targets, with a rating somebody gave, and no
\* newer than the clock (services.py:436-447).
XTypeOK ==
  /\ \A x \in exported : /\ x.target \in Targets
                         /\ x.aggregate.count > 0
                         /\ x.seq \in 1..now
  /\ cursor \in Targets \cup {0}
  /\ pc \in {"idle", "walking", "done"}

\* However reviews come and go between the pages, no target is in two rows
\* (services.py:411-414).
NoTargetTwice == \A x, y \in exported : x.target = y.target => x = y

\* ... and none that was rated all the while is missing at the end.
NothingMissed == pc = "done" => steady \subseteq {x.target : x \in exported}

\* A snapshot comes to its end, whatever is published behind the cursor.
SnapshotEnds == pc = "walking" ~> pc = "done"
===============================================================================
