----------------------------- MODULE HostProjection -----------------------------
(***************************************************************************)
(* The rating projection of a host (README.md, "Host rating projection"):  *)
(* it keeps the facts of live traffic and is rebuilt, now and then, from   *)
(* the pages of aggregates_export.  The clock of the facts and the seq of  *)
(* the rows are what tells it which is newer.                              *)
(*                                                                         *)
(* The projection and the bus are external: a fact is keyed by its target, *)
(* so the facts of one target come in order, at least once, and after a    *)
(* crash again from the last one acknowledged.                             *)
(***************************************************************************)
EXTENDS AggregateExport, Sequences

CONSTANT MaxQueue        \* bound: facts that wait

ASSUME QueueAssumption == MaxQueue \in Nat

VARIABLES
  queue,       \* queue[t]: the facts of t not acknowledged yet
  handled,     \* handled[t]: how many of them this consumer has handled
  applied,     \* the rows of this rebuild that were handled
  projection   \* projection[t]: what the host shows of t, and how new it is

hostVars == <<queue, handled, applied, projection>>
hvars == <<xvars, hostVars>>

NoEntry == [aggregate |-> Aggregate({}), time |-> 0]

HInit ==
  /\ XInit
  /\ queue = [t \in Targets |-> <<>>]
  /\ handled = [t \in Targets |-> 0]
  /\ applied = {}
  /\ projection = [t \in Targets |-> NoEntry]

-------------------------------------------------------------------------------
entry(aggregate, time) == [aggregate |-> aggregate, time |-> time]

\* _emit_review_fact, in the transaction of the write.
writes ==
  /\ traffic
  /\ queue' = [t \in Targets |->
       IF shown'[t] # shown[t] THEN Append(queue[t], entry(fact'[t], now))
                               ELSE queue[t]]
  /\ MapThenSumSet(LAMBDA t : Len(queue'[t]), Targets) <= MaxQueue
  /\ UNCHANGED <<handled, applied, projection>>

\* A rebuild derives the whole table again.
rebuild ==
  /\ begin
  /\ applied' = {}
  /\ projection' = [t \in Targets |-> NoEntry]
  /\ UNCHANGED <<queue, handled>>

reads == export_page /\ UNCHANGED hostVars

apply_row(x) ==
  /\ x \in exported \ applied
  /\ applied' = applied \cup {x}
  /\ projection' = IF x.seq > projection[x.target].time
                     THEN [projection EXCEPT ![x.target] = entry(x.aggregate, x.seq)]
                     ELSE projection
  /\ UNCHANGED <<xvars, queue, handled>>

\* A fact of the same millisecond as the row was emitted after the write.
apply_fact(t, f) ==
  projection' = IF f.time >= projection[t].time
                  THEN [projection EXCEPT ![t] = f] ELSE projection

deliver(t) ==
  /\ handled[t] < Len(queue[t])
  /\ apply_fact(t, queue[t][handled[t] + 1])
  /\ handled' = [handled EXCEPT ![t] = @ + 1]
  /\ UNCHANGED <<xvars, queue, applied>>

acknowledge(t) ==
  /\ handled[t] > 0
  /\ queue' = [queue EXCEPT ![t] = SubSeq(@, handled[t] + 1, Len(@))]
  /\ handled' = [handled EXCEPT ![t] = 0]
  /\ UNCHANGED <<xvars, applied, projection>>

crash(t) ==
  /\ handled[t] > 0
  /\ handled' = [handled EXCEPT ![t] = 0]
  /\ UNCHANGED <<xvars, queue, applied, projection>>

HNext ==
  \/ writes \/ rebuild \/ reads
  \/ tick /\ UNCHANGED hostVars
  \/ \E x \in exported : apply_row(x)
  \/ \E t \in Targets : deliver(t) \/ acknowledge(t) \/ crash(t)

\* The host keeps paging.
HSpec == HInit /\ [][HNext]_hvars /\ WF_hvars(reads)

-------------------------------------------------------------------------------
\* When a host has read to the end of a snapshot and of what waits, it shows
\* the live ratings, whichever of rows and facts came first, and however often
\* the facts were delivered (services.py:404-409, 444; MODULE.md:134-139).
Converges ==
  (pc # "walking" /\ exported = applied /\ \A t \in Targets : handled[t] = Len(queue[t]))
    => fact = [t \in Targets |-> projection[t].aggregate]
===============================================================================
