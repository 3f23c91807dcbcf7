---------------------------- MODULE ProjectionProofs ----------------------------
(***************************************************************************)
(* What a host may rely on when it rebuilds its rating projection from the *)
(* pages of aggregates_export: proofs of the invariants of AggregateExport *)
(* and HostProjection, for any finite set of targets, any page size and    *)
(* any number of facts that wait.                                          *)
(***************************************************************************)
EXTENDS HostProjection, KeysetProofs, SequenceTheorems

-------------------------------------------------------------------------------
(* The invariants of the export.                                             *)

\* The ledger as the export reads it: the facts carry the ratings, and whatever
\* shows is told.
Shows ==
  /\ shown \in [Targets -> SUBSET (ReviewIds \X (RATING_MIN..RATING_MAX))]
  /\ told \subseteq ReviewIds
  /\ \A t \in Targets : \A v \in shown[t] : v[1] \in told
  /\ fact = [t \in Targets |-> Aggregate(shown[t])]

\* What shows was published at some time, and not in the future.
Clocks ==
  /\ now \in Nat \ {0}
  /\ updated_at \in [ReviewIds -> Nat]
  /\ \A r \in told : updated_at[r] \in 1..now

\* The rows read so far, of the targets up to the cursor, with every steady one
\* among them.
Pages ==
  /\ steady \subseteq ShownTargets
  /\ pc = "walking" =>
       /\ \A x \in exported : x.target <= cursor
       /\ \A t \in steady : t <= cursor => t \in {x.target : x \in exported}

ExportInv == Shows /\ Clocks /\ XTypeOK /\ NoTargetTwice /\ Pages /\ NothingMissed

\* seq of a target that shows is the time of one of its reviews.
LEMMA SeqOfOne ==
  ASSUME Shows, Clocks, NEW t \in ShownTargets
  PROVE  /\ seq(t) \in 1..now
         /\ \E v \in shown[t] : seq(t) = updated_at[v[1]]
<1> DEFINE times == {updated_at[v[1]] : v \in shown[t]}
<1>1. t \in Targets /\ shown[t] # {}
  BY DEF ShownTargets
<1>2. ASSUME NEW v \in shown[t] PROVE updated_at[v[1]] \in Nat /\ updated_at[v[1]] \in 1..now
  <2>1. v[1] \in told
    BY <1>1 DEF Shows
  <2> QED
    BY <2>1 DEF Clocks
<1>3. times \in SUBSET Nat /\ times # {} /\ \A n \in times : n \in 1..now
  BY <1>1, <1>2
<1>4. IsFiniteSet(times)
  <2> HIDE DEF times
  <2>1. now \in Nat /\ \A n \in times : n <= now
    BY <1>3 DEF Clocks
  <2> QED
    BY <1>3, <2>1, FS_BoundedSetOfNaturals
<1>5. Max(times) \in times
  <2> HIDE DEF times
  <2> QED
    BY <1>3, <1>4, GreatestOf
<1>6. seq(t) \in times
  BY <1>5 DEF seq
<1> QED
  BY <1>3, <1>6

LEMMA ShowsInit == XInit => Shows /\ Clocks
<1> SUFFICES ASSUME XInit PROVE Shows /\ Clocks
  OBVIOUS
<1> USE DEF XInit, Init
<1>1. Shows
  BY DEF Shows
<1>2. Clocks
  BY DEF Clocks
<1> QED
  BY <1>1, <1>2

\* A write of the ledger keeps its facts right; a target whose reviews stay has
\* no new fact.
LEMMA TrafficShows ==
  ASSUME Shows, traffic
  PROVE  Shows'
<1> USE DEF Shows, Tell
<1>1. ASSUME NEW r \in ReviewIds, NEW t \in Targets, Publish(r, t)
      PROVE  Shows'
  <2>1. PICK x \in RATING_MIN..RATING_MAX : shown' = [shown EXCEPT ![t] = @ \cup {<<r, x>>}]
    BY <1>1 DEF Publish
  <2>2. told' = told \cup {r} /\ \A u \in Targets : u # t => shown'[u] = shown[u]
    BY <1>1, <2>1 DEF Publish
  <2>3. fact' = [u \in Targets |-> Aggregate(shown'[u])]
    BY <1>1, <2>2 DEF Publish
  <2>4. shown'[t] = shown[t] \cup {<<r, x>>}
    BY <2>1
  <2>5. shown' \in [Targets -> SUBSET (ReviewIds \X (RATING_MIN..RATING_MAX))]
    BY <2>1, <2>4
  <2> QED
    BY <2>2, <2>3, <2>4, <2>5
<1>2. ASSUME NEW R \in SUBSET told, Withdraw(R)
      PROVE  Shows'
  <2>1. shown' = [t \in Targets |-> {v \in shown[t] : v[1] \notin R}]
    BY <1>2 DEF Withdraw
  <2>2. shown' \in [Targets -> SUBSET (ReviewIds \X (RATING_MIN..RATING_MAX))]
    BY <2>1
  <2>3. told' = told \ R
    BY <1>2 DEF Withdraw
  <2>4. fact' = [u \in Targets |-> Aggregate(shown'[u])]
    <3>1. fact' = [t \in Targets |-> IF shown'[t] # shown[t]
                                       THEN Aggregate(shown'[t]) ELSE fact[t]]
      BY <1>2 DEF Withdraw
    <3> QED
      BY <3>1
  <2> QED
    BY <2>1, <2>2, <2>3, <2>4
<1> QED
  BY <1>1, <1>2 DEF traffic

LEMMA TrafficClocks ==
  ASSUME Shows, Clocks, traffic
  PROVE  Clocks'
<1>1. now' = now /\ updated_at' = [r \in ReviewIds |->
        IF r \in told' \ told THEN now ELSE IF r \in told' THEN updated_at[r] ELSE 0]
  BY DEF traffic
<1>2. told' \subseteq ReviewIds
  BY TrafficShows DEF Shows
<1>3. now \in Nat /\ now \in 1..now
  BY DEF Clocks
<1>4. updated_at' \in [ReviewIds -> Nat]
  BY <1>1, <1>3 DEF Clocks
<1>5. ASSUME NEW r \in told' PROVE updated_at'[r] \in 1..now
  BY <1>1, <1>2, <1>3 DEF Clocks
<1> QED
  BY <1>1, <1>4, <1>5 DEF Clocks

\* What a page adds, and where it leaves the cursor.
LEMMA PageRead ==
  ASSUME XTypeOK, export_page
  PROVE  \E page \in SUBSET left_behind(cursor) :
           /\ exported' = exported \cup {row(t) : t \in page}
           /\ \/ /\ pc' = "walking" /\ cursor' \in page
                 /\ \A t \in left_behind(cursor) : t \in page <=> t <= cursor'
              \/ /\ pc' = "done" /\ cursor' = cursor
                 /\ page = left_behind(cursor)
<1> DEFINE groups == left_behind(cursor)
           page == FirstOf(groups, limit)
<1>1. groups \in SUBSET Nat /\ IsFiniteSet(groups) /\ limit \in Nat \ {0}
  <2>1. groups \in SUBSET Targets
    BY DEF left_behind, Behind, ShownTargets
  <2> HIDE DEF groups
  <2> QED
    BY <2>1, ExportAssumption, FS_Subset
<1>2. /\ pc = "walking"
      /\ exported' = exported \cup {row(t) : t \in page}
      /\ IF Cardinality(groups) > limit
           THEN cursor' = Max(page) /\ UNCHANGED pc
           ELSE pc' = "done" /\ UNCHANGED cursor
  BY DEF export_page
<1>3. page \in SUBSET groups
  BY DEF FirstOf
<1>4. /\ Cardinality(groups) <= limit => page = groups
      /\ Cardinality(groups) > limit =>
           Max(page) \in page /\ \A t \in groups : t \in page <=> t <= Max(page)
  <2> HIDE DEF groups
  <2> QED
    BY <1>1, PageOf
<1>5. Cardinality(groups) > limit \/ Cardinality(groups) <= limit
  <2>1. Cardinality(groups) \in Nat
    <3> HIDE DEF groups
    <3> QED
      BY <1>1, FS_CardinalityType
  <2> HIDE DEF groups
  <2> QED
    BY <1>1, <2>1
<1> HIDE DEF groups, page
<1>6. CASE Cardinality(groups) > limit
  BY <1>2, <1>3, <1>4, <1>6 DEF groups
<1>7. CASE Cardinality(groups) <= limit
  <2>1. ~(Cardinality(groups) > limit)
    <3>1. Cardinality(groups) \in Nat /\ limit \in Nat
      BY <1>1, FS_CardinalityType
    <3> QED
      BY <1>7, <3>1
  <2> QED
    BY <1>2, <1>3, <1>4, <1>7, <2>1 DEF groups
<1> QED
  BY <1>5, <1>6, <1>7

\* A row that is read is of a target that shows, no newer than the clock.
LEMMA RowRead ==
  ASSUME Shows, Clocks, NEW t \in ShownTargets
  PROVE  /\ row(t).target = t /\ row(t).aggregate = fact[t]
         /\ t \in Targets /\ row(t).aggregate.count > 0
         /\ row(t).seq = seq(t) /\ row(t).seq \in 1..now
<1>1. t \in Targets /\ shown[t] # {}
  BY DEF ShownTargets
<1>2. shown[t] \in SUBSET (ReviewIds \X (RATING_MIN..RATING_MAX)) /\ fact[t] = Aggregate(shown[t])
  BY <1>1 DEF Shows
<1>3. Aggregate(shown[t]).count > 0
  BY <1>1, <1>2, ExportAssumption
<1>4. seq(t) \in 1..now
  BY SeqOfOne
<1> QED
  BY <1>1, <1>2, <1>3, <1>4 DEF row

LEMMA TypesStep ==
  ASSUME Shows, Clocks, XTypeOK, XNext
  PROVE  XTypeOK'
<1>1. now \in Nat
  BY DEF Clocks
<1>2. CASE traffic
  BY <1>2 DEF traffic, walkVars, XTypeOK
<1>3. CASE tick
  <2>1. now' = now + 1 /\ UNCHANGED walkVars
    BY <1>3 DEF tick
  <2>2. \A n \in 1..now : n \in 1..now'
    BY <1>1, <2>1
  <2> QED
    BY <2>1, <2>2 DEF walkVars, XTypeOK
<1>4. CASE begin
  BY <1>4 DEF begin, XTypeOK
<1>5. CASE export_page
  <2>1. now' = now
    BY <1>5 DEF export_page
  <2>2. PICK page \in SUBSET left_behind(cursor) :
           /\ exported' = exported \cup {row(t) : t \in page}
           /\ \/ pc' = "walking" /\ cursor' \in page
              \/ pc' = "done" /\ cursor' = cursor
    BY <1>5, PageRead
  <2>3. page \subseteq ShownTargets /\ page \subseteq Targets
    BY DEF left_behind, Behind, ShownTargets
  <2>4. \A t \in page : /\ row(t).target \in Targets /\ row(t).aggregate.count > 0
                        /\ row(t).seq \in 1..now
    BY <2>3, RowRead
  <2>5. \A x \in exported' : /\ x.target \in Targets /\ x.aggregate.count > 0
                             /\ x.seq \in 1..now
    BY <2>2, <2>4 DEF XTypeOK
  <2>6. cursor' \in Targets \cup {0} /\ pc' \in {"idle", "walking", "done"}
    BY <2>2, <2>3 DEF XTypeOK
  <2> QED
    BY <2>1, <2>5, <2>6 DEF XTypeOK
<1> QED
  BY <1>2, <1>3, <1>4, <1>5 DEF XNext

LEMMA PagesStep ==
  ASSUME ExportInv, XNext
  PROVE  NoTargetTwice' /\ Pages' /\ NothingMissed'
<1> USE DEF ExportInv
<1>1. CASE traffic
  <2>1. UNCHANGED walkVars /\ steady' = {t \in steady : shown'[t] # {}}
    BY <1>1 DEF traffic
  <2>2. steady' \subseteq steady /\ steady' \subseteq ShownTargets'
    BY <2>1 DEF Pages, ShownTargets
  <2> QED
    BY <2>1, <2>2 DEF walkVars, Pages, NoTargetTwice, NothingMissed
<1>2. CASE tick
  BY <1>2 DEF tick, walkVars, ledger, Pages, NoTargetTwice, NothingMissed, ShownTargets
<1>3. CASE begin
  <2>1. /\ pc' = "walking" /\ cursor' = 0 /\ exported' = {}
        /\ steady' = ShownTargets /\ UNCHANGED shown
    BY <1>3 DEF begin, ledger
  <2>2. \A t \in steady' : t \in Nat \ {0}
    BY <2>1, ExportAssumption DEF ShownTargets
  <2>3. \A t \in steady' : ~(t <= cursor')
    BY <2>1, <2>2
  <2> QED
    BY <2>1, <2>3 DEF Pages, NoTargetTwice, NothingMissed, ShownTargets
<1>4. CASE export_page
  <2>1. pc = "walking" /\ steady' = steady /\ shown' = shown
    BY <1>4 DEF export_page, ledger
  <2>2. PICK page \in SUBSET left_behind(cursor) :
           /\ exported' = exported \cup {row(t) : t \in page}
           /\ \/ /\ pc' = "walking" /\ cursor' \in page
                 /\ \A t \in left_behind(cursor) : t \in page <=> t <= cursor'
              \/ /\ pc' = "done" /\ cursor' = cursor
                 /\ page = left_behind(cursor)
    BY <1>4, PageRead
  <2>3. page \subseteq ShownTargets /\ \A t \in page : t > cursor
    BY DEF left_behind, Behind
  <2>4. \A t \in page : row(t).target = t
    BY DEF row
  <2>5. \A t \in Targets \cup {0} : t \in Nat
    BY ExportAssumption
  <2>6. cursor \in Nat /\ (\A t \in page : t \in Nat) /\ \A x \in exported : x.target \in Nat
    BY <2>3, <2>5 DEF XTypeOK, ShownTargets
  <2>7. \A x \in exported : x.target <= cursor
    BY <2>1 DEF Pages
  <2>8. NoTargetTwice'
    <3> SUFFICES ASSUME NEW x \in exported', NEW y \in exported', x.target = y.target
                 PROVE  x = y
      BY DEF NoTargetTwice
    <3>1. x \in exported \/ \E t \in page : x = row(t)
      BY <2>2
    <3>2. y \in exported \/ \E t \in page : y = row(t)
      BY <2>2
    <3>3. CASE x \in exported /\ y \in exported
      BY <3>3 DEF NoTargetTwice
    <3>4. CASE x \in exported /\ \E t \in page : y = row(t)
      BY <2>3, <2>4, <2>6, <2>7, <3>4
    <3>5. CASE y \in exported /\ \E t \in page : x = row(t)
      BY <2>3, <2>4, <2>6, <2>7, <3>5
    <3>6. CASE (\E t \in page : x = row(t)) /\ \E t \in page : y = row(t)
      BY <2>4, <3>6
    <3> QED
      BY <3>1, <3>2, <3>3, <3>4, <3>5, <3>6
  <2>9. \A t \in steady : t \in left_behind(cursor) \/ t <= cursor
    <3>1. \A t \in steady : t \in ShownTargets /\ t \in Nat
      BY <2>5 DEF Pages, ShownTargets
    <3> QED
      BY <2>6, <3>1 DEF left_behind, Behind
  <2>10. \A t \in steady : t <= cursor => t \in {x.target : x \in exported'}
    BY <2>1, <2>2 DEF Pages
  <2>11. \A t \in page : t \in {x.target : x \in exported'}
    BY <2>2, <2>4
  <2>12. CASE pc' = "walking"
    <3>1. cursor' \in page /\ \A t \in left_behind(cursor) : t \in page <=> t <= cursor'
      BY <2>2, <2>12
    <3>2. cursor < cursor' /\ cursor' \in Nat
      BY <2>3, <2>6, <3>1
    <3>3. \A x \in exported : x.target <= cursor'
      BY <2>6, <2>7, <3>2
    <3>4. \A t \in page : row(t).target <= cursor'
      BY <2>4, <3>1
    <3>5. \A x \in exported' : x.target <= cursor'
      BY <2>2, <3>3, <3>4
    <3>6. \A t \in steady' : t <= cursor' => t \in {x.target : x \in exported'}
      BY <2>1, <2>9, <2>10, <2>11, <3>1
    <3> QED
      BY <2>1, <2>8, <2>12, <3>5, <3>6 DEF Pages, NothingMissed, ShownTargets
  <2>13. CASE pc' = "done"
    <3>1. page = left_behind(cursor)
      BY <2>2, <2>13
    <3>2. steady' \subseteq {x.target : x \in exported'}
      BY <2>1, <2>9, <2>10, <2>11, <3>1
    <3> QED
      BY <2>1, <2>8, <2>13, <3>2 DEF Pages, NothingMissed, ShownTargets
  <2> QED
    BY <2>2, <2>12, <2>13
<1> QED
  BY <1>1, <1>2, <1>3, <1>4 DEF XNext

LEMMA ExportInit == XInit => ExportInv
<1> SUFFICES ASSUME XInit PROVE ExportInv
  OBVIOUS
<1>1. Shows /\ Clocks
  BY ShowsInit
<1>2. XTypeOK /\ NoTargetTwice /\ Pages /\ NothingMissed
  BY DEF XInit, XTypeOK, NoTargetTwice, Pages, NothingMissed
<1> QED
  BY <1>1, <1>2 DEF ExportInv

LEMMA ExportStep == ExportInv /\ [XNext]_xvars => ExportInv'
<1> SUFFICES ASSUME ExportInv, [XNext]_xvars PROVE ExportInv'
  OBVIOUS
<1>1. CASE XNext
  <2>1. Shows' /\ Clocks'
    <3>1. CASE traffic
      BY <3>1, TrafficShows, TrafficClocks DEF ExportInv
    <3>2. CASE tick
      <4>1. UNCHANGED <<shown, fact, told, updated_at>> /\ now' = now + 1
        BY <3>2 DEF tick, ledger
      <4>2. now' \in Nat \ {0} /\ \A n \in 1..now : n \in 1..now'
        BY <4>1 DEF ExportInv, Clocks
      <4> QED
        BY <4>1, <4>2 DEF ExportInv, Shows, Clocks
    <3>3. CASE begin \/ export_page
      BY <3>3 DEF begin, export_page, ledger, ExportInv, Shows, Clocks
    <3> QED
      BY <1>1, <3>1, <3>2, <3>3 DEF XNext
  <2> QED
    BY <1>1, <2>1, TypesStep, PagesStep DEF ExportInv
<1>2. CASE UNCHANGED xvars
  BY <1>2 DEF xvars, walkVars, ledger, ExportInv, Shows, Clocks, XTypeOK, NoTargetTwice,
              Pages, NothingMissed, ShownTargets
<1> QED
  BY <1>1, <1>2

\* The steps of a host are steps of the export, or none of them.
LEMMA HostStep == [HNext]_hvars => [XNext]_xvars
BY DEF HNext, hvars, writes, rebuild, reads, apply_row, deliver, acknowledge, crash, XNext

LEMMA HostExport == HSpec => []ExportInv
<1>1. HInit => ExportInv
  BY ExportInit DEF HInit
<1>2. ExportInv /\ [HNext]_hvars => ExportInv'
  BY HostStep, ExportStep
<1> QED
  BY <1>1, <1>2, PTL DEF HSpec

\* Whatever is published, hidden or erased between two pages, every row that
\* was read is of a target with a rating, stamped with a time that has come
\* (services.py:436-447).
THEOREM RowsAreRatings == HSpec => []XTypeOK
<1>1. ExportInv => XTypeOK
  BY DEF ExportInv
<1> QED
  BY <1>1, HostExport, PTL

\* The keyset keeps a target out of a second row, however the targets behind
\* and before the cursor come and go (services.py:411-414).
THEOREM KeysetReadsOnce == HSpec => []NoTargetTwice
<1>1. ExportInv => NoTargetTwice
  BY DEF ExportInv
<1> QED
  BY <1>1, HostExport, PTL

\* ... and skips none that kept a rating all the while, whatever the size of a
\* page (services.py:422-434).
THEOREM KeysetSkipsNone == HSpec => []NothingMissed
<1>1. ExportInv => NothingMissed
  BY DEF ExportInv
<1> QED
  BY <1>1, HostExport, PTL

-------------------------------------------------------------------------------
(* The invariant of the host.                                                *)

Ratings == {Aggregate(some) : some \in SUBSET (ReviewIds \X (RATING_MIN..RATING_MAX))}

Entry == [aggregate : Ratings, time : Nat]

HostTypes ==
  /\ queue \in [Targets -> Seq(Entry)]
  /\ handled \in [Targets -> Nat]
  /\ \A t \in Targets : handled[t] <= Len(queue[t])
  /\ projection \in [Targets -> Entry]
  /\ applied \subseteq exported
  /\ \A x \in exported : x.aggregate \in Ratings

\* Nothing the host knows or could read of t is newer than this.
NotAfter(t, time) ==
  /\ projection[t].time <= time
  /\ \A x \in exported : x.target = t => x.seq <= time
  /\ \A v \in shown[t] : updated_at[v[1]] <= time
  /\ \A i \in 1..Len(queue[t]) : queue[t][i].time <= time

lastOf(t) == queue[t][Len(queue[t])]

\* The last fact that waits is the newest thing there is, and the truth.
LastIsFact(t) ==
  Len(queue[t]) > 0 => lastOf(t).aggregate = fact[t] /\ NotAfter(t, lastOf(t).time)

\* The host shows the live rating, and no row will make it show another.
Current(t) ==
  /\ projection[t].aggregate = fact[t]
  /\ \A x \in exported :
       x.target = t => x.seq <= projection[t].time \/ x.aggregate = fact[t]

\* The row of t that will bring it.
Unread(t) == {x \in exported \ applied : x.target = t}

\* Where the live rating of t will come from: the facts that wait, nowhere
\* because it is there, a page to come, or a row that was read.
Converging(t) ==
  \/ handled[t] < Len(queue[t])
  \/ Current(t)
  \/ pc = "walking" /\ t > cursor /\ projection[t] = NoEntry
  \/ projection[t] = NoEntry /\ \E x \in Unread(t) : x.aggregate = fact[t]

Told(t) == NotAfter(t, now) /\ LastIsFact(t) /\ Converging(t)

HostInv == HostTypes /\ \A t \in Targets : Told(t)

\* What a step leaves alone of t.
LEMMA Undisturbed ==
  ASSUME HostTypes, Clocks, NEW t \in Targets, Told(t),
         shown'[t] = shown[t], fact'[t] = fact[t],
         \A v \in shown[t] : updated_at'[v[1]] = updated_at[v[1]],
         \A v \in shown[t] : updated_at[v[1]] \in Nat,
         \A x \in exported : x.seq \in Nat,
         queue'[t] = queue[t], handled'[t] = handled[t], projection'[t] = projection[t],
         exported' = exported, Unread(t)' = Unread(t), pc' = pc, cursor' = cursor,
         now' \in Nat, now <= now'
  PROVE  Told(t)'
<1>1. now \in Nat /\ projection[t].time \in Nat
      /\ \A i \in 1..Len(queue[t]) : queue[t][i].time \in Nat
  <2>1. projection[t] \in Entry /\ queue[t] \in Seq(Entry)
    BY DEF HostTypes
  <2>2. \A i \in 1..Len(queue[t]) : queue[t][i] \in Entry
    BY <2>1, ElementOfSeq
  <2> QED
    BY <2>1, <2>2 DEF Clocks, Entry
<1>2. NotAfter(t, now)'
  BY <1>1 DEF Told, NotAfter
<1>3. LastIsFact(t)'
  BY DEF Told, LastIsFact, NotAfter, lastOf
<1>4. Converging(t)'
  BY DEF Told, Converging, Current
<1> QED
  BY <1>2, <1>3, <1>4 DEF Told

\* The numbers in a host's state.
LEMMA HostNumbers ==
  ASSUME ExportInv, HostTypes, NEW t \in Targets
  PROVE  /\ now \in Nat /\ t \in Nat \ {0} /\ cursor \in Nat
         /\ handled[t] \in Nat /\ Len(queue[t]) \in Nat /\ handled[t] <= Len(queue[t])
         /\ queue[t] \in Seq(Entry)
         /\ projection[t] \in Entry /\ projection[t].time \in Nat
         /\ \A i \in 1..Len(queue[t]) : queue[t][i] \in Entry /\ queue[t][i].time \in Nat
         /\ \A x \in exported : x.seq \in Nat /\ x.seq > 0 /\ x.seq <= now
         /\ \A v \in shown[t] : /\ v[1] \in told
                                /\ updated_at[v[1]] \in Nat /\ updated_at[v[1]] <= now
         /\ fact[t] \in Ratings /\ fact[t] = Aggregate(shown[t])
<1>1. now \in Nat /\ t \in Nat \ {0} /\ cursor \in Nat
  BY ExportAssumption DEF ExportInv, Clocks, XTypeOK
<1>2. /\ handled[t] \in Nat /\ handled[t] <= Len(queue[t])
      /\ queue[t] \in Seq(Entry) /\ projection[t] \in Entry
  BY DEF HostTypes
<1>3. Len(queue[t]) \in Nat /\ \A i \in 1..Len(queue[t]) : queue[t][i] \in Entry
  BY <1>2, ElementOfSeq, LenProperties
<1>4. projection[t].time \in Nat /\ \A i \in 1..Len(queue[t]) : queue[t][i].time \in Nat
  BY <1>2, <1>3 DEF Entry
<1>5. \A x \in exported : x.seq \in Nat /\ x.seq > 0 /\ x.seq <= now
  BY <1>1 DEF ExportInv, XTypeOK
<1>6. \A v \in shown[t] : /\ v[1] \in told
                          /\ updated_at[v[1]] \in Nat /\ updated_at[v[1]] <= now
  BY <1>1 DEF ExportInv, Shows, Clocks
<1>7. fact[t] \in Ratings /\ fact[t] = Aggregate(shown[t])
  BY DEF ExportInv, Shows, Ratings
<1> QED
  BY <1>1, <1>2, <1>3, <1>4, <1>5, <1>6, <1>7

LEMMA WritesHost ==
  ASSUME ExportInv, ExportInv', HostInv, writes
  PROVE  HostInv'
<1> USE DEF HostInv
<1>1. /\ now' = now /\ exported' = exported /\ pc' = pc /\ cursor' = cursor
      /\ handled' = handled /\ applied' = applied /\ projection' = projection
      /\ queue' = [t \in Targets |->
           IF shown'[t] # shown[t] THEN Append(queue[t], entry(fact'[t], now))
                                   ELSE queue[t]]
  BY DEF writes, traffic, walkVars
<1>2. ASSUME NEW t \in Targets PROVE entry(fact'[t], now) \in Entry
  BY DEF entry, Entry, Ratings, ExportInv, Shows, Clocks
<1>3. ASSUME NEW t \in Targets
      PROVE  queue'[t] \in Seq(Entry) /\ handled'[t] <= Len(queue'[t])
  <2>1. CASE shown'[t] # shown[t]
    <3>1. queue'[t] = Append(queue[t], entry(fact'[t], now))
      BY <1>1, <2>1
    <3>2. queue'[t] \in Seq(Entry) /\ Len(queue'[t]) = Len(queue[t]) + 1
      BY <1>2, <3>1, HostNumbers, AppendProperties
    <3> QED
      BY <1>1, <3>2, HostNumbers
  <2>2. CASE shown'[t] = shown[t]
    BY <1>1, <2>2, HostNumbers
  <2> QED
    BY <2>1, <2>2
<1>4. HostTypes'
  BY <1>1, <1>3 DEF HostTypes
<1>5. ASSUME NEW t \in Targets PROVE Told(t)'
  <2>1. CASE shown'[t] = shown[t]
    <3>1. queue'[t] = queue[t] /\ Unread(t)' = Unread(t)
      BY <1>1, <2>1 DEF Unread
    <3>2. fact'[t] = fact[t]
      BY <2>1 DEF ExportInv, Shows
    <3>3. \A v \in shown[t] : v[1] \in told /\ v[1] \in told' /\ v[1] \in ReviewIds
      BY <2>1 DEF ExportInv, Shows
    <3>4. \A v \in shown[t] : updated_at'[v[1]] = updated_at[v[1]]
      BY <3>3 DEF writes, traffic
    <3> QED
      BY <1>1, <2>1, <3>1, <3>2, <3>4, Undisturbed, HostNumbers DEF ExportInv
  <2>2. CASE shown'[t] # shown[t]
    <3>1. queue'[t] = Append(queue[t], entry(fact'[t], now))
      BY <1>1, <2>2
    <3>2. /\ Len(queue'[t]) = Len(queue[t]) + 1
          /\ \A i \in 1..Len(queue[t]) : queue'[t][i] = queue[t][i]
          /\ queue'[t][Len(queue[t]) + 1] = entry(fact'[t], now)
      BY <1>2, <3>1, HostNumbers, AppendProperties
    <3>3. lastOf(t)' = entry(fact'[t], now)
      BY <3>2 DEF lastOf
    <3>4. \A i \in 1..Len(queue'[t]) : queue'[t][i].time <= now
      <4>1. \A i \in 1..Len(queue[t]) : queue[t][i].time <= now
        BY DEF Told, NotAfter
      <4>2. now \in Nat /\ entry(fact'[t], now).time = now
        BY HostNumbers DEF entry
      <4>3. \A i \in 1..Len(queue'[t]) : i \in 1..Len(queue[t]) \/ i = Len(queue[t]) + 1
        BY <3>2, HostNumbers
      <4> QED
        BY <3>2, <4>1, <4>2, <4>3
    <3>5. \A v \in shown'[t] : updated_at'[v[1]] <= now
      BY <1>1 DEF ExportInv, Shows, Clocks
    <3>6. NotAfter(t, now)'
      BY <1>1, <3>4, <3>5 DEF Told, NotAfter
    <3>7. LastIsFact(t)'
      BY <1>1, <3>3, <3>6 DEF LastIsFact, NotAfter, entry
    <3>8. handled'[t] < Len(queue'[t])
      BY <1>1, <3>2, HostNumbers
    <3> QED
      BY <3>6, <3>7, <3>8 DEF Told, Converging
  <2> QED
    BY <2>1, <2>2
<1> QED
  BY <1>4, <1>5

LEMMA RebuildHost ==
  ASSUME ExportInv, ExportInv', HostInv, rebuild
  PROVE  HostInv'
<1> USE DEF HostInv
<1>1. /\ now' = now /\ exported' = {} /\ pc' = "walking" /\ cursor' = 0 /\ applied' = {}
      /\ UNCHANGED <<queue, handled, shown, fact, updated_at>>
      /\ projection' = [t \in Targets |-> NoEntry]
  BY DEF rebuild, begin, ledger
<1>2. NoEntry \in Entry /\ NoEntry.time = 0
  BY DEF NoEntry, Entry, Ratings
<1>3. HostTypes'
  BY <1>1, <1>2 DEF HostTypes
<1>4. ASSUME NEW t \in Targets PROVE Told(t)'
  <2>1. NotAfter(t, now)'
    BY <1>1, <1>2, HostNumbers DEF Told, NotAfter
  <2>2. LastIsFact(t)'
    <3> SUFFICES ASSUME Len(queue[t]) > 0
                 PROVE  lastOf(t).aggregate = fact[t] /\ NotAfter(t, lastOf(t).time)'
      BY <1>1 DEF LastIsFact, lastOf, NotAfter
    <3>1. lastOf(t).aggregate = fact[t] /\ NotAfter(t, lastOf(t).time)
      BY DEF Told, LastIsFact
    <3>2. lastOf(t).time \in Nat
      BY HostNumbers DEF lastOf
    <3> QED
      BY <1>1, <1>2, <3>1, <3>2 DEF NotAfter, lastOf
  <2>3. Converging(t)'
    BY <1>1, HostNumbers DEF Converging
  <2> QED
    BY <2>1, <2>2, <2>3 DEF Told
<1> QED
  BY <1>3, <1>4

LEMMA ReadsHost ==
  ASSUME ExportInv, ExportInv', HostInv, reads
  PROVE  HostInv'
<1> USE DEF HostInv
<1>1. /\ now' = now /\ pc = "walking"
      /\ UNCHANGED <<queue, handled, applied, projection, shown, fact, updated_at>>
  BY DEF reads, export_page, ledger, hostVars
<1>2. PICK page \in SUBSET left_behind(cursor) :
           /\ exported' = exported \cup {row(t) : t \in page}
           /\ \/ /\ pc' = "walking" /\ cursor' \in page
                 /\ \A t \in left_behind(cursor) : t \in page <=> t <= cursor'
              \/ /\ pc' = "done" /\ cursor' = cursor
                 /\ page = left_behind(cursor)
  BY PageRead DEF ExportInv, reads
<1>3. page \subseteq ShownTargets /\ page \subseteq Targets /\ \A t \in page : t > cursor
  BY DEF left_behind, Behind, ShownTargets
<1>4. \A t \in page : row(t).target = t /\ row(t).aggregate = fact[t] /\ row(t).seq = seq(t)
  BY <1>3, RowRead DEF ExportInv
<1>5. HostTypes'
  <2>1. \A t \in page : fact[t] \in Ratings
    BY <1>3, HostNumbers
  <2> QED
    BY <1>1, <1>2, <1>4, <2>1 DEF HostTypes
<1>6. ASSUME NEW t \in Targets PROVE Told(t)'
  <2>1. \A x \in exported' : x.target = t => x \in exported \/ (t \in page /\ x = row(t))
    BY <1>2, <1>4
  <2>2. ASSUME NEW time, NotAfter(t, time) PROVE NotAfter(t, time)'
    <3>1. \A v \in shown[t] : updated_at[v[1]] <= time
      BY <2>2 DEF NotAfter
    <3>2. t \in page => \E v \in shown[t] : seq(t) = updated_at[v[1]]
      BY <1>3, SeqOfOne DEF ExportInv
    <3>3. t \in page => row(t).seq <= time
      BY <1>4, <3>1, <3>2
    <3> QED
      BY <1>1, <2>1, <2>2, <3>3 DEF NotAfter
  <2>3. NotAfter(t, now)'
    BY <1>1, <2>2 DEF Told
  <2>4. LastIsFact(t)'
    <3> SUFFICES ASSUME Len(queue[t]) > 0
                 PROVE  lastOf(t).aggregate = fact[t] /\ NotAfter(t, lastOf(t).time)'
      BY <1>1 DEF LastIsFact, lastOf, NotAfter
    <3>1. lastOf(t).aggregate = fact[t] /\ NotAfter(t, lastOf(t).time)
      BY DEF Told, LastIsFact
    <3>2. NotAfter(t, lastOf(t).time)'
      <4> DEFINE time == lastOf(t).time
      <4>1. NotAfter(t, time)
        BY <3>1
      <4>2. time' = time
        BY <1>1 DEF lastOf
      <4> HIDE DEF time
      <4>3. projection[t].time <= time /\ (\A v \in shown[t] : updated_at[v[1]] <= time)
            /\ (\A i \in 1..Len(queue[t]) : queue[t][i].time <= time)
            /\ \A x \in exported : x.target = t => x.seq <= time
        BY <4>1 DEF NotAfter
      <4>4. t \in page => \E v \in shown[t] : seq(t) = updated_at[v[1]]
        BY <1>3, SeqOfOne DEF ExportInv
      <4>5. \A x \in exported' : x.target = t => x.seq <= time
        BY <1>4, <2>1, <4>3, <4>4
      <4>6. NotAfter(t, time)'
        BY <1>1, <4>2, <4>3, <4>5 DEF NotAfter
      <4> QED
        BY <4>6 DEF time
    <3> QED
      BY <3>1, <3>2
  <2>5. Converging(t)'
    <3>1. CASE handled[t] < Len(queue[t])
      BY <1>1, <3>1 DEF Converging
    <3>2. CASE Current(t)
      BY <1>1, <1>4, <2>1, <3>2 DEF Converging, Current
    <3>3. CASE t > cursor /\ projection[t] = NoEntry
      <4>1. \A x \in exported : x.target # t
        BY <1>1, <3>3, HostNumbers DEF ExportInv, Pages, XTypeOK
      <4>2. CASE t \in page
        <5>1. row(t) \in exported' /\ row(t) \notin exported
          BY <1>2, <1>4, <4>1, <4>2
        <5>2. row(t) \in Unread(t)'
          BY <1>1, <1>4, <4>2, <5>1 DEF Unread, HostTypes
        <5> QED
          BY <1>1, <1>4, <3>3, <4>2, <5>2 DEF Converging
      <4>3. CASE t \notin page /\ t \in left_behind(cursor)
        <5>1. pc' = "walking" /\ cursor' \in page /\ ~(t <= cursor')
          BY <1>2, <4>3
        <5>2. cursor' \in Nat
          BY <1>3, <5>1, ExportAssumption
        <5>3. t > cursor'
          BY <5>1, <5>2, HostNumbers
        <5> QED
          BY <1>1, <3>3, <5>1, <5>3 DEF Converging
      <4>4. CASE t \notin left_behind(cursor)
        <5>1. shown[t] = {}
          BY <3>3, <4>4 DEF left_behind, Behind, ShownTargets
        <5>2. projection[t].aggregate = fact[t]
          <6>1. fact[t] = Aggregate(shown[t])
            BY HostNumbers
          <6>2. fact[t] = Aggregate({})
            BY <5>1, <6>1
          <6> QED
            BY <3>3, <6>2 DEF NoEntry
        <5>3. t \notin page
          BY <4>4
        <5> QED
          BY <1>1, <2>1, <4>1, <5>2, <5>3 DEF Converging, Current
      <4> QED
        BY <4>2, <4>3, <4>4
    <3>4. CASE projection[t] = NoEntry /\ \E x \in Unread(t) : x.aggregate = fact[t]
      <4>1. Unread(t) \subseteq Unread(t)'
        BY <1>1, <1>2 DEF Unread
      <4> QED
        BY <1>1, <3>4, <4>1 DEF Converging
    <3> QED
      BY <3>1, <3>2, <3>3, <3>4 DEF Told, Converging
  <2> QED
    BY <2>3, <2>4, <2>5 DEF Told
<1> QED
  BY <1>5, <1>6

LEMMA RowHost ==
  ASSUME ExportInv, ExportInv', HostInv, NEW x \in exported, apply_row(x)
  PROVE  HostInv'
<1> USE DEF HostInv
<1>1. /\ UNCHANGED <<now, exported, pc, cursor, queue, handled, shown, fact, updated_at>>
      /\ x \notin applied /\ applied' = applied \cup {x}
      /\ projection' = IF x.seq > projection[x.target].time
                         THEN [projection EXCEPT ![x.target] = entry(x.aggregate, x.seq)]
                         ELSE projection
  BY DEF apply_row, xvars, ledger, walkVars
<1>2. x.target \in Targets /\ x.seq \in Nat /\ x.seq > 0 /\ x.seq <= now
  BY HostNumbers DEF ExportInv, XTypeOK
<1>3. entry(x.aggregate, x.seq) \in Entry
  BY <1>2 DEF entry, Entry, HostTypes
<1>4. HostTypes'
  BY <1>1, <1>2, <1>3 DEF HostTypes
<1>5. ASSUME NEW t \in Targets, t # x.target PROVE Told(t)'
  <2>1. projection'[t] = projection[t] /\ Unread(t)' = Unread(t)
    BY <1>1, <1>5 DEF Unread, HostTypes
  <2> QED
    BY <1>1, <1>5, <2>1, HostNumbers, Undisturbed DEF ExportInv
<1>6. ASSUME NEW t \in Targets, t = x.target PROVE Told(t)'
  <2> DEFINE newer == x.seq > projection[t].time
  <2>1. newer => projection'[t] = entry(x.aggregate, x.seq)
    BY <1>1, <1>6 DEF HostTypes
  <2>2. ~newer => projection'[t] = projection[t]
    BY <1>1, <1>6
  <2>3. \A y \in exported : y.target = t => y = x
    BY <1>6 DEF ExportInv, NoTargetTwice
  <2>4. NotAfter(t, now)'
    BY <1>1, <1>2, <2>1, <2>2 DEF Told, NotAfter, entry
  <2>5. LastIsFact(t)'
    <3> SUFFICES ASSUME Len(queue[t]) > 0
                 PROVE  lastOf(t).aggregate = fact[t] /\ NotAfter(t, lastOf(t).time)'
      BY <1>1 DEF LastIsFact, lastOf, NotAfter
    <3>1. lastOf(t).aggregate = fact[t] /\ NotAfter(t, lastOf(t).time)
      BY DEF Told, LastIsFact
    <3>2. x.seq <= lastOf(t).time
      BY <1>6, <3>1 DEF NotAfter
    <3> QED
      BY <1>1, <2>1, <2>2, <3>1, <3>2 DEF NotAfter, lastOf, entry
  <2>6. Converging(t)'
    <3>1. CASE handled[t] < Len(queue[t])
      BY <1>1, <3>1 DEF Converging
    <3>2. CASE Current(t)
      <4>1. CASE newer
        <5>1. x.aggregate = fact[t]
          BY <1>2, <1>6, <3>2, <4>1, HostNumbers DEF Current
        <5> QED
          BY <1>1, <2>1, <2>3, <4>1, <5>1 DEF Converging, Current, entry
      <4>2. CASE ~newer
        BY <1>1, <2>2, <3>2, <4>2 DEF Converging, Current
      <4> QED
        BY <4>1, <4>2
    <3>3. CASE pc = "walking" /\ t > cursor
      BY <1>6, <3>3, HostNumbers DEF ExportInv, Pages, XTypeOK
    <3>4. CASE projection[t] = NoEntry /\ \E y \in Unread(t) : y.aggregate = fact[t]
      <4>1. x.aggregate = fact[t]
        BY <2>3, <3>4 DEF Unread
      <4>2. newer
        BY <1>2, <3>4 DEF NoEntry
      <4> QED
        BY <1>1, <2>1, <2>3, <4>1, <4>2 DEF Converging, Current, entry
    <3> QED
      BY <3>1, <3>2, <3>3, <3>4 DEF Told, Converging
  <2> QED
    BY <2>4, <2>5, <2>6 DEF Told
<1> QED
  BY <1>4, <1>5, <1>6

LEMMA DeliverHost ==
  ASSUME ExportInv, ExportInv', HostInv, NEW u \in Targets, deliver(u)
  PROVE  HostInv'
<1> USE DEF HostInv
<1> DEFINE f == queue[u][handled[u] + 1]
<1>1. /\ UNCHANGED <<now, exported, pc, cursor, queue, applied, shown, fact, updated_at>>
      /\ handled[u] < Len(queue[u]) /\ handled' = [handled EXCEPT ![u] = @ + 1]
      /\ projection' = IF f.time >= projection[u].time
                         THEN [projection EXCEPT ![u] = f] ELSE projection
  BY DEF deliver, apply_fact, xvars, ledger, walkVars
<1>2. handled[u] + 1 \in 1..Len(queue[u]) /\ f \in Entry /\ f.time \in Nat
  BY <1>1, HostNumbers
<1>3. HostTypes'
  <2> HIDE DEF f
  <2>1. projection' \in [Targets -> Entry]
    BY <1>1, <1>2 DEF HostTypes
  <2>2. handled' \in [Targets -> Nat] /\ \A t \in Targets : handled'[t] <= Len(queue[t])
    BY <1>1, <1>2, HostNumbers DEF HostTypes
  <2> QED
    BY <1>1, <2>1, <2>2 DEF HostTypes
<1>4. ASSUME NEW t \in Targets, t # u PROVE Told(t)'
  <2>1. projection'[t] = projection[t] /\ handled'[t] = handled[t] /\ Unread(t)' = Unread(t)
    BY <1>1, <1>4 DEF Unread, HostTypes
  <2> QED
    BY <1>1, <1>4, <2>1, HostNumbers, Undisturbed, SMTT(30) DEF ExportInv
<1>5. Told(u)'
  <2>1. f.time <= now
    BY <1>2 DEF Told, NotAfter
  <2> HIDE DEF f
  <2>2. projection'[u] = f \/ projection'[u] = projection[u]
    BY <1>1 DEF HostTypes
  <2>3. NotAfter(u, now)'
    BY <1>1, <2>1, <2>2 DEF Told, NotAfter
  <2>4. Len(queue[u]) > 0
    BY <1>2, HostNumbers
  <2>5. lastOf(u).aggregate = fact[u] /\ NotAfter(u, lastOf(u).time)
    BY <2>4 DEF Told, LastIsFact
  <2>6. f.time <= lastOf(u).time
    BY <1>2, <2>5 DEF NotAfter, f
  <2>7. LastIsFact(u)'
    BY <1>1, <2>2, <2>5, <2>6 DEF LastIsFact, lastOf, NotAfter
  <2>8. Converging(u)'
    <3>1. CASE handled[u] + 1 < Len(queue[u])
      BY <1>1, <3>1 DEF Converging, HostTypes
    <3>2. CASE handled[u] + 1 = Len(queue[u])
      <4>1. f = lastOf(u)
        BY <3>2 DEF f, lastOf
      <4>2. f.time >= projection[u].time
        BY <1>2, <2>5, <4>1, HostNumbers DEF NotAfter
      <4>3. projection'[u] = f
        BY <1>1, <4>2 DEF HostTypes
      <4>4. \A x \in exported : x.target = u => x.seq <= f.time
        BY <2>5, <4>1 DEF NotAfter
      <4> QED
        BY <1>1, <2>5, <4>1, <4>3, <4>4 DEF Converging, Current
    <3> QED
      BY <1>2, <3>1, <3>2, HostNumbers
  <2> QED
    BY <2>3, <2>7, <2>8 DEF Told
<1> QED
  BY <1>3, <1>4, <1>5

LEMMA AcknowledgeHost ==
  ASSUME ExportInv, ExportInv', HostInv, NEW u \in Targets, acknowledge(u)
  PROVE  HostInv'
<1> USE DEF HostInv
<1> DEFINE left == SubSeq(queue[u], handled[u] + 1, Len(queue[u]))
<1>1. /\ UNCHANGED <<now, exported, pc, cursor, applied, projection, shown, fact, updated_at>>
      /\ handled[u] > 0 /\ handled' = [handled EXCEPT ![u] = 0]
      /\ queue' = [queue EXCEPT ![u] = left]
  BY DEF acknowledge, xvars, ledger, walkVars
<1>2. /\ left \in Seq(Entry) /\ Len(left) = Len(queue[u]) - handled[u]
      /\ \A i \in 1..Len(left) : left[i] = queue[u][handled[u] + i]
  <2>0. /\ handled[u] \in Nat /\ Len(queue[u]) \in Nat /\ handled[u] <= Len(queue[u])
        /\ \A i \in 1..Len(queue[u]) : queue[u][i] \in Entry
    BY HostNumbers
  <2>1. \A i \in handled[u] + 1..Len(queue[u]) : queue[u][i] \in Entry
    <3> SUFFICES ASSUME NEW i \in Int, handled[u] + 1 <= i, i <= Len(queue[u])
                 PROVE  queue[u][i] \in Entry
      BY <2>0
    <3>1. i \in 1..Len(queue[u])
      BY <2>0
    <3> QED
      BY <2>0, <3>1
  <2>2. /\ handled[u] + 1 \in Int /\ Len(queue[u]) \in Int
        /\ Len(queue[u]) - (handled[u] + 1) + 1 = Len(queue[u]) - handled[u]
        /\ handled[u] \in Nat /\ handled[u] <= Len(queue[u])
    BY <2>0
  <2>3. /\ left \in Seq(Entry)
        /\ Len(left) = IF handled[u] + 1 <= Len(queue[u])
                         THEN Len(queue[u]) - (handled[u] + 1) + 1 ELSE 0
        /\ \A i \in 1..Len(queue[u]) - (handled[u] + 1) + 1 :
             left[i] = queue[u][handled[u] + 1 + i - 1]
    BY <2>1, <2>2, SubSeqProperties, SMTT(30)
  <2> HIDE DEF left
  <2>4. Len(left) = Len(queue[u]) - handled[u]
    BY <2>2, <2>3
  <2>5. ASSUME NEW i \in 1..Len(left) PROVE left[i] = queue[u][handled[u] + i]
    <3>1. i \in Int /\ handled[u] + 1 + i - 1 = handled[u] + i
      BY <2>2
    <3> QED
      BY <2>2, <2>3, <2>4, <3>1
  <2> QED
    BY <2>3, <2>4, <2>5
<1> HIDE DEF left
<1>3. queue'[u] = left /\ handled'[u] = 0
  BY <1>1 DEF HostTypes
<1>4. HostTypes'
  <2>1. \A t \in Targets : t # u => queue'[t] = queue[t] /\ handled'[t] = handled[t]
    BY <1>1 DEF HostTypes
  <2>2. Len(left) >= 0
    BY <1>2, HostNumbers
  <2>3. queue' \in [Targets -> Seq(Entry)] /\ handled' \in [Targets -> Nat]
    BY <1>1, <1>2 DEF HostTypes
  <2> QED
    BY <1>1, <1>3, <2>1, <2>2, <2>3 DEF HostTypes
<1>5. ASSUME NEW t \in Targets, t # u PROVE Told(t)'
  <2>1. queue'[t] = queue[t] /\ handled'[t] = handled[t] /\ Unread(t)' = Unread(t)
    BY <1>1, <1>5 DEF Unread, HostTypes
  <2> QED
    BY <1>1, <1>5, <2>1, HostNumbers, Undisturbed DEF ExportInv
<1>6. Told(u)'
  <2>1. \A i \in 1..Len(left) : handled[u] + i \in 1..Len(queue[u])
    BY <1>2, HostNumbers
  <2>2. NotAfter(u, now)'
    BY <1>1, <1>2, <1>3, <2>1 DEF Told, NotAfter
  <2>3. LastIsFact(u)'
    <3> SUFFICES ASSUME Len(left) > 0 PROVE lastOf(u)'.aggregate = fact[u] /\ NotAfter(u, lastOf(u).time)'
      BY <1>1, <1>3 DEF LastIsFact
    <3>1. Len(queue[u]) > 0 /\ Len(left) \in 1..Len(left)
          /\ handled[u] + Len(left) = Len(queue[u])
      BY <1>2, HostNumbers
    <3>2. lastOf(u)' = lastOf(u)
      BY <1>2, <1>3, <3>1 DEF lastOf
    <3>3. lastOf(u).aggregate = fact[u] /\ NotAfter(u, lastOf(u).time)
      BY <3>1 DEF Told, LastIsFact
    <3> QED
      BY <1>1, <1>2, <1>3, <2>1, <3>2, <3>3 DEF NotAfter
  <2>4. Converging(u)'
    <3>1. CASE handled[u] < Len(queue[u])
      <4>1. 0 < Len(left)
        BY <1>2, <3>1, HostNumbers
      <4> QED
        BY <1>3, <4>1 DEF Converging
    <3> QED
      BY <1>1, <3>1 DEF Told, Converging, Current, Unread
  <2> QED
    BY <2>2, <2>3, <2>4 DEF Told
<1> QED
  BY <1>4, <1>5, <1>6

LEMMA CrashHost ==
  ASSUME ExportInv, ExportInv', HostInv, NEW u \in Targets, crash(u)
  PROVE  HostInv'
<1> USE DEF HostInv
<1>1. /\ UNCHANGED <<now, exported, pc, cursor, queue, applied, projection, shown, fact,
                     updated_at>>
      /\ handled[u] > 0 /\ handled' = [handled EXCEPT ![u] = 0]
  BY DEF crash, xvars, ledger, walkVars
<1>2. handled'[u] = 0 /\ 0 < Len(queue[u])
  BY <1>1, HostNumbers DEF HostTypes
<1>3. HostTypes'
  <2>1. \A t \in Targets : handled'[t] <= Len(queue[t])
    BY <1>1, <1>2, HostNumbers DEF HostTypes
  <2> QED
    BY <1>1, <2>1 DEF HostTypes
<1>4. ASSUME NEW t \in Targets, t # u PROVE Told(t)'
  <2>1. handled'[t] = handled[t] /\ Unread(t)' = Unread(t)
    BY <1>1, <1>4 DEF Unread, HostTypes
  <2> QED
    BY <1>1, <1>4, <2>1, HostNumbers, Undisturbed, SMTT(30) DEF ExportInv
<1>5. Told(u)'
  BY <1>1, <1>2 DEF Told, Converging, LastIsFact, lastOf, NotAfter
<1> QED
  BY <1>3, <1>4, <1>5

LEMMA HostInvInit == HInit => HostInv
<1> SUFFICES ASSUME HInit PROVE HostInv
  OBVIOUS
<1>1. NoEntry \in Entry /\ NoEntry.time = 0 /\ NoEntry.aggregate = Aggregate({})
  BY DEF NoEntry, Entry, Ratings
<1>2. /\ exported = {} /\ applied = {} /\ now = 1
      /\ shown = [t \in Targets |-> {}] /\ fact = [t \in Targets |-> Aggregate({})]
      /\ queue = [t \in Targets |-> <<>>] /\ handled = [t \in Targets |-> 0]
      /\ projection = [t \in Targets |-> NoEntry]
  BY DEF HInit, XInit, Init
<1>3. <<>> \in Seq(Entry) /\ Len(<<>>) = 0
  BY EmptySeq
<1>4. HostTypes
  BY <1>1, <1>2, <1>3 DEF HostTypes
<1>5. ASSUME NEW t \in Targets PROVE Told(t)
  BY <1>1, <1>2, <1>3 DEF Told, NotAfter, LastIsFact, Converging, Current
<1> QED
  BY <1>4, <1>5 DEF HostInv

LEMMA HostInvStep == ExportInv /\ ExportInv' /\ HostInv /\ [HNext]_hvars => HostInv'
<1> SUFFICES ASSUME ExportInv, ExportInv', HostInv, [HNext]_hvars PROVE HostInv'
  OBVIOUS
<1>1. CASE tick /\ UNCHANGED hostVars
  <2>1. /\ now' = now + 1
        /\ UNCHANGED <<exported, pc, cursor, hostVars, shown, fact, updated_at>>
    BY <1>1 DEF tick, ledger, walkVars
  <2>2. HostTypes'
    BY <2>1 DEF HostInv, HostTypes, hostVars
  <2>3. ASSUME NEW t \in Targets PROVE Told(t)'
    <3>1. Unread(t)' = Unread(t) /\ UNCHANGED <<queue, handled, projection>>
      BY <2>1 DEF Unread, hostVars
    <3>2. now' \in Nat /\ now <= now'
      BY <2>1, HostNumbers DEF HostInv
    <3> QED
      BY <2>1, <3>1, <3>2, HostNumbers, Undisturbed DEF HostInv, ExportInv
  <2> QED
    BY <2>2, <2>3 DEF HostInv
<1>2. CASE UNCHANGED hvars
  BY <1>2 DEF hvars, xvars, walkVars, ledger, hostVars, HostInv, HostTypes, Told, NotAfter,
              LastIsFact, lastOf, Converging, Current, Unread
<1> QED
  BY <1>1, <1>2, WritesHost, RebuildHost, ReadsHost, RowHost, DeliverHost, AcknowledgeHost,
     CrashHost DEF HNext

\* A host that has read a snapshot to its end and handled what waits shows the
\* live rating of every target: whatever was written between the pages, whether
\* the facts came before the rows or after them, once or again after a crash,
\* and whichever of them fell into one millisecond (services.py:404-409, 444).
THEOREM HostConverges == HSpec => []Converges
<1>1. HInit => ExportInv /\ HostInv
  BY ExportInit, HostInvInit DEF HInit
<1>2. ExportInv /\ HostInv /\ [HNext]_hvars => ExportInv' /\ HostInv'
  BY HostStep, ExportStep, HostInvStep
<1>3. ExportInv /\ HostInv => Converges
  <2> SUFFICES ASSUME ExportInv, HostInv, pc # "walking", exported = applied,
                      \A t \in Targets : handled[t] = Len(queue[t])
               PROVE  fact = [t \in Targets |-> projection[t].aggregate]
    BY DEF Converges
  <2>1. ASSUME NEW t \in Targets PROVE fact[t] = projection[t].aggregate
    <3>1. ~(handled[t] < Len(queue[t])) /\ Unread(t) = {}
      BY HostNumbers DEF HostInv, Unread
    <3> QED
      BY <3>1 DEF HostInv, Told, Converging, Current
  <2> QED
    BY <2>1 DEF ExportInv, Shows
<1> QED
  BY <1>1, <1>2, <1>3, PTL DEF HSpec
===============================================================================
