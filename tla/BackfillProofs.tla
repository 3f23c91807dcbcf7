---------------------------- MODULE BackfillProofs ----------------------------
(***************************************************************************)
(* What an operator may rely on who runs backfill_owner_keys beside live   *)
(* traffic, kills it and runs it again: proofs of the safety properties of *)
(* OwnerBackfill, for any finite set of targets, any options and any       *)
(* limit.                                                                  *)
(***************************************************************************)
EXTENDS OwnerBackfill, KeysetProofs

-------------------------------------------------------------------------------
(* Pages.                                                                    *)

\* The next target is one of the page, and the first.
LEMMA NextOfPage ==
  ASSUME page \subseteq Targets, page # {}
  PROVE  next \in page /\ \A t \in page : next <= t
<1>1. page \in SUBSET Nat
  BY BackfillAssumption
<1>2. PICK m \in page : \A n \in page : m <= n
  BY <1>1, LeastOf
<1>3. \E x \in page : \A y \in page : x <= y
  BY <1>2
<1> QED
  BY <1>3 DEF next, Min

\* A page of what is left: some of it, up to a last one, with nothing missing
\* before it.
LEMMA PageOfLeft ==
  ASSUME NEW left \in SUBSET Targets, left # {}, NEW size \in Nat \ {0},
         NEW window, window = FirstOf(left, size)
  PROVE  /\ window # {} /\ window \subseteq left
         /\ Cardinality(window) <= size
         /\ Max(window) \in window
         /\ \A t \in left : t \in window <=> t <= Max(window)
<1>1. left \in SUBSET Nat /\ IsFiniteSet(left) /\ Cardinality(left) \in Nat
  BY BackfillAssumption, FS_Subset, FS_CardinalityType
<1>2. window \subseteq left /\ window \in SUBSET Nat /\ IsFiniteSet(window)
      /\ Cardinality(window) \in Nat
  <2>1. window \in SUBSET left
    BY DEF FirstOf
  <2> QED
    BY <1>1, <2>1, FS_Subset, FS_CardinalityType
<1>3. Cardinality(left) <= size => window = left
  BY <1>1, PageOf
<1>4. Cardinality(left) > size =>
        Max(window) \in window /\ \A t \in left : t \in window <=> t <= Max(window)
  BY <1>1, PageOf
<1>5. CASE Cardinality(left) <= size
  <2>1. Max(left) \in left /\ \A t \in left : t <= Max(left)
    BY <1>1, GreatestOf
  <2> QED
    BY <1>3, <1>5, <2>1
<1>6. CASE Cardinality(left) > size
  <2>1. Max(window) \in window /\ \A t \in left : t \in window <=> t <= Max(window)
    BY <1>4, <1>6
  <2>2. Max(window) \in left /\ Cardinality({s \in left : s <= Max(window)}) <= size
    BY <2>1 DEF FirstOf
  <2>3. window = {s \in left : s <= Max(window)}
    BY <1>2, <2>1
  <2> QED
    BY <1>2, <2>1, <2>2, <2>3
<1> QED
  BY <1>1, <1>5, <1>6

\* The page without the target visited ends where it did.
LEMMA RestOfPage ==
  ASSUME page \subseteq Targets, page # {}, page # {next}
  PROVE  /\ page \ {next} # {} /\ Max(page \ {next}) = Max(page)
         /\ Cardinality(page \ {next}) <= Cardinality(page)
<1> DEFINE rest == page \ {next}
<1>1. page \in SUBSET Nat /\ IsFiniteSet(page) /\ \A t \in page : t \in Nat
  BY BackfillAssumption, FS_Subset
<1>2. next \in page /\ \A t \in page : next <= t
  BY NextOfPage
<1>3. rest # {} /\ rest \in SUBSET Nat /\ rest \in SUBSET page
  BY <1>1, <1>2
<1>4. IsFiniteSet(rest) /\ Cardinality(rest) <= Cardinality(page)
  BY <1>1, <1>3, FS_Subset
<1>5. Max(page) \in page /\ \A t \in page : t <= Max(page)
  BY <1>1, GreatestOf
<1>6. Max(rest) \in rest /\ \A t \in rest : t <= Max(rest)
  <2> HIDE DEF rest
  <2> QED
    BY <1>3, <1>4, GreatestOf
<1>7. Max(page) # next
  <2>1. PICK s \in rest : TRUE
    BY <1>3
  <2>2. s \in Nat /\ next \in Nat /\ s # next /\ next <= s /\ s <= Max(page)
    BY <1>1, <1>2, <1>5, <2>1
  <2>3. Max(page) \in Nat
    BY <1>1, <1>5
  <2> QED
    BY <2>2, <2>3
<1>8. Max(page) <= Max(rest) /\ Max(rest) <= Max(page)
  BY <1>5, <1>6, <1>7
<1>9. Max(page) \in Nat /\ Max(rest) \in Nat
  BY <1>1, <1>5, <1>6
<1>10. Max(rest) = Max(page)
  <2> HIDE DEF rest
  <2> QED
    BY <1>8, <1>9
<1> QED
  BY <1>3, <1>4, <1>10

-------------------------------------------------------------------------------
(* The walk.                                                                 *)

\* Where a walk is: everything it asked about lies before what it will visit.
Walks ==
  /\ last \in Targets \cup {0} /\ page \subseteq Targets
  /\ DOMAIN asked \subseteq Targets
  /\ pc \in {"idle", "fetch"} => page = {}
  /\ pc = "idle" => last = 0 /\ DOMAIN asked = {}
  /\ \A t \in DOMAIN asked \cup page : t <= last
  /\ pc = "resolve" => \A t \in DOMAIN asked, s \in page : t < s
  /\ pc = "stamp" => owner \in Keys /\ \A t \in DOMAIN asked : t <= next

WalkInv == BTypeOK /\ Walks

LEMMA WalkInit == BInit => WalkInv
<1> SUFFICES ASSUME BInit PROVE WalkInv
  OBVIOUS
<1>1. rows \in [ReviewIds -> [target : Targets, owner_key : Keys \cup {NoOwner}]
                             \cup {Unwritten, Erased}]
  BY DEF BInit
<1>2. BTypeOK
  BY <1>1 DEF BInit, BTypeOK
<1>3. Walks
  BY DEF BInit, Walks
<1> QED
  BY <1>2, <1>3 DEF WalkInv

\* A present row, and the targets of the candidates.
LEMMA Candidates ==
  ASSUME BTypeOK
  PROVE  /\ \A r \in Present : r \in ReviewIds /\ rows[r] \in [target : Targets, owner_key : Keys \cup {NoOwner}]
         /\ {rows[r].target : r \in base} \subseteq Targets
         /\ {rows[r].target : r \in base} \subseteq options.target_type
         /\ options.batch_size \in Nat \ {0}
         /\ options.target_type \subseteq Targets
BY BackfillAssumption DEF BTypeOK, Present, ownerless, base

LEMMA EndedWalk ==
  ASSUME WalkInv, ended, UNCHANGED <<resolver, options>>,
         rows' \in [ReviewIds -> [target : Targets, owner_key : Keys \cup {NoOwner}]
                                 \cup {Unwritten, Erased}]
  PROVE  WalkInv'
<1>1. pc' = "idle" /\ page' = {} /\ last' = 0 /\ DOMAIN asked' = {}
  BY DEF ended
<1> QED
  BY <1>1 DEF WalkInv, BTypeOK, Walks

LEMMA FetchWalk ==
  ASSUME WalkInv, fetch_page
  PROVE  WalkInv'
<1> DEFINE left == Behind({rows[r].target : r \in base}, last)
<1>1. pc = "fetch" /\ UNCHANGED <<rows, resolver, options>>
  BY DEF fetch_page
<1>2. CASE left = {}
  BY <1>1, <1>2, EndedWalk DEF fetch_page, WalkInv, BTypeOK
<1>3. CASE left # {}
  <2>1. /\ pc' = "resolve" /\ page' = FirstOf(left, options.batch_size)
        /\ last' = Max(page') /\ UNCHANGED <<owner, asked>>
    BY <1>3 DEF fetch_page
  <2>2. left \in SUBSET Targets /\ left \subseteq options.target_type
        /\ \A t \in left : t > last
    BY Candidates DEF WalkInv, Behind
  <2> HIDE DEF left
  <2>3. /\ page' # {} /\ page' \subseteq left
        /\ Cardinality(page') <= options.batch_size
        /\ last' \in page'
        /\ \A t \in left : t \in page' <=> t <= last'
    BY <1>3, <2>1, <2>2, PageOfLeft, Candidates DEF WalkInv
  <2>4. \A t \in Targets \cup {0} : t \in Nat
    BY BackfillAssumption
  <2>5. last \in Nat /\ (\A t \in DOMAIN asked : t \in Nat /\ t <= last)
        /\ \A t \in left : t \in Nat /\ last < t
    BY <2>2, <2>4 DEF WalkInv, Walks
  <2>6. \A t \in DOMAIN asked', s \in page' : t < s
    BY <2>1, <2>3, <2>5
  <2>7. \A t \in DOMAIN asked' \cup page' : t <= last'
    BY <2>1, <2>3, <2>5
  <2>8. BTypeOK'
    BY <1>1, <2>1, <2>2, <2>3 DEF WalkInv, BTypeOK
  <2>9. Walks'
    BY <2>1, <2>2, <2>3, <2>6, <2>7 DEF WalkInv, Walks
  <2> QED
    BY <2>8, <2>9 DEF WalkInv
<1> QED
  BY <1>2, <1>3

\* Going on to the next target of the page, or to the next page.
LEMMA AdvanceWalk ==
  ASSUME WalkInv, pc \in {"resolve", "stamp"}, advance, last' = last,
         DOMAIN asked' \subseteq DOMAIN asked \cup {next},
         UNCHANGED <<resolver, options>>,
         rows' \in [ReviewIds -> [target : Targets, owner_key : Keys \cup {NoOwner}]
                                 \cup {Unwritten, Erased}]
  PROVE  WalkInv'
<1>1. page \subseteq Targets /\ page # {} /\ page \subseteq options.target_type
      /\ Cardinality(page) <= options.batch_size /\ Max(page) = last
  BY DEF WalkInv, BTypeOK, Walks
<1>2. next \in page /\ \A t \in page : next <= t
  BY <1>1, NextOfPage
<1>3. page' = page \ {next} /\ pc' = IF page = {next} THEN "fetch" ELSE "resolve"
  BY DEF advance
<1>4. \A t \in Targets \cup {0} : t \in Nat
  BY BackfillAssumption
<1>5. /\ \A t \in page : t \in Nat
      /\ \A t \in DOMAIN asked : t \in Nat /\ t <= next
  <2>1. \A t \in DOMAIN asked : t \in Nat
    BY <1>4 DEF WalkInv, Walks
  <2>2. \A t \in DOMAIN asked : t <= next
    BY <1>2, <1>4, <1>1, <2>1 DEF WalkInv, Walks
  <2> QED
    BY <1>1, <1>4, <2>1, <2>2
<1>6. \A t \in DOMAIN asked', s \in page' : t < s
  BY <1>2, <1>3, <1>5
<1>7. DOMAIN asked' \subseteq Targets /\ \A t \in DOMAIN asked' \cup page' : t <= last'
  BY <1>1, <1>2, <1>3 DEF WalkInv, Walks
<1>8. CASE page = {next}
  BY <1>1, <1>3, <1>7, <1>8 DEF WalkInv, BTypeOK, Walks
<1>9. CASE page # {next}
  <2>1. page' # {} /\ Max(page') = last /\ Cardinality(page') <= Cardinality(page)
    BY <1>1, <1>3, <1>9, RestOfPage
  <2>2. Cardinality(page') <= options.batch_size
    <3>1. Cardinality(page) \in Nat /\ Cardinality(page') \in Nat /\ options.batch_size \in Nat
      <4>1. IsFiniteSet(page) /\ IsFiniteSet(page')
        BY <1>1, <1>3, BackfillAssumption, FS_Subset
      <4> QED
        BY <4>1, FS_CardinalityType, Candidates DEF WalkInv
    <3> QED
      BY <1>1, <2>1, <3>1
  <2> QED
    BY <1>1, <1>3, <1>6, <1>7, <1>9, <2>1, <2>2 DEF WalkInv, BTypeOK, Walks
<1> QED
  BY <1>8, <1>9

LEMMA ResolveWalk ==
  ASSUME WalkInv, resolve_target
  PROVE  WalkInv'
<1>1. pc = "resolve" /\ UNCHANGED <<rows, resolver, options>>
  BY DEF resolve_target
<1>2. /\ page \subseteq Targets /\ page # {} /\ next \in page
      /\ \A t \in page : next <= t
  BY <1>1, NextOfPage DEF WalkInv, BTypeOK, Walks
<1>3. CASE resolver[next] \in Keys
  <2>1. /\ asks /\ pc' = "stamp" /\ owner' = resolver[next] /\ page' = page
        /\ next' = next
    BY <1>3 DEF resolve_target, next
  <2>2. last' = last /\ DOMAIN asked' = DOMAIN asked \cup {next}
    BY <2>1 DEF asks
  <2>3. \A t \in Targets : t \in Nat
    BY BackfillAssumption
  <2>4. \A t \in DOMAIN asked' : t <= next'
    BY <1>1, <1>2, <2>1, <2>2, <2>3 DEF WalkInv, Walks
  <2> QED
    BY <1>1, <1>2, <1>3, <2>1, <2>2, <2>4 DEF WalkInv, BTypeOK, Walks
<1>4. CASE resolver[next] \notin Keys /\ asks /\ advance
  <2>1. last' = last /\ DOMAIN asked' = DOMAIN asked \cup {next}
    BY <1>4 DEF asks
  <2> QED
    BY <1>1, <1>4, <2>1, AdvanceWalk DEF WalkInv, BTypeOK
<1>5. CASE ended
  BY <1>1, <1>5, EndedWalk DEF WalkInv, BTypeOK
<1> QED
  BY <1>3, <1>4, <1>5 DEF resolve_target

\* Rows with an owner stamped are rows.
LEMMA StampedRows ==
  ASSUME BTypeOK, NEW t, owner \in Keys
  PROVE  stamped(t) \in [ReviewIds -> [target : Targets, owner_key : Keys \cup {NoOwner}]
                                      \cup {Unwritten, Erased}]
<1> SUFFICES ASSUME NEW r \in ReviewIds, r \in ownerless
             PROVE  [rows[r] EXCEPT !.owner_key = owner]
                      \in [target : Targets, owner_key : Keys \cup {NoOwner}]
  BY DEF stamped, BTypeOK
<1>1. rows[r] \in [target : Targets, owner_key : Keys \cup {NoOwner}]
  BY Candidates DEF ownerless
<1> QED
  BY <1>1

LEMMA StampWalk ==
  ASSUME WalkInv, stamp_target
  PROVE  WalkInv'
<1>1. /\ pc = "stamp" /\ UNCHANGED <<resolver, options>>
      /\ rows' = rows \/ rows' = stamped(next)
  BY DEF stamp_target
<1>2. rows' \in [ReviewIds -> [target : Targets, owner_key : Keys \cup {NoOwner}]
                              \cup {Unwritten, Erased}]
  <2>1. owner \in Keys
    BY <1>1 DEF WalkInv, Walks
  <2> QED
    BY <1>1, <2>1, StampedRows DEF WalkInv, BTypeOK
<1>3. CASE ended
  BY <1>1, <1>2, <1>3, EndedWalk
<1>4. CASE advance /\ UNCHANGED <<last, asked>>
  BY <1>1, <1>2, <1>4, AdvanceWalk
<1> QED
  BY <1>3, <1>4 DEF stamp_target

LEMMA TrafficWalk ==
  ASSUME WalkInv, Traffic
  PROVE  WalkInv'
<1> DEFINE Row == [target : Targets, owner_key : Keys \cup {NoOwner}]
<1>1. UNCHANGED walkVars
  BY DEF Traffic, review_written, review_deleted, host_answers
<1>2. rows' \in [ReviewIds -> Row \cup {Unwritten, Erased}]
  BY DEF Traffic, review_written, review_deleted, host_answers, WalkInv, BTypeOK
<1>3. resolver' \in [Targets -> Answers]
  BY DEF Traffic, review_written, review_deleted, host_answers, WalkInv, BTypeOK
<1> HIDE DEF Row
<1> QED
  BY <1>1, <1>2, <1>3 DEF walkVars, WalkInv, BTypeOK, Walks, next, Row

LEMMA WalkStep == WalkInv /\ [BNext]_bvars => WalkInv'
<1> SUFFICES ASSUME WalkInv, [BNext]_bvars PROVE WalkInv'
  OBVIOUS
<1>1. ASSUME NEW given \in Options, begin(given) PROVE WalkInv'
  BY <1>1 DEF begin, WalkInv, BTypeOK, Walks
<1>2. CASE killed
  BY <1>2, EndedWalk DEF killed, WalkInv, BTypeOK
<1>3. CASE UNCHANGED bvars
  BY <1>3 DEF bvars, walkVars, WalkInv, BTypeOK, Walks, next
<1> QED
  BY <1>1, <1>2, <1>3, FetchWalk, ResolveWalk, StampWalk, TrafficWalk DEF BNext, Walk

\* The walk's memory is well formed whatever is written beside it: a page never
\* exceeds the batch size nor leaves the type (services.py:323-336).
THEOREM WalkTypes == BSpec => []BTypeOK
<1>1. WalkInv => BTypeOK
  BY DEF WalkInv
<1> QED
  BY <1>1, WalkInit, WalkStep, PTL DEF BSpec

\* However many reviews a target has, and whatever becomes of them under the
\* walk, the host is asked about it once (services.py:294-298).
THEOREM HostAskedOnce == BSpec => AskedOnce
<1>1. ASSUME WalkInv, resolve_target
      PROVE  next \in options.target_type \ DOMAIN asked
  <2>1. /\ pc = "resolve" /\ page \subseteq Targets /\ page # {}
        /\ page \subseteq options.target_type
    BY <1>1 DEF resolve_target, WalkInv, BTypeOK, Walks
  <2>2. next \in page /\ next \in Nat
    BY <2>1, NextOfPage, BackfillAssumption
  <2>3. ~(next < next)
    BY <2>2
  <2> QED
    BY <1>1, <2>1, <2>2, <2>3 DEF WalkInv, Walks
<1>2. WalkInv /\ [BNext]_bvars =>
        [resolve_target => next \in options.target_type \ DOMAIN asked]_bvars
  BY <1>1
<1> QED
  BY <1>2, WalkInit, WalkStep, PTL DEF BSpec, AskedOnce

-------------------------------------------------------------------------------
(* The rows.                                                                 *)

\* No statement, of the walk or beside it, revises an owner key once stamped:
\* the update names the rows that are still without one, whatever the walk was
\* told in the meantime (services.py:362-367).
THEOREM StampStands == BSpec => StampedStays
<1>1. ASSUME BTypeOK, BNext, NEW r \in Present \ ownerless, rows'[r] # Erased
      PROVE  rows'[r] = rows[r]
  <2>1. r \in ReviewIds /\ rows[r] \notin {Unwritten, Erased}
    BY DEF Present
  <2>2. CASE UNCHANGED rows
    BY <2>2
  <2>3. ASSUME NEW t, rows' = stamped(t) PROVE rows'[r] = rows[r]
    BY <2>1, <2>3 DEF stamped
  <2>4. ASSUME NEW q \in ReviewIds, NEW t \in Targets, review_written(q, t)
        PROVE  rows'[r] = rows[r]
    BY <2>1, <2>4 DEF review_written, BTypeOK
  <2>5. ASSUME NEW q \in ReviewIds, review_deleted(q) PROVE rows'[r] = rows[r]
    BY <1>1, <2>1, <2>5 DEF review_deleted, BTypeOK
  <2>6. ASSUME NEW t \in Targets, NEW answer \in Answers, host_answers(t, answer)
        PROVE  rows'[r] = rows[r]
    BY <2>6 DEF host_answers
  <2>7. CASE Walk
    BY <2>2, <2>3, <2>7 DEF Walk, begin, fetch_page, resolve_target, stamp_target
  <2> QED
    BY <1>1, <2>2, <2>4, <2>5, <2>6, <2>7 DEF BNext, Traffic, killed
<1>2. WalkInv /\ [BNext]_bvars =>
        [\A r \in ReviewIds :
           r \in Present \ ownerless /\ rows'[r] # Erased => rows'[r] = rows[r]]_bvars
  <2> SUFFICES ASSUME WalkInv, BNext, NEW r \in ReviewIds,
                      r \in Present \ ownerless, rows'[r] # Erased
               PROVE  rows'[r] = rows[r]
    OBVIOUS
  <2> QED
    BY <1>1 DEF WalkInv
<1> QED
  BY <1>2, WalkInit, WalkStep, PTL DEF BSpec, StampedStays

\* What a walk leaves behind without an owner: it asked about the target and
\* got none.
Behindhand ==
  pc # "idle" /\ ~options.dry_run =>
    \A r \in base \ fresh :
      LET t == rows[r].target
      IN  t <= last /\ t \notin page => t \in DOMAIN asked /\ asked[t] \notin Keys

\* The walk moved on past the next target with an answer that is no owner.
LEMMA ResolveLeavesNone ==
  ASSUME WalkInv, Behindhand, resolve_target
  PROVE  Behindhand'
<1>1. /\ pc = "resolve" /\ UNCHANGED <<rows, options>>
      /\ base' = base
  BY DEF resolve_target, base, ownerless, Present
<1>2. CASE ended
  BY <1>2 DEF ended, Behindhand
<1>3. CASE ~ended
  <2>1. /\ asks
        /\ \/ page' = page
           \/ resolver[next] \notin Keys /\ page' = page \ {next}
    BY <1>3 DEF resolve_target, advance
  <2>2. /\ last' = last /\ fresh' = fresh
        /\ DOMAIN asked' = DOMAIN asked \cup {next}
        /\ asked'[next] = resolver[next]
        /\ \A t \in DOMAIN asked : t # next => asked'[t] = asked[t]
    BY <2>1 DEF asks
  <2>3. next \in page
    BY <1>1, NextOfPage DEF WalkInv, BTypeOK, Walks
  <2> SUFFICES ASSUME ~options.dry_run, NEW r \in base \ fresh,
                      rows[r].target <= last, rows[r].target \notin page'
               PROVE  /\ rows[r].target \in DOMAIN asked'
                      /\ asked'[rows[r].target] \notin Keys
    BY <1>1, <2>2 DEF Behindhand
  <2>4. CASE rows[r].target = next
    BY <2>1, <2>2, <2>3, <2>4
  <2>5. CASE rows[r].target # next
    BY <1>1, <2>1, <2>2, <2>5 DEF Behindhand
  <2> QED
    BY <2>4, <2>5
<1> QED
  BY <1>2, <1>3

LEMMA StampLeavesNone ==
  ASSUME WalkInv, Behindhand, stamp_target
  PROVE  Behindhand'
<1>1. pc = "stamp" /\ options' = options /\ owner \in Keys
  BY DEF stamp_target, WalkInv, Walks
<1>2. CASE ended
  BY <1>2 DEF ended, Behindhand
<1>3. CASE ~ended
  <2>1. page' = page \ {next} /\ UNCHANGED <<last, asked, fresh>>
    BY <1>3 DEF stamp_target, advance
  <2> SUFFICES ASSUME ~options.dry_run, NEW r \in base' \ fresh,
                      rows'[r].target <= last, rows'[r].target \notin page'
               PROVE  /\ rows'[r].target \in DOMAIN asked
                      /\ asked[rows'[r].target] \notin Keys
    BY <1>1, <2>1 DEF Behindhand
  <2>2. rows' = stamped(next)
    BY DEF stamp_target
  <2>3. r \in ReviewIds /\ rows'[r] \notin {Unwritten, Erased} /\ rows'[r].owner_key = NoOwner
    BY DEF base, ownerless, Present
  <2>4. ASSUME r \in ownerless, rows[r].target = next PROVE FALSE
    <3>1. rows'[r] = [rows[r] EXCEPT !.owner_key = owner]
      BY <2>2, <2>3, <2>4 DEF stamped
    <3>2. rows[r] \in [target : Targets, owner_key : Keys \cup {NoOwner}]
      BY <2>4, Candidates DEF WalkInv, ownerless
    <3> QED
      BY <1>1, <2>3, <3>1, <3>2, BackfillAssumption
  <2>5. rows'[r] = rows[r]
    BY <2>2, <2>3, <2>4 DEF stamped
  <2>6. r \in base
    BY <1>1, <2>3, <2>5 DEF base, ownerless, Present
  <2>7. rows[r].target # next
    BY <2>4, <2>6 DEF base
  <2> QED
    BY <1>1, <2>1, <2>5, <2>6, <2>7 DEF Behindhand
<1> QED
  BY <1>2, <1>3

LEMMA FetchLeavesNone ==
  ASSUME WalkInv, Behindhand, fetch_page
  PROVE  Behindhand'
<1> DEFINE left == Behind({rows[r].target : r \in base}, last)
<1>1. /\ pc = "fetch" /\ page = {} /\ UNCHANGED <<rows, options>>
      /\ base' = base
  BY DEF fetch_page, base, ownerless, Present, WalkInv, Walks
<1>2. CASE ended
  BY <1>2 DEF ended, Behindhand
<1>3. CASE ~ended
  <2>1. /\ left # {} /\ page' = FirstOf(left, options.batch_size)
        /\ last' = Max(page') /\ UNCHANGED <<asked, fresh>>
    BY <1>3 DEF fetch_page
  <2>2. left \in SUBSET Targets /\ \A r \in base : rows[r].target > last => rows[r].target \in left
    BY Candidates DEF WalkInv, Behind
  <2> HIDE DEF left
  <2>3. \A t \in left : t <= last' => t \in page'
    BY <2>1, <2>2, PageOfLeft, Candidates DEF WalkInv
  <2>4. (\A r \in base : rows[r].target \in Nat) /\ last \in Nat
    <3>1. {rows[r].target : r \in base} \subseteq Targets
      BY Candidates DEF WalkInv
    <3>2. \A t \in Targets \cup {0} : t \in Nat
      BY BackfillAssumption
    <3> QED
      BY <3>1, <3>2 DEF WalkInv, Walks
  <2>5. \A r \in base : rows[r].target <= last' /\ rows[r].target \notin page'
          => rows[r].target <= last
    BY <2>2, <2>3, <2>4
  <2> QED
    BY <1>1, <2>1, <2>5 DEF Behindhand
<1> QED
  BY <1>2, <1>3

LEMMA TrafficLeavesNone ==
  ASSUME WalkInv, Behindhand, Traffic
  PROVE  Behindhand'
<1>1. UNCHANGED walkVars
  BY DEF Traffic, review_written, review_deleted, host_answers
<1> SUFFICES ASSUME pc # "idle", ~options.dry_run, NEW r \in base' \ fresh',
                    rows'[r].target <= last, rows'[r].target \notin page
             PROVE  /\ rows'[r].target \in DOMAIN asked
                    /\ asked[rows'[r].target] \notin Keys
  BY <1>1 DEF walkVars, Behindhand
<1>2. r \in ReviewIds /\ rows'[r] \notin {Unwritten, Erased} /\ rows'[r].owner_key = NoOwner
      /\ rows'[r].target \in options.target_type
  BY <1>1 DEF base, ownerless, Present, walkVars
<1>3. rows'[r] = rows[r] /\ r \notin fresh
  <2>1. ASSUME NEW q \in ReviewIds, NEW t \in Targets, review_written(q, t)
        PROVE  rows'[r] = rows[r] /\ r \notin fresh
    BY <2>1 DEF review_written, WalkInv, BTypeOK
  <2>2. ASSUME NEW q \in ReviewIds, review_deleted(q)
        PROVE  rows'[r] = rows[r] /\ r \notin fresh
    BY <1>2, <2>2 DEF review_deleted, WalkInv, BTypeOK
  <2>3. ASSUME NEW t \in Targets, NEW answer \in Answers, host_answers(t, answer)
        PROVE  rows'[r] = rows[r] /\ r \notin fresh
    BY <2>3 DEF host_answers
  <2> QED
    BY <2>1, <2>2, <2>3 DEF Traffic
<1>4. r \in base
  BY <1>2, <1>3 DEF base, ownerless, Present
<1> QED
  BY <1>3, <1>4 DEF Behindhand

LEMMA BehindhandStep == WalkInv /\ Behindhand /\ [BNext]_bvars => Behindhand'
<1> SUFFICES ASSUME WalkInv, Behindhand, [BNext]_bvars PROVE Behindhand'
  OBVIOUS
<1>1. ASSUME NEW given \in Options, begin(given) PROVE Behindhand'
  <2>1. /\ pc = "idle" /\ last' = 0 /\ rows' = rows /\ options' \in Options
    BY <1>1 DEF begin, WalkInv, Walks
  <2>2. \A r \in base' : rows'[r].target \in Nat \ {0}
    BY <2>1, BackfillAssumption, Candidates DEF WalkInv, base, ownerless
  <2>3. \A r \in base' : ~(rows'[r].target <= last')
    BY <2>1, <2>2
  <2> QED
    BY <2>3 DEF Behindhand
<1>2. CASE killed
  BY <1>2 DEF killed, ended, Behindhand
<1>3. CASE UNCHANGED bvars
  BY <1>3 DEF bvars, walkVars, Behindhand, base, ownerless, Present
<1> QED
  BY <1>1, <1>2, <1>3, FetchLeavesNone, ResolveLeavesNone, StampLeavesNone, TrafficLeavesNone
     DEF BNext, Walk

\* A walk without a limit that ran to its end left no review without an owner
\* but those it could not help: written since, or of a target the host named no
\* owner of (services.py:291-304, 323-336).
THEOREM WalkSkipsNone == BSpec => NothingSkipped
<1>1. BInit => Behindhand
  BY DEF BInit, Behindhand
<1>2. ASSUME WalkInv, Behindhand, kills \in Nat, BNext,
             limit = 0, ~options.dry_run, pc = "fetch", pc' = "idle", kills' = kills,
             NEW r \in base \ fresh
      PROVE  rows[r].target \in DOMAIN asked /\ asked[rows[r].target] \notin Keys
  <2>1. fetch_page
    <3>1. ~killed
      BY <1>2 DEF killed
    <3>2. ~Traffic
      BY <1>2 DEF Traffic, review_written, review_deleted, host_answers, walkVars
    <3> QED
      BY <1>2, <3>1, <3>2 DEF BNext, Walk, begin, resolve_target, stamp_target
  <2>2. Behind({rows[q].target : q \in base}, last) = {}
    BY <1>2, <2>1 DEF fetch_page
  <2>3. rows[r].target \in Nat /\ last \in Nat
    BY <1>2, Candidates, BackfillAssumption DEF WalkInv, Walks
  <2>4. rows[r].target <= last
    BY <2>2, <2>3 DEF Behind
  <2>5. rows[r].target \notin page
    BY <1>2 DEF WalkInv, Walks
  <2> QED
    BY <1>2, <2>4, <2>5 DEF Behindhand
<1>3. WalkInv /\ Behindhand /\ kills \in Nat /\ [BNext]_bvars =>
        [limit = 0 /\ ~options.dry_run /\ pc = "fetch" /\ pc' = "idle" /\ kills' = kills =>
           \A r \in base \ fresh :
             /\ rows[r].target \in DOMAIN asked
             /\ asked[rows[r].target] \notin Keys]_bvars
  BY <1>2
<1>4. BInit => kills \in Nat
  BY DEF BInit
<1>5. kills \in Nat /\ [BNext]_bvars => (kills \in Nat)'
  BY DEF BNext, bvars, Walk, begin, fetch_page, resolve_target, stamp_target, killed,
         Traffic, review_written, review_deleted, host_answers
<1> QED
  BY <1>1, <1>3, <1>4, <1>5, WalkInit, WalkStep, BehindhandStep, PTL DEF BSpec, NothingSkipped
===============================================================================
