----------------------------- MODULE OwnerBackfill -----------------------------
(***************************************************************************)
(* services.backfill_owner_keys, as manage.py reviews_backfill_owner_keys  *)
(* runs it again and again beside live traffic: pages of distinct targets  *)
(* by keyset, one host call for each, one update for each answer.          *)
(*                                                                         *)
(* The host's resolver may change its mind, and a walk may be killed       *)
(* between any two statements.                                             *)
(***************************************************************************)
EXTENDS Keyset

CONSTANTS
  ReviewIds, Targets, Keys,  \* Keys: the non-empty owner keys
  NoOwner,                   \* the empty owner key; also: no resolver to ask
  Raises,                    \* a resolver that fails
  Unwritten, Erased,
  Options,                   \* what the command may be run with
  limit,                     \* 0: no limit
  MaxKills                   \* bound: walks that are killed

Answers == Keys \cup {NoOwner, Raises}

ASSUME BackfillAssumption ==
  /\ Targets \subseteq Nat \ {0} /\ IsFiniteSet(Targets)
  /\ NoOwner \notin Keys /\ Raises \notin Keys
  /\ \A row \in [target : Targets, owner_key : Keys \cup {NoOwner}] :
       row \notin {Unwritten, Erased}
  /\ Options \subseteq
       [target_type : SUBSET Targets, batch_size : Nat \ {0}, dry_run : BOOLEAN]
  /\ limit \in Nat
  /\ MaxKills \in Nat

VARIABLES
  rows,       \* target and owner_key of each review
  resolver,   \* what the host answers now, for each target
  options,    \* of the walk that runs; its target_type is the type's targets
  pc,         \* the next statement of the walk; "idle" between walks
  page,       \* the targets of the page still to visit
  last,       \* the keyset: the last target of the page
  owner,      \* the answer for the next target, in memory
  targets,    \* stats["targets"]
  asked,      \* history: the answers this walk got
  fresh,      \* history: the reviews written since it began
  kills

walkVars == <<options, pc, page, last, owner, targets, asked>>
bvars == <<rows, resolver, walkVars, fresh, kills>>

Present == {r \in ReviewIds : rows[r] \notin {Unwritten, Erased}}

\* filter(owner_key="")
ownerless == {r \in Present : rows[r].owner_key = NoOwner}

\* ... of the type the walk was given, or of all.
base == {r \in ownerless : rows[r].target \in options.target_type}

BInit ==
  /\ rows \in [ReviewIds -> [target : Targets, owner_key : {NoOwner}] \cup {Unwritten}]
  /\ resolver \in [Targets -> Answers]
  /\ options \in Options
  /\ pc = "idle" /\ page = {} /\ last = 0 /\ owner = NoOwner /\ targets = 0
  /\ asked = [t \in {} |-> NoOwner]
  /\ fresh = {}
  /\ kills = 0

-------------------------------------------------------------------------------
(* The walk.                                                                 *)

begin(given) ==
  /\ pc = "idle"
  /\ options' = given
  /\ pc' = "fetch"
  /\ UNCHANGED <<rows, resolver, page, last, owner, targets, asked, fresh, kills>>

\* What the walk remembered is gone with it.
ended ==
  /\ pc' = "idle" /\ page' = {} /\ last' = 0 /\ owner' = NoOwner /\ targets' = 0
  /\ asked' = [t \in {} |-> NoOwner]
  /\ fresh' = {}

\* The targets of a page are visited in their order.
next == Min(page)

\* Variant: the window is an offset into the targets still to do.
fetch_by_offset ==
  /\ pc = "fetch"
  /\ LET left == {rows[r].target : r \in base}
         window == FirstOf(left, targets + options.batch_size) \ FirstOf(left, targets)
     IN  IF window = {}
           THEN ended
           ELSE /\ pc' = "resolve" /\ page' = window
                /\ UNCHANGED <<last, owner, targets, asked, fresh>>
  /\ UNCHANGED <<rows, resolver, options, kills>>

\* Variant: the keyset includes the target it names.
fetch_inclusive ==
  /\ pc = "fetch"
  /\ LET left == Behind({rows[r].target : r \in base}, last - 1)
     IN  IF left = {}
           THEN ended
           ELSE /\ pc' = "resolve" /\ page' = FirstOf(left, options.batch_size)
                /\ last' = Max(page')
                /\ UNCHANGED <<owner, targets, asked, fresh>>
  /\ UNCHANGED <<rows, resolver, options, kills>>

fetch_page ==
  /\ pc = "fetch"
  /\ LET left == Behind({rows[r].target : r \in base}, last)
     IN  IF left = {}
           THEN ended
           ELSE /\ pc' = "resolve" /\ page' = FirstOf(left, options.batch_size)
                /\ last' = Max(page')
                /\ UNCHANGED <<owner, targets, asked, fresh>>
  /\ UNCHANGED <<rows, resolver, options, kills>>

limitReached(n) == limit # 0 /\ n >= limit

\* The next target of the page, or the next page.
advance ==
  /\ page' = page \ {next}
  /\ pc' = IF page = {next} THEN "fetch" ELSE "resolve"

asks ==
  /\ targets' = targets + 1
  /\ asked' = [t \in DOMAIN asked \cup {next} |->
                 IF t = next THEN resolver[t] ELSE asked[t]]
  /\ UNCHANGED <<last, fresh>>

\* Variant: a target that cannot be answered ends the walk (break).
resolve_or_stop ==
  /\ pc = "resolve"
  /\ IF resolver[next] \in Keys
       THEN asks /\ pc' = "stamp" /\ owner' = resolver[next] /\ UNCHANGED page
       ELSE ended
  /\ UNCHANGED <<rows, resolver, options, kills>>

\* A target that cannot be answered is counted and stepped over (continue): of
\* those the limit is looked at only when the page is done.
resolve_target ==
  /\ pc = "resolve"
  /\ IF resolver[next] \in Keys
       THEN asks /\ pc' = "stamp" /\ owner' = resolver[next] /\ UNCHANGED page
       ELSE IF page = {next} /\ limitReached(targets + 1)
         THEN ended
         ELSE asks /\ advance /\ UNCHANGED owner
  /\ UNCHANGED <<rows, resolver, options, kills>>

\* Variant: the update names the target only.
stampedAll(t) ==
  [r \in ReviewIds |-> IF r \in Present /\ rows[r].target = t
                         THEN [rows[r] EXCEPT !.owner_key = owner] ELSE rows[r]]

\* filter(target_type, target_key, owner_key="").update(owner_key=owner)
stamped(t) ==
  [r \in ReviewIds |-> IF r \in ownerless /\ rows[r].target = t
                         THEN [rows[r] EXCEPT !.owner_key = owner] ELSE rows[r]]

stamp_target ==
  /\ pc = "stamp"
  /\ rows' = IF options.dry_run THEN rows ELSE stamped(next)
  /\ IF limitReached(targets)
       THEN ended
       ELSE advance /\ UNCHANGED <<last, owner, targets, asked, fresh>>
  /\ UNCHANGED <<resolver, options, kills>>

Walk == (\E given \in Options : begin(given)) \/ fetch_page \/ resolve_target \/ stamp_target

killed ==
  /\ pc # "idle" /\ kills < MaxKills
  /\ ended
  /\ kills' = kills + 1
  /\ UNCHANGED <<rows, resolver, options>>

-------------------------------------------------------------------------------
(* The traffic beside it.                                                    *)

\* create_review stamps what the resolver says; one that raises blocks it.
review_written(r, t) ==
  /\ rows[r] = Unwritten
  /\ resolver[t] # Raises
  /\ rows' = [rows EXCEPT ![r] =
       [target |-> t, owner_key |-> IF resolver[t] \in Keys THEN resolver[t] ELSE NoOwner]]
  /\ fresh' = IF pc = "idle" THEN {} ELSE fresh \cup {r}
  /\ UNCHANGED <<walkVars, resolver, kills>>

review_deleted(r) ==
  /\ r \in Present
  /\ rows' = [rows EXCEPT ![r] = Erased]
  /\ UNCHANGED <<walkVars, resolver, fresh, kills>>

host_answers(t, answer) ==
  /\ resolver[t] # answer
  /\ resolver' = [resolver EXCEPT ![t] = answer]
  /\ UNCHANGED <<walkVars, rows, fresh, kills>>

Traffic ==
  \/ \E r \in ReviewIds, t \in Targets : review_written(r, t)
  \/ \E r \in ReviewIds : review_deleted(r)
  \/ \E t \in Targets, answer \in Answers : host_answers(t, answer)

BNext == Walk \/ killed \/ Traffic

BSpec == BInit /\ [][BNext]_bvars

whole(given) == given.target_type = Targets /\ ~given.dry_run

\* An operator runs the command again and again, and now and then over
\* everything and for real.
BFairSpec ==
  /\ BSpec /\ WF_bvars(Walk)
  /\ SF_bvars(\E given \in Options : whole(given) /\ begin(given))

-------------------------------------------------------------------------------
\* The walk's memory is well formed: a page holds a bounded number of targets
\* of the type it walks, and the keyset is the last of them (services.py:323-336).
BTypeOK ==
  /\ rows \in [ReviewIds -> [target : Targets, owner_key : Keys \cup {NoOwner}]
                            \cup {Unwritten, Erased}]
  /\ resolver \in [Targets -> Answers]
  /\ options \in Options
  /\ pc \in {"idle", "fetch", "resolve", "stamp"}
  /\ pc \in {"resolve", "stamp"} =>
       /\ page # {} /\ page \subseteq options.target_type
       /\ Cardinality(page) <= options.batch_size
       /\ Max(page) = last

\* An owner key once stamped is never revised, not by a walk whose answer was
\* overtaken by a review written since (services.py:362-367).
StampedStays ==
  [][\A r \in ReviewIds :
       r \in Present \ ownerless /\ rows'[r] # Erased => rows'[r] = rows[r]]_bvars

\* A walk asks the host once for each target, however many reviews it has and
\* whatever becomes of them, and about no target of another type than it was
\* given (services.py:294-298, 308-310).
AskedOnce ==
  [][resolve_target =>
       next \in options.target_type \ DOMAIN asked]_bvars

\* A walk that ran to its end skipped nobody: a review of its type it found
\* without an owner and leaves without one is of a target the host could not
\* answer for.
NothingSkipped ==
  [][limit = 0 /\ ~options.dry_run /\ pc = "fetch" /\ pc' = "idle" /\ kills' = kills =>
       \A r \in base \ fresh :
         /\ rows[r].target \in DOMAIN asked
         /\ asked[rows[r].target] \notin Keys]_bvars

\* Rerun after a crash or after the resolver is fixed, the backfill reaches
\* every review: none waits for ever while its target has an owner
\* (services.py:291-293, 300-304).
EveryRowStamped ==
  \A r \in ReviewIds :
    r \in ownerless ~> (r \notin ownerless \/ resolver[rows[r].target] \notin Keys)

\* reviews_backfill_owner_keys.py:46-49, --limit: stop after this many distinct
\* candidate targets.
LimitKept == limit # 0 => targets <= limit
===============================================================================
