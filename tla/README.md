# Specifications of stapel-reviews

TLA+ modules that model the review engine of `stapel-reviews`, TLC
configurations that check them on small instances, and TLAPS proofs of the
results that hold for every instance.

    tlc -config ReviewStore.cfg MCReviewStore.tla     # check a run
    tlapm ReviewStoreProofs.tla                       # check the proofs

## The system

stapel-reviews is a Django app. It stores reviews of opaque targets
`(target_type, target_key)`, owns the rating of each target, and tells a host
of every review that enters or leaves a public rating.

| Part | State it keeps | Operations | What makes it correct |
|---|---|---|---|
| Registry (`registry.py`, `conf.py`) | `_runtime_target_types` over the settings' `TARGET_TYPES` | `register_target_type`, `resolve_policy`, the gates `check_can_*`, `resolve_owner_key` | a removed type is unknown to everyone; gates fail closed; a callback that raises is no answer |
| Review engine (`services.py`, `models.py`) | the `Review` and `Response` tables | `create_review`, `moderate_review`, `apply_verdict`, `respond` | one flagged review for each author and target; one response; a fact only when a status changes |
| Facts (`_emit_review_fact`) | nothing here: the outbox and the host's projection | `reviews.review.published`, `reviews.review.hidden`, each with the fresh aggregate | the last fact of a target carries the live aggregate; the last fact of a review says whether it shows |
| Account events (`actions.py`) | the same tables | `user.merged`, `user.deleted`, `moderation.completed`, each delivered at least once | nothing of a merged account is lost or dangles; a merge keeps what `create_review` refuses to break; replays change nothing in the end |
| GDPR (`gdpr.py`) | the same tables | `delete`, `export` | what is erased is gone, its responses too, and told |
| Backfill (`backfill_owner_keys`, the management command) | a keyset cursor in memory | a walk over targets without an owner key | asks once for each target, skips nobody, revises nothing, can be rerun |
| Export (`aggregates_export`) | an opaque cursor the host holds | one page | no target twice, none missing, rows that rank correctly against live facts |
| HTTP (`views.py`, `errors.py`) | none | the POST views with their walls and answers, the lists, the aggregate | the services' checks in their order let nothing through that the store refuses; a server error is the host's or a removed type's |
| Comm functions (`functions.py`) | none | batch aggregates, export, single rows | the same answers as the facts |

**How they meet.** Requests and event deliveries run the service functions in
their own threads or processes over one database; nothing is locked explicitly.
What orders them is the database: row locks, the partial unique constraint
`rev_one_per_author`, the OneToOne column of `Response`, and foreign keys
checked at commit. `emit` writes to an outbox in the same transaction, so a
fact leaves exactly when its transaction commits. An event handler that raises
is delivered again, and so is what a consumer handled but had not acknowledged
when it stopped. User rows are a projection of stapel-auth: they land when
they land, and are deleted after `user.deleted` or `user.merged` was handled.

**What is hard.** Aggregates computed inside concurrent transactions; statuses
compared on instances fetched earlier; a list and a delete in two statements;
a merge that drops, reflags and moves reviews under a policy that may have
changed since they were written; verdicts, merges and erasures replayed over
what happened since; walks by keyset beside writes; snapshots that race with
the facts. `PROJECT.json` lists each at its line.

## The modules

| Module | Models | Uses |
|---|---|---|
| `Rating` | `services.aggregate`: mean (in thousandths) and count of a set of published reviews | |
| `ReviewPolicy` | `registry.py`. Policies are records with missing keys; what a host callback answers is a constant (`HostReviewers`, `HostModerators`, `HostResponders`, `HostOwners`), and so is which of them may raise about a target (`HostRaises`) | |
| `ReviewStore` | every operation on the tables as one atomic action, with its facts | `ReviewPolicy`, `Rating` |
| `ReviewReads` | the reads of the same tables: batch aggregates by target and by owner, the GET views and whom a list shows more than what is published, the GDPR export | `ReviewStore` |
| `ReviewService` | the store as callers and other services meet it: the POST views, the consumer of events, crashes and replays | `ReviewReads` |
| `RatingLedger` | the abstract promise to a host: reviews are published one at a time, withdrawn in sets, each change told with the rating of what is shown | |
| `ReviewRequests` | the same operations as the statements they consist of, interleaved | `ReviewStore` |
| `Keyset` | pages by keyset: the targets behind a cursor, the first so many of them | |
| `OwnerBackfill` | the backfill's walk beside traffic, kills and reruns | `Keyset` |
| `AggregateExport` | the export's pages beside the ledger's steps | `RatingLedger`, `Keyset` |
| `HostProjection` | a host that takes facts and snapshot rows as they come | `AggregateExport` |
| `MC*` | the small instances the configurations use | |
| `ReviewStoreProofs`, `LedgerProofs`, `ReadProofs`, `ServiceProofs`, `RequestProofs` | theorems on the store and what is built on it | TLAPS |
| `KeysetProofs`, `BackfillProofs`, `ProjectionProofs` | theorems on the walks | TLAPS |

The levels are connected. `ReviewService` implements `ReviewStore`
(`KeepsStore`, proved), `ReviewStore` implements `RatingLedger` (`KeepsLedger`,
proved), and `HostProjection` lives on any behaviour of `RatingLedger`.
`ReviewRequests` shows which of the store's promises survive when operations
are not atomic.

### ReviewStore

`reviews[r]` is a row, `Unwritten` or `Erased`; `responses[r]` the author of the
response to `r`. Names of operators are those of the Python functions. A
refusal raises before anything is written, so it is a disabled action. `told`
and `fact` are what a host knows: `told` the reviews whose last fact was
`published`, `fact[t]` the aggregate in the last fact keyed by `t`.

Abstractions: bodies, timestamps and the `reason` of a fact are left out; the
handlers' parsing of malformed payloads returns before any read. An exception of
a host callback is not caught (`registry.py:124-143`, `164-168`): a gate then
yields `Raises` instead of an answer, the operation is a disabled action here, and
a 500 in `ReviewService` and `ReviewRequests`. Review ids are drawn once. `""` is
`NoOwner`. `round(avg, 3)` is computed in thousandths, half up; Python rounds
half to even, which differs only for an exact tie, and that needs 16 reviews.

`FactsMatchAggregate`, `FactsTellVisibility` and `KeepsLedger` are stated of the
facts in commit order: the bus delivers the facts of one key in order.

### ReviewReads

The reads change nothing, so they are operators on the tables, and their
properties relate them to `fact` and `told`: what a host reads on demand is what
a host that only listens has kept. `get_reviews` is the list view with any
combination of its parameters (`Queries`), `get_aggregate` the rating view. A
batch read is a function whose domain are the groups with a published review:
an absent key is outside its domain. A list is a set of rows; its order and
pages are stapel-core's. A read that asks the host may be a 500, so `get_reviews`
yields the set of its possible answers. `OwnerListsMatch` is the part of `OwnerReadsAgree` that
is about one owner at a time.

### ReviewService

`create_raises`, `moderate_raises` and `respond_raises` are the services' checks
in the order they come, each yielding the exception it raises; `post_review`,
`post_moderate` and `post_respond` are the views: what they check first, and the
answer to each exception, 500 to one no `except` names. A granted request writes;
every other leaves the tables alone. A callback that raises is `"HostError"`, which
no `except` names. `ServerErrorsAreTheHosts` evaluates the views on everything a
caller may send in every state.

The comm layer is external: events come in order and at least once. `inbox` are
those not acknowledged, `handled` how many of them the running consumer has
dealt with. `crash` sets `handled` back, so that everything up to then is
delivered again, over whatever happened since. `seen`, `ruled` and `closed` are
history: how far any consumer ever got, what the platform last decided on a
review, and which accounts were announced as ended. A closed account does not
log in and has no request in flight, and its user row goes once everything said
of it has been heard. The deletion of the row cascades (`cascade`) to whatever is
left of the account, untold; the store has that step only where nothing is left
(`user_row_deleted`), so `KeepsStore` fails if a handler leaves something.

That events come in order is an assumption about the bus: the repository states
at-least-once delivery only. `VerdictStands`, `ClosedAccountsEmpty` and
`EveryEventHandled` rest on it.
Moderation decides on reviews that were written; events that name nobody, or
something else than a review, come too.

`VerdictStands` is about a real tension: verdicts are told apart only by the
status a review has, so an older one delivered again does flip it
(`ReplayedVerdict` below). What holds is that the newer one comes after it.

### ReviewRequests

A request has a program counter, the input it came with, what it holds in
memory (`ctx`), and the writes and facts of its open transaction (`txn`), which
reach the tables with `commit`. Statements read the committed tables under the
transaction's own writes: READ COMMITTED, Django's default on PostgreSQL.

* A writer of a row, or of a key of a unique constraint, waits while another
  open transaction has written it. A statement takes all of its rows at once:
  deadlocks over the order of rows inside a statement, and the transactions the
  database would fail to end them, are not modelled.
* Each statement that writes is a step: a queryset delete fetches its rows, then
  deletes their responses, then the rows; a merge runs that for one duplicate
  after the other, tells of each, and moves reviews and responses in two updates.
  Every fact is a step with an aggregate of its own.
* `dangling` is the foreign key of a response, checked when the deleting
  transaction commits.
* Consecutive reads of one handler with no write of its own in between are one
  step where no other reader could tell (`merge_list`, `create_check`).
* `"server_error"` is an exception no `except` names. An event handler that
  raises goes back to its first statement (`redeliver`).
* `overlapped` remembers whether two transactions were ever open at once. Until
  then the statements implement the ledger (`LedgerUntilOverlap`), whatever the
  requests read before their transactions began.
* What a copy in memory may be used for is the subject of `NoUpdateLost`: `saved`
  writes one column over the row as it is, so that the commit of a moderation, an
  erasure or a merge makes of every row what its operation makes of it then.
* `crossed[q]` remembers at which targets the open transaction of `q` has met
  another one. A transaction is about (`About`) the targets it will tell of, those
  of the reviews it has listed or written, and, if an account leaves by it, those
  of the reviews of that account, committed or not. `ToldAloneIsRight` and
  `VisibilityStaysTold` say what a commit promises away from `crossed`.
* Ids are taken in one fixed order (`fresh`), since nothing depends on which.

### OwnerBackfill

A target is a number, so that `<` is the order of the keyset; a page is a set,
visited from its least target on. A row has only the columns the walk reads. A walk takes its `options` when it begins:
`target_type` (as the targets of that type), `batch_size`, `dry_run`. `asked`
and `fresh` are history variables. `NoOwner` as a resolver's answer stands for an
empty answer and for a type without a resolver: both are counted and stepped over.

### AggregateExport and HostProjection

`AggregateExport` pages through the targets beside any behaviour of
`RatingLedger`, with a clock for `updated_at` and `seq`. `HostProjection` puts
the host next to it that the repository's README describes: a queue of facts
for each target, in order and at least once, a rebuild that empties the
projection and reads a snapshot, and the comparison that decides. The README's
host keys its rows by `target_key` alone; the model keys them by target, which is
the same where no two types share a key. The host is
external; the model uses `seq` as `services.py:404-409` explains it. A row is
applied if it is newer than what the host has, a fact if it is not older.
`steady` is a history variable: the targets shown since the walk began.

## The runs

Every property of a passing run is also checked against a variant of one
definition (the operators commented "Variant"), an error one could make in the
code there: the run then has to fail.

| Run | Shows | Bounds |
|---|---|---|
| `ReviewStore` | the store's invariants while a type is made lenient, strict or removed at any time; `SettledColumns`; public lists, however addressed, show what was told | 3 users, 1 target, 2 review ids, ratings 4..5 |
| `FixedPolicy` | `OneVoice`, that the store implements the ledger, that every read agrees with the facts, that an erasure or a merge takes an account whole | 2 targets of 2 types with one key, 3 review ids, one rating |
| `Service` | `KeepsStore`, `ServerErrorsAreTheHosts`, `VerdictStands`, `ClosedAccountsEmpty`, `EveryEventHandled` | 7 events, 2 waiting, 3 callers, 1 review, a type that may be removed, a resolver that may raise, a valid and an invalid rating and action |
| `Requests` | what survives when any four requests or deliveries overlap (`NoUpdateLost`, `OneVoice`, `RowsAttached`, `FailsOnlyOnItsReview`), `LedgerUntilOverlap`, and which overlaps are harmless | 4 requests of 8 kinds, 2 targets, 3 ids, callbacks that may raise |
| `Answered` | every request is answered, under pre-moderation, a late survivor, and a policy lifted meanwhile over rows flagged before | 3 requests of 7 kinds |
| `Backfill` | `AskedOnce`, `NothingSkipped`, `StampedStays`, `EveryRowStamped` | 2 targets of 2 types, 2 reviews, 2 owners, 4 ways to run the command, one kill |
| `Projection` | `NoTargetTwice`, `NothingMissed`, `Converges`, `SnapshotEnds` | 2 targets, 2 reviews, pages of 1, 2 ms, 2 facts waiting |

Why these bounds do: the hazards need two accounts with a review each of one
target (2 ids), a third review or target to show that others are left alone,
and for the races two or three transactions on one row; a fourth request is
what redelivers or takes the row away. In `Requests` the guest can review a
second target, so that transactions meet about one target and not about the
other. Of a merge with several duplicates at once the instances have too few rows;
the theorems are about any number. A replay is about two events: the one
that is repeated and one that came after it. Of a review and a projection two
milliseconds suffice, since only "same", "older" and "newer" are told apart.
One review suffices in `Service`, because verdicts name one review and the
merge's treatment of two is in the store's runs. Statuses, flags, policies and
answers are never bounded below what the code distinguishes. `MaxInbox`,
`MaxQueue`, `MaxTime` and `MaxKills` are the bounds in guards; each limits how
much happens around the code, and none what a handler, a walk or a page does.

Symmetry is used among review ids in the runs of `ReviewStore`, and among
requests in `Requests`; none of these checks liveness.

**Fairness.** `RFairSpec` assumes that a worker that took a request keeps
running it (a waiting statement proceeds when the transaction it waits for has
ended: the database guarantees it), that a raised event is delivered again, and
that a late user row lands (`actions.py:20-29`). Nothing makes a request arrive.
`SFairSpec` assumes that the consumer runs and that a user row that is late
lands; nothing makes it acknowledge, and it may crash for ever.
`BFairSpec` assumes that a walk goes on, and that the operator runs the command
over everything and for real again and again between walks of other kinds
(strong fairness, since a walk that is under way keeps another from starting);
kills are bounded by `MaxKills`. `HSpec` assumes that the host keeps paging.

`CHECK_DEADLOCK` is on everywhere: a system with every request answered is
quiescent by an explicit stuttering step.

### Where code and documentation disagree

Each of these runs ends in a counterexample.

| Run | What happens |
|---|---|
| `LostCount` | two creates of one target at once: each fact carries an aggregate without the other's review (`services.py:461`), and the projection stays wrong until the next change |
| `SecondAnswer` | two responses at once: the second is an uncaught `IntegrityError`, not a 409 (`services.py:694`) |
| `ErasedUntold` | a review published between the erasure's list and its delete goes without a fact (`gdpr.py:45-51`) |
| `ReplayedVerdict` | approved and rejected are handled, the consumer restarts before it has acknowledged them: the approved that comes again publishes the hidden review, with a fact, where `actions.py:223-225` and `services.py:616-622` say that a redelivered verdict returns without a write and without a fact |
| `BackfillLimit` | a target that cannot be answered skips the limit check (`services.py:345`) |

Because of the first and the third, `FactsMatchAggregate` and
`FactsTellVisibility` are invariants of whole operations, and of requests only
until two of them overlap. What an overlap leaves intact is said target by
target: `ToldAloneIsRight` and `VisibilityStaysTold`.

Met while modelling and visible in the definitions, without a run of its own:

* `moderate_decide` compares the status its caller fetched (`services.py:596`).
  Two moderations that fetched the same pending review both emit; the
  docstring (`services.py:568-570`) has a fact only when the status changes.
* `merge_move` compares nobody with the owner key (`actions.py:131`): the owner
  of a target can become the author of its guest account's review of it.
* The moderate and respond views do not catch `UnknownTargetType`
  (`views.py:437`, `views.py:470`): for a review of a removed type the request is
  a server error. Nor does any view catch what a callback of the host raises,
  as `registry.py:127-129` and `164-168` want it. `ServerErrorsAreTheHosts` says
  that there is no third case in whole requests, `FailsOnlyOnItsReview` which
  others overlaps add.
* An erasure deletes by the ids it fetched (`gdpr.py:51`): what a merge moved to
  the survivor in between is deleted all the same. No document says which of the
  two should win.
* The keyed batch read without a type counts every type that shares the key
  (`services.py:212-217` documents it); `ReadsAgreeWithFacts` says by how much.
* A replayed verdict also undoes what a moderator of the host decided after it;
  `VerdictStands` excuses such reviews, since nothing says who has the last word.
* The guest wall (`ALLOW_ANONYMOUS_WRITES`) is in the create view only: a guest
  account may respond if the gate lets it.
* A merge whose survivor never lands raises on every delivery, and what waits
  behind it on an ordered bus waits with it: `EveryEventHandled` needs the
  assumption that late rows land.
* `checks.py:60` takes a policy with `moderation: None` for valid and
  `resolve_policy` keeps the `None`, so a default of `pre` does not apply to such
  a type. `register_target_type` runs no check at all. `PolicyAssumption` is
  about policies as `registry.py` describes them.
* With `--limit`, each slice starts at the first target again
  (`services.py:314-323`), so as many unanswerable targets as the limit in
  front keep it from getting any further.

## The proofs

For all constants that satisfy the assumptions: any users, targets, hosts,
policies, ids, ratings, requests, events, page sizes and bounds. The assumptions
say that constants are of their types and that names for "none" are no real
ones (`HostAssumption`, `RowAssumption`, `RequestAssumption`,
`ServiceAssumption`); that policies are as `registry.py` describes them
(`PolicyAssumption`); that a key addresses one target of a type, and that there
are finitely many review ids, targets and owner keys (`ReadAssumption`); that targets are finitely many
and ordered, and that a rating of some reviews counts at least one
(`BackfillAssumption`, `ExportAssumption`). TLC evaluates each on the instances.

A theorem is about the specification that the runs check. Liveness aside, every
property of a passing run is proved.

### The store

* `TypeCorrect`: `Spec => []TypeOK`. It is inductive by itself.
* `FactsFollowTheStore`: `FactsMatchAggregate` and `FactsTellVisibility`. The
  conjunction with `TypeOK` is inductive. The argument is about what an
  operation may leave unsaid: `emit_review_facts(ts)` recomputes the targets in
  `ts`, so it suffices that `Shown` of every other target is unchanged. For the
  erasure and the merge this is the lemma that withdrawing reviews changes only
  the targets of those that were visible.
* `ConstraintNeverRefuses`: `OneFlaggedReview`, whatever the host registers. A
  merge is the interesting step: a guest's review that keeps its flag is not
  contested, so the survivor has no review of that target at all.
* `OneVoiceUnderFixedPolicy`: with `Registrations = {}`, `OneVoice`. The
  strengthening says that a type's policy is that of the settings, so the
  policy read at creation is the policy read at the merge.
* `NothingDangles`: `RowsAttached`. `ColumnsSettled`: `SettledColumns`.
* `StoreKeepsLedger` (`LedgerProofs`): `Spec => Ledger!Spec`. The mapping shows
  the published rows by target; a publication maps to `Publish`, everything
  that hides or deletes to `Withdraw`, the rest stutters. It uses the
  invariants above to know that a review being published was not told.
* `ListsAreTold`, `RatingsAgree`, `OwnersAndTargetsAgree`, `AccountsLeaveWhole`
  (`ReadProofs`): `PublicListsAreTold`, `ReadsAgreeWithFacts`,
  `OwnerReadsAgree`, `LeavesNothingBehind`. The first two follow from the facts'
  invariants, since a key and a type address one target (`OneTargetNamed`) and a
  group is absent exactly when its rating counts nothing. The last one is about
  steps: only an erasure or a merge takes a review from its author, and
  whatever a merge drops is contested by a review of the survivor that stays.
  `OwnerReadsAgree` compares two sums, over owners and over targets. `SumCounts`
  has each of them as the size of one set, the reviews that show: classes of a
  finite set that are disjoint and cover it add up to it. It is shown for every
  finite set of classes by its least counterexample, the order of strict subsets
  being well-founded (`LeastSubset`).

### The service

* `ServiceKeepsStore` (`ServiceProofs`): the service
  implements the store. The tables, the user rows and the facts are the same
  variables, so the mapping is the identity; the argument is that an answer of
  success means that nothing was raised (`Granted`), and that nothing raised
  means every guard of the store's action (`CreateGranted`,
  `ModerationGranted`, `ResponseGranted`); that a handled event is one
  operation or none is `EventHandled`, which needs no history of what was
  delivered before. That a deleted user row cascades to nothing is where the
  history is needed: `ClosedInv` below.
* `ServiceTellsTheTruth`: so the store's invariants hold of the service.
* `EveryRefusalAnswered`: `ServerErrorsAreTheHosts`, by cases of what the
  services raise and of what each view catches.
* `LastVerdictStands`: `VerdictStands`, which is not inductive,
  since a crash makes its premise false and a delivery makes it true again. The
  strengthening (`VerdictInv`) follows a review whose last decision was the
  platform's: of the verdicts on it that wait or may be replayed, the last asks
  for `ruled`, and when none is still to be handled the status is `ruled`. A
  crash only adds events to be handled; an acknowledgement removes events from
  the front. Every other step keeps the status or removes the row
  (`AccountsKeepStatus`, `ConfigurationKeepsStatus`, `DecidedEffect`).
* `NothingOfClosedAccounts`: `ClosedAccountsEmpty`. A replayed
  merge can give a closed account reviews again; `ClosedInv` says that such a
  merge is always followed, in what may be replayed, by the event that closed
  the account (`EndFollows`), and that a closed account without such an event
  to come has nothing (`EmptyUnlessEnding`).

### Requests in flight

`RequestProofs`, about any number of requests interleaved statement by
statement. `StepEffect` says once what a statement may do: it leaves the tables
and the writes of its transaction alone, or it is one of eight (`Inserts`,
`Decides`, `Silences`, `Deletes`, `Unflags`, `Moves`, `Emits`, `Commits`) or the
response that commits by itself (`Replies`). `Looks` and `Turns` are what an
erasure and a merge read in between. The invariants below are shown of those.

* `RequestTypes`: `RTypeOK`, which says where each request may be and what it
  then has in memory.
* `UpdatesKept`: `NoUpdateLost`. `Locking` joins to the types that a row is written
  by one open transaction at most (`HeldOnce`), so that what it found when it wrote
  is what it commits over, and what each written row is to the committed one
  (`UpdateInv`: `Becoming`, and past the move of a merge `HandedOver`, that no row
  it leaves behind is the guest's).
* `NothingLeftDangling`: `RowsAttached`. `AttachedInv` adds that the actors of
  requests have user rows and that a response in an open transaction is in the
  table; the check at commit does the rest, for a response given to a review
  while it is being erased.
* `ErrorsNeedADeletion`: `FailsOnlyOnItsReview`. `RecallInv` says of every review a
  request has read that it is still there with the same target, or erased; a
  review that collided is kept apart by its author, whom only a merge changes.
  Nothing is assumed of the other requests or of the registrations.
* `OneVoiceAtOnce`: with `Registrations = {}`, `OneVoice` of the committed table,
  whatever overlaps. `KeysHeldOnce` has no clash of keys in the table, none between
  what a transaction wrote and what it sees, and none between two open
  transactions: the table alone would not be inductive. `VoiceInv` has every row
  of a type with `one_per_author` flagged, in the table and in every open
  transaction; `MergeInv` that the loop of a merge is where it says it is.
* `OneWriterKeepsLedger`: `LedgerUntilOverlap`. While no two transactions have been
  open at once nothing is crossed (`LoneInv`), so `AloneInv` below says everything of
  the only one open. `CommitShape` has its commit publish one review or withdraw
  some, which `Publication` and `WithdrawStep` have as steps of the ledger; all
  that comes before the commit is a stutter.

**Which overlaps are harmless.** The last theorems do not stop at the first
overlap.

* `ApartIsHarmless`: `ToldAloneIsRight`, that a commit leaves the host the right
  rating of every target about which its transaction met no other, and, where it
  tells none, changes no rating. `UncrossedStaysKnown` follows: a rating that is
  right stays so until two open transactions meet about its target.
* `VisibilityOutlivesOverlap`: `VisibilityStaysTold`. A create, a moderation and a
  verdict tell of the row they hold, so no overlap parts what was told of a review
  from what it shows; an erasure or a merge tells of rows it listed, and may be
  wrong only where it met another transaction. `VisibilityWithoutDepartures`:
  where `Inputs` has no erasure and no merge, `FactsTellVisibility` holds under
  every interleaving.

`AloneInv` is the invariant. `MeetInv`: what two open transactions are both about
is in the `crossed` of each. `Alone`: a transaction is as far as its statement says
(`InOrder`), and away from `crossed` what it has listed is still what the table has
(`ListsAlone`, `Mirrors`), it will tell of every review what it leaves
(`TellsVisibility`), and the rating it will tell of a target is the one it leaves
there, unless it has still to tell it (`TellsAlone`, `TellsRating`, `Owes`). The step
that matters is the commit of another transaction: every row it changes lies,
before and after, at a target it is about; if that target is not in `crossed[q]`,
`q` is not about it, so `q` neither holds nor has listed the row, and the row is not
of the account that leaves by `q`. `About` has to count uncommitted rows and rows
listed earlier: without the latter the invariant is false, as a review that a
merge has moved away since is deleted by an erasure that no longer sees whose
it is.

### The walks

`KeysetProofs` has the facts about least and greatest elements and `FirstOf` that
the walks need: a page is not empty, holds no more than it may, and everything
left out is greater than everything in it.

* `WalkTypes`, `HostAskedOnce`, `StampStands` (`BackfillProofs`): `BTypeOK`,
  `AskedOnce`, `StampedStays`. `WalkInv` adds where a walk is: what it asked about
  lies before what is left of its page, and all of that up to the keyset.
* `WalkSkipsNone`: `NothingSkipped`. `Behindhand` says it of a walk under way: a
  row without an owner, older than the walk, of a target that the keyset has
  passed and the page no longer holds, was asked about in vain.
* `RowsAreRatings`, `KeysetReadsOnce`, `KeysetSkipsNone` (`ProjectionProofs`):
  `XTypeOK`, `NoTargetTwice`, `NothingMissed`, of the export beside any behaviour
  of the ledger. `ExportInv` adds that rows are of targets up to the cursor,
  with every steady one among them, and that what shows was published at a time
  that has come.
* `HostConverges`: `Converges`. `HostInv` says for each target where its live
  rating will still come from (`Converging`): from a fact that waits; from
  nowhere, since the host has it and no row left to read is newer and different;
  from a page to come, the projection being empty; or from a row that was read.
  With it goes that the last fact that waits is the newest thing known of its
  target (`LastIsFact`), which makes replays harmless, and that nothing is newer
  than the clock.

### Only model-checked

* Liveness: `EveryRequestAnswered`, `EveryEventHandled`, `EveryRowStamped`,
  `SnapshotEnds`. Fairness and `ENABLED` are out of the prover's reach.
* `Rating`: that `aggregate` is a mean is its definition. The proofs use only
  that a rating depends on the set of reviews and how many it counts.

The counterexamples of the five violation runs are why no more is claimed of
requests that meet about one target, and of a verdict replayed. No definition is recursive.

## Not modelled

* `moderation_content` and `owner_is_target` (`functions.py`): one row, or one
  key, as it is. Schema validation is stapel-core's.
* Pagination, throttling and authentication: stapel-core's and Django REST
  framework's. The cap of 100 owner keys refuses a read.
* `aggregates_export`'s `total` (a plain count) and its invalid cursor (raises
  before the query).
* DTOs and serializers: shapes. What they refuse is refused before a service is
  called.
* Admin: a staff edit bypasses the services, and the code specifies no more.
* Start-up checks and wiring run once. Migrations are modelled by the schema they
  end in. Code generation is build tooling.
* The outbox, the bus and the host's projection are stapel-core's and the
  host's, and external where they appear; stapel-auth's user rows are two
  external actions. Deadlocks that the database ends by failing a transaction are
  left out. With the outbox switched off facts would leave before their
  transaction commits; the code documents the outbox as its guarantee.

## Plan

What is left, in order of what is worth most:

1. Deletion of user rows beside requests in flight, and a consumer that crashes
   between the statements of a handler; then the proofs of `RequestProofs` over
   them.
2. The pagination of the lists, once the contract of stapel-core's paginator is
   written down here.
