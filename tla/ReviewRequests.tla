---------------------------- MODULE ReviewRequests ----------------------------
(***************************************************************************)
(* The operations of ReviewStore as the statements they are made of, run   *)
(* by concurrent requests and event deliveries over one database.          *)
(*                                                                         *)
(* reviews and responses are the committed tables.  A transaction keeps    *)
(* what it wrote to itself until it commits, reads the committed rows as   *)
(* they are when each statement runs (READ COMMITTED), and holds the rows  *)
(* it wrote: another writer of the same row, or of the same key of a       *)
(* unique constraint, waits.  The facts a transaction emits leave with its *)
(* commit (the outbox).                                                    *)
(*                                                                         *)
(* A user row may land late, and the host may register a type anew while   *)
(* requests run.  An exception no handler catches is the outcome           *)
(* "server_error"; an event handler that raises is delivered again.        *)
(***************************************************************************)
EXTENDS ReviewStore

CONSTANTS
  Requests,       \* requests and deliveries in progress or to come
  Inputs,         \* what they ask for
  Late            \* accounts whose user row is not in this database at first

\* What a request or a delivery carries.  A merge of an account into itself
\* returns at once.
Asked ==
  UNION {[kind : {"create"}, target : Targets, author : Users,
          rating : RATING_MIN..RATING_MAX],
         [kind : {"moderate"}, actor : Users, action : MODERATION_ACTIONS],
         [kind : {"verdict"}, action : MODERATION_ACTIONS],
         [kind : {"respond"}, author : Users],
         [kind : {"erase"}, user : Users],
         {m \in [kind : {"merge"}, guest : Users, survivor : Users] :
            m.guest # m.survivor}}

ASSUME RequestAssumption ==
  /\ Inputs \subseteq Asked /\ Late \subseteq Users
  /\ None \notin {"ok", "server_error"}

VARIABLES
  pc,         \* the next statement of each request
  input,      \* what it was asked for
  ctx,        \* what it read earlier and still holds in memory
  txn,        \* what its open transaction has written and emitted
  outcome,    \* how it ended
  overlapped, \* history: two transactions have been open at once
  crossed     \* history: where each open one has met another

requestVars == <<pc, input, ctx, txn, outcome>>
allVars == <<reviews, responses, users, runtime, fact, told,
             pc, input, ctx, txn, outcome, overlapped, crossed>>

Nothing == [x \in {} |-> None]

\* rows are the instances in memory, todo the duplicates a merge has still to
\* look at, gone the rows a queryset delete has fetched.
NoCtx == [review |-> None, policy |-> None, owner_key |-> None,
          rows |-> Nothing, todo |-> {}, gone |-> {}]

\* published and hidden are the reviews it tells about, tell those of them whose
\* aggregate has still to be read.
NoTxn == [rows |-> Nothing, responses |-> Nothing,
          tell |-> {}, published |-> {}, hidden |-> {}, fact |-> Nothing]

\* Statements that run inside a transaction already open.
InTransaction ==
  {"collect", "drop", "delete_responses", "delete_reviews", "delete_replies",
   "move_replies", "emit", "commit"}

RInit ==
  /\ reviews = [r \in ReviewIds |-> Unwritten]
  /\ responses = [r \in ReviewIds |-> None]
  /\ users = Users \ Late
  /\ runtime = Nothing
  /\ fact = [t \in Targets |-> NoRating]
  /\ told = {}
  /\ pc = [q \in Requests |-> "idle"]
  /\ input = [q \in Requests |-> None]
  /\ ctx = [q \in Requests |-> NoCtx]
  /\ txn = [q \in Requests |-> NoTxn]
  /\ outcome = [q \in Requests |-> None]
  /\ overlapped = FALSE
  /\ crossed = [q \in Requests |-> {}]

-------------------------------------------------------------------------------
(* The database.                                                             *)

\* A table with some entries overwritten.
overlay(table, changes) == [k \in DOMAIN table |-> get(changes, k, table[k])]

\* The same for a set of changes that grows.
joined(changes, more) ==
  [k \in DOMAIN changes \cup DOMAIN more |-> get(more, k, changes[k])]

\* What a statement of q reads: the committed rows under its own writes.
View(q) == overlay(reviews, txn[q].rows)

\* Another transaction has written row r and not committed.
rowLocked(q, r) == \E p \in Requests \ {q} : r \in DOMAIN txn[p].rows

responseLocked(q, r) ==
  \E p \in Requests \ {q} : r \in DOMAIN txn[p].responses

isRow(row) == row \notin {Unwritten, Erased}

holdsKey(row, t, author) ==
  isRow(row) /\ row.unique_per_author /\ row.target = t /\ row.author = author

\* Variant: the constraint is not in the database.
keyTaken_never(q, t, author) == FALSE

\* rev_one_per_author has this key already, as far as q can tell ...
keyTaken(q, t, author) == \E r \in ReviewIds : holdsKey(View(q)[r], t, author)

\* ... or it depends on a transaction still open.
keyLocked(q, t, author) ==
  \E p \in Requests \ {q} : \E r \in DOMAIN txn[p].rows :
    holdsKey(txn[p].rows[r], t, author) \/ holdsKey(reviews[r], t, author)

committed == <<reviews, responses, fact, told>>

goto(q, label) == pc' = [pc EXCEPT ![q] = label]

finish(q, answer) ==
  /\ goto(q, "done")
  /\ outcome' = [outcome EXCEPT ![q] = answer]
  /\ ctx' = [ctx EXCEPT ![q] = NoCtx]
  /\ txn' = [txn EXCEPT ![q] = NoTxn]
  /\ UNCHANGED <<users, runtime, input>>

\* Variant: the transaction is left open.
redeliver_open(q) ==
  /\ goto(q, "check")
  /\ ctx' = [ctx EXCEPT ![q] = NoCtx]
  /\ UNCHANGED <<committed, users, runtime, input, txn, outcome>>

\* The transaction rolls back and the event is delivered again.
redeliver(q) ==
  /\ goto(q, "check")
  /\ ctx' = [ctx EXCEPT ![q] = NoCtx]
  /\ txn' = [txn EXCEPT ![q] = NoTxn]
  /\ UNCHANGED <<committed, users, runtime, input, outcome>>

\* A statement that reads into memory.
reads(q, label, memory) ==
  /\ goto(q, label)
  /\ ctx' = [ctx EXCEPT ![q] = memory]
  /\ UNCHANGED <<committed, users, runtime, input, txn, outcome>>

\* A statement that writes inside the transaction of q.
writes(q, label, memory, written) ==
  /\ goto(q, label)
  /\ ctx' = [ctx EXCEPT ![q] = memory]
  /\ txn' = [txn EXCEPT ![q] = written]
  /\ UNCHANGED <<committed, users, runtime, input, outcome>>

\* What comes after a write: the facts it owes, then the next duplicate of a
\* merge or the end.
after(q, owed) ==
  IF owed # {} THEN "emit" ELSE IF input[q].kind = "merge" THEN "drop" ELSE "commit"

arrive(q) ==
  /\ pc[q] = "idle"
  /\ \E i \in Inputs :
       /\ \A field \in DOMAIN i \cap {"author", "actor"} : i[field] \in users
       /\ input' = [input EXCEPT ![q] = i]
  /\ goto(q, "check")
  /\ UNCHANGED <<committed, users, runtime, ctx, txn, outcome>>

at(q, kind, label) == pc[q] = label /\ input[q].kind = kind

-------------------------------------------------------------------------------
(* create_review: check, insert, and a second look if the insert collides.   *)

\* The host may be asked twice, and may raise each time.
create_check(q) ==
  /\ at(q, "create", "check")
  /\ LET i == input[q]
         policy == policyOf(i.target)
     IN  IF ~isRegistered(i.target)
           THEN finish(q, "unknown_target_type") /\ UNCHANGED committed
         ELSE IF policy.one_per_author /\ has_review(i.target, i.author)
           THEN finish(q, "duplicate") /\ UNCHANGED committed
         ELSE \E allowed \in check_can_review(policy, i.author, i.target),
                 owner_key \in resolve_owner_key(policy, i.target) :
           IF allowed = Raises \/ (allowed /\ owner_key = Raises)
             THEN finish(q, "server_error") /\ UNCHANGED committed
           ELSE IF allowed /\ (policy.allow_self_review \/ ~is_owner(owner_key, i.author))
             THEN reads(q, "insert",
                    [NoCtx EXCEPT !.policy = policy, !.owner_key = owner_key])
           ELSE finish(q, "refused") /\ UNCHANGED committed

\* A uuid nobody has drawn; which one makes no difference.
fresh(q) ==
  LET left == {r \in ReviewIds : reviews[r] = Unwritten /\ ~rowLocked(q, r)}
  IN  IF left = {} THEN {} ELSE {CHOOSE r \in left : TRUE}

\* The policy and the owner key are the ones read before.  A row that collides is
\* kept as a history: the code only learns that there is one.
create_insert(q) ==
  /\ at(q, "create", "insert")
  /\ LET i == input[q]
         policy == ctx[q].policy
         pre == policy.moderation = "pre"
         row == [target |-> i.target, owner_key |-> ctx[q].owner_key,
                 author |-> i.author, rating |-> i.rating,
                 status |-> IF pre THEN "pending" ELSE "published",
                 unique_per_author |-> policy.one_per_author]
     IN  /\ policy.one_per_author => ~keyLocked(q, i.target, i.author)
         /\ IF policy.one_per_author /\ keyTaken(q, i.target, i.author)
              THEN \E r \in ReviewIds :
                     /\ holdsKey(View(q)[r], i.target, i.author)
                     /\ reads(q, "recheck", [NoCtx EXCEPT !.review = r])
              ELSE \E r \in fresh(q) :
                     LET shown == IF pre THEN {} ELSE {r}
                     IN  writes(q, after(q, shown),
                           [NoCtx EXCEPT !.rows = [x \in {r} |-> row]],
                           [NoTxn EXCEPT !.rows = [x \in {r} |-> row],
                                         !.tell = shown, !.published = shown])

\* Variant: no second look.
create_recheck_never(q) ==
  /\ at(q, "create", "recheck")
  /\ finish(q, "server_error")
  /\ UNCHANGED committed

\* The insert raised IntegrityError and rolled back.
create_recheck(q) ==
  /\ at(q, "create", "recheck")
  /\ finish(q, IF has_review(input[q].target, input[q].author)
                 THEN "duplicate" ELSE "server_error")
  /\ UNCHANGED committed

-------------------------------------------------------------------------------
(* moderate_review and apply_verdict: fetch, then act on the copy fetched.   *)

Moderations == {"moderate", "verdict"}

\* The view's fetch and the policy gate, or the event handler's fetch: a
\* verdict passes every gate.
moderate_fetch(q) ==
  /\ pc[q] = "check" /\ input[q].kind \in Moderations
  /\ \/ \E r \in Rows(reviews) :
          LET t == reviews[r].target
              gated == input[q].kind = "moderate"
          IN  IF gated /\ ~isRegistered(t)
                THEN \* UnknownTargetType, which the view does not catch.
                     finish(q, "server_error") /\ UNCHANGED committed
              ELSE \E allowed \in IF gated
                                    THEN check_can_moderate(policyOf(t), input[q].actor, t)
                                    ELSE {TRUE} :
                IF allowed = Raises
                  THEN finish(q, "server_error") /\ UNCHANGED committed
                ELSE IF allowed
                  THEN reads(q, "decide",
                         [NoCtx EXCEPT !.review = r, !.rows = [x \in {r} |-> reviews[r]]])
                ELSE finish(q, "refused") /\ UNCHANGED committed
     \/ \* No such review: 404, or a verdict about a review erased since.
        finish(q, "missing") /\ UNCHANGED committed

status_asked(i) == IF i.action = "hide" THEN "hidden" ELSE "published"

\* Variant: the whole copy in memory is saved, with every column.
saved_whole(q, row) == [ctx[q].rows[ctx[q].review] EXCEPT !.status = status_asked(input[q])]

\* save(update_fields=["status", "updated_at"]) over the row as it is.
saved(q, row) == [row EXCEPT !.status = status_asked(input[q])]

\* The status compared is the one in memory; the row updated is the one there.
moderate_decide(q) ==
  /\ pc[q] = "decide"
  /\ LET r == ctx[q].review
         new_status == status_asked(input[q])
         changes == ctx[q].rows[r].status # new_status
     IN  \/ /\ ~changes
            /\ IF input[q].kind = "moderate"
                 THEN reads(q, "render", ctx[q])
                 ELSE finish(q, "ok") /\ UNCHANGED committed
         \/ /\ changes
            /\ ~rowLocked(q, r)
            /\ isRow(reviews[r])
            /\ writes(q, "emit", ctx[q],
                 [NoTxn EXCEPT
                   !.rows = [x \in {r} |-> saved(q, reviews[r])],
                   !.tell = {r},
                   !.published = IF new_status = "published" THEN {r} ELSE {},
                   !.hidden = IF new_status = "hidden" THEN {r} ELSE {}])
         \/ \* The update affected no row: DatabaseError.
            /\ changes
            /\ ~rowLocked(q, r)
            /\ ~isRow(reviews[r])
            /\ IF input[q].kind = "verdict"
                 THEN redeliver(q)
                 ELSE finish(q, "server_error") /\ UNCHANGED committed

\* The view reads the review once more to answer with it; there is no answer
\* to make of None.
render(q) ==
  /\ pc[q] = "render"
  /\ finish(q, IF isRow(reviews[ctx[q].review]) THEN "ok" ELSE "server_error")
  /\ UNCHANGED committed

-------------------------------------------------------------------------------
(* respond: look for a response, then insert one.                            *)

respond_check(q) ==
  /\ at(q, "respond", "check")
  /\ \/ \E r \in Rows(reviews) :
          LET t == reviews[r].target
              policy == policyOf(t)
          IN  IF ~isRegistered(t)
                THEN finish(q, "server_error") /\ UNCHANGED committed
              ELSE IF ~policy.allow_response
                THEN finish(q, "refused") /\ UNCHANGED committed
              ELSE \E allowed \in check_can_respond(policy, input[q].author, t,
                                                    reviews[r].owner_key) :
                IF allowed = Raises
                  THEN finish(q, "server_error") /\ UNCHANGED committed
                ELSE IF ~allowed
                  THEN finish(q, "refused") /\ UNCHANGED committed
                ELSE IF responses[r] # None
                  THEN finish(q, "already_responded") /\ UNCHANGED committed
                ELSE reads(q, "reply", [NoCtx EXCEPT !.review = r])
     \/ finish(q, "missing") /\ UNCHANGED committed

\* One statement, committed at once.  It waits for a transaction that deletes
\* the review or its response; a review gone and a response there are both an
\* IntegrityError, which respond does not catch.
respond_reply(q) ==
  /\ at(q, "respond", "reply")
  /\ LET r == ctx[q].review
     IN  /\ ~responseLocked(q, r)
         /\ \A p \in Requests \ {q} : get(txn[p].rows, r, None) # Erased
         /\ IF isRow(reviews[r]) /\ responses[r] = None
              THEN /\ responses' = [responses EXCEPT ![r] = input[q].author]
                   /\ goto(q, "render")
                   /\ UNCHANGED <<reviews, fact, told, users, runtime,
                                  input, ctx, txn, outcome>>
              ELSE finish(q, "server_error") /\ UNCHANGED committed

-------------------------------------------------------------------------------
(* The deletes an erasure and a merge share.                                 *)

\* QuerySet.delete: the responses of the reviews fetched, then the reviews.
delete_responses(q) ==
  /\ pc[q] = "delete_responses"
  /\ \A r \in ctx[q].gone : ~responseLocked(q, r)
  /\ writes(q, "delete_reviews", ctx[q],
       [txn[q] EXCEPT !.responses =
          joined(@, [r \in {x \in ctx[q].gone : responses[x] # None} |-> None])])

\* Variant: the list is a queryset still, and run after the delete.
leaving_late(q) ==
  IF input[q].kind = "erase"
    THEN DOMAIN ctx[q].rows \ ctx[q].gone
    ELSE {r \in {ctx[q].review} : ctx[q].rows[r].status \in VISIBLE_STATUSES}

\* What was visible when it was listed, of what is deleted: an erasure deletes
\* all it listed, a merge the review its loop is at.
leaving(q) ==
  {r \in DOMAIN ctx[q].rows :
     /\ ctx[q].rows[r].status \in VISIBLE_STATUSES
     /\ input[q].kind = "merge" => r = ctx[q].review}

delete_reviews(q) ==
  /\ pc[q] = "delete_reviews"
  /\ \A r \in ctx[q].gone : ~rowLocked(q, r)
  /\ LET told_of == leaving(q)
     IN  writes(q, IF input[q].kind = "erase" THEN "delete_replies" ELSE after(q, told_of),
           ctx[q],
           [txn[q] EXCEPT
             !.rows = joined(@, [r \in {x \in ctx[q].gone : isRow(reviews[x])} |-> Erased]),
             !.tell = told_of, !.hidden = @ \cup told_of])

-------------------------------------------------------------------------------
(* ReviewsGDPRProvider.delete: list, delete, tell.                           *)

erase_list(q) ==
  /\ at(q, "erase", "check")
  /\ reads(q, "collect",
       [NoCtx EXCEPT !.rows =
          [r \in Authored(reviews, input[q].user) \cap VisibleIds(reviews) |-> reviews[r]]])

\* The queryset delete first fetches the rows it will delete.
erase_collect(q) ==
  /\ at(q, "erase", "collect")
  /\ reads(q, "delete_responses",
       [ctx[q] EXCEPT !.gone = Authored(reviews, input[q].user)])

\* The responses the transaction finds of an account, its own deletes done.
answered(q, author) ==
  {r \in ReviewIds : get(txn[q].responses, r, responses[r]) = author}

\* The user's responses to the reviews of others.
erase_replies(q) ==
  /\ at(q, "erase", "delete_replies")
  /\ LET replies == answered(q, input[q].user)
     IN  /\ \A r \in replies : ~responseLocked(q, r)
         /\ writes(q, after(q, txn[q].tell), ctx[q],
              [txn[q] EXCEPT !.responses = joined(@, [r \in replies |-> None])])

-------------------------------------------------------------------------------
(* handle_user_merged: list, drop the duplicates one by one, move the rest.  *)

merge_list(q) ==
  /\ at(q, "merge", "check")
  /\ \/ ~owns_something(input[q].guest)
        /\ finish(q, "ok") /\ UNCHANGED committed
     \/ \* MergeTargetNotReady.
        /\ owns_something(input[q].guest)
        /\ input[q].survivor \notin users
        /\ redeliver(q)
     \/ /\ owns_something(input[q].guest)
        /\ input[q].survivor \in users
        /\ reads(q, "drop",
             [NoCtx EXCEPT
               !.rows = [r \in Authored(reviews, input[q].guest) |-> reviews[r]],
               !.todo = Contested(input[q].guest, input[q].survivor)])

\* Variant: a review that stays keeps its flag.
still_flagged(row) == row

\* unique_per_author taken off, so that the move cannot collide.
unflagged(row) == [row EXCEPT !.unique_per_author = FALSE]

\* The next review of a target the survivor reviewed too, under the policy of
\* now: it is deleted, or keeps only its flag from being moved.
merge_drop(q) ==
  /\ at(q, "merge", "drop")
  /\ \E r \in ctx[q].todo :
       LET next == [ctx[q] EXCEPT !.todo = @ \ {r}, !.review = r,
                                  !.gone = {r} \cap Rows(reviews)]
           row == reviews[r]
       IN  \/ /\ upholds_one_per_author(ctx[q].rows[r].target)
              /\ reads(q, "delete_responses", next)
           \/ /\ ~upholds_one_per_author(ctx[q].rows[r].target)
              /\ isRow(row) /\ row.unique_per_author
              /\ ~rowLocked(q, r)
              /\ writes(q, "drop", next,
                   [txn[q] EXCEPT !.rows = joined(@, [x \in {r} |-> unflagged(row)])])
           \/ /\ ~upholds_one_per_author(ctx[q].rows[r].target)
              /\ ~(isRow(row) /\ row.unique_per_author)
              /\ reads(q, "drop", next)

\* UPDATE ... WHERE author = guest.  A key the survivor got meanwhile is an
\* IntegrityError: the merge rolls back and is delivered again.
merge_move(q) ==
  /\ at(q, "merge", "drop")
  /\ ctx[q].todo = {}
  /\ LET into == input[q].survivor
         moved == [r \in Authored(View(q), input[q].guest) |->
                     [View(q)[r] EXCEPT !.author = into]]
         flagged == {r \in DOMAIN moved : moved[r].unique_per_author}
     IN  /\ \A r \in DOMAIN moved : ~rowLocked(q, r)
         /\ \A r \in flagged : ~keyLocked(q, moved[r].target, into)
         /\ IF \E r \in flagged : keyTaken(q, moved[r].target, into)
              THEN redeliver(q)
              ELSE writes(q, "move_replies", ctx[q], [txn[q] EXCEPT !.rows = joined(@, moved)])

merge_move_replies(q) ==
  /\ at(q, "merge", "move_replies")
  /\ LET replies == answered(q, input[q].guest)
     IN  /\ \A r \in replies : ~responseLocked(q, r)
         /\ writes(q, "commit", ctx[q],
              [txn[q] EXCEPT !.responses =
                 joined(@, [r \in replies |-> input[q].survivor])])

-------------------------------------------------------------------------------
(* _emit_review_fact, and the end of the transaction.                        *)

\* Variant: the aggregate is computed outside the transaction.
counted_committed(q, t) == aggregate(Shown(reviews, t))

\* The aggregate as the transaction sees it.
counted(q, t) == aggregate(Shown(View(q), t))

\* One review's fact, of the target the copy in memory has.
emit(q) ==
  /\ pc[q] = "emit"
  /\ \E r \in txn[q].tell :
       LET t == ctx[q].rows[r].target
           owed == txn[q].tell \ {r}
       IN  writes(q, after(q, owed), ctx[q],
             [txn[q] EXCEPT !.tell = owed,
                            !.fact = joined(@, [x \in {t} |-> counted(q, t)])])

\* Variant: no foreign key.
dangling_never(q) == FALSE

\* A response that arrived on a review deleted here fails the foreign key.
dangling(q) ==
  \E r \in DOMAIN txn[q].rows :
    /\ txn[q].rows[r] = Erased
    /\ get(txn[q].responses, r, responses[r]) # None

commit(q) ==
  /\ pc[q] = "commit"
  /\ \/ /\ ~dangling(q)
        /\ reviews' = View(q)
        /\ responses' = overlay(responses, txn[q].responses)
        /\ fact' = overlay(fact, txn[q].fact)
        /\ told' = (told \cup txn[q].published) \ txn[q].hidden
        /\ IF input[q].kind = "moderate"
             THEN /\ goto(q, "render")
                  /\ txn' = [txn EXCEPT ![q] = NoTxn]
                  /\ UNCHANGED <<users, runtime, input, ctx, outcome>>
             ELSE finish(q, "ok")
     \/ dangling(q) /\ redeliver(q)

-------------------------------------------------------------------------------
Step(q) ==
  \/ create_check(q) \/ create_insert(q) \/ create_recheck(q)
  \/ moderate_fetch(q) \/ moderate_decide(q) \/ render(q)
  \/ respond_check(q) \/ respond_reply(q)
  \/ delete_responses(q) \/ delete_reviews(q)
  \/ erase_list(q) \/ erase_collect(q) \/ erase_replies(q)
  \/ merge_list(q) \/ merge_drop(q) \/ merge_move(q) \/ merge_move_replies(q)
  \/ emit(q) \/ commit(q)

\* Every request that came has been answered: the system waits for more.
AllAnswered == \A q \in Requests : pc[q] = "done"

Quiescent == AllAnswered /\ UNCHANGED allVars

account_lands(u) == user_row_lands(u) /\ UNCHANGED requestVars

host_registers(type, policy) ==
  register_target_type(type, policy) /\ UNCHANGED requestVars

\* More than one transaction is open.
overlap == \E q, p \in Requests : q # p /\ {pc[q], pc[p]} \subseteq InTransaction

\* Who leaves by the request of q.
leaver(q) ==
  CASE input[q].kind = "erase" -> input[q].user
    [] input[q].kind = "merge" -> input[q].guest
    [] OTHER -> None

\* The rows of review r, committed and not.
Versions(r) ==
  LET writers == {p \in Requests : r \in DOMAIN txn[p].rows}
  IN  {row \in {reviews[r]} \cup {txn[p].rows[r] : p \in writers} : isRow(row)}

\* The reviews a transaction has listed or written.
Handled(q) == DOMAIN txn[q].rows \cup DOMAIN ctx[q].rows \cup ctx[q].gone

Concerned(q, r) ==
  {row \in Versions(r) : r \in Handled(q) \/ row.author = leaver(q)}

\* The targets an open transaction is about: those of the reviews it handles, of
\* the reviews of the account that leaves by it, and those it tells about.
About(q) ==
  IF pc[q] \notin InTransaction THEN {} ELSE
    DOMAIN txn[q].fact \cup {ctx[q].rows[r].target : r \in txn[q].tell} \cup
    UNION {{row.target : row \in Concerned(q, r)} : r \in ReviewIds}

\* Where the transaction of q meets another one.
met(q) ==
  UNION {About(q) \cap About(p) : p \in {x \in Requests \ {q} : pc[x] \in InTransaction}}

watched ==
  /\ overlapped' = (overlapped \/ overlap')
  /\ crossed' = [q \in Requests |->
                   IF pc'[q] \in InTransaction THEN crossed[q] \cup met(q)' ELSE {}]

RNext ==
  \/ \E q \in Requests : (arrive(q) \/ Step(q)) /\ watched
  \/ \E u \in Late : account_lands(u) /\ watched
  \/ \E type \in Types, policy \in Registrations :
       host_registers(type, policy) /\ watched
  \/ Quiescent

RSpec == RInit /\ [][RNext]_allVars

\* A worker that has taken a request keeps running it; the database lets a
\* waiting statement go on when the transaction it waits for has ended; a user
\* row that is late does land (actions.py:20-29).
RFairSpec ==
  /\ RSpec
  /\ \A q \in Requests : WF_requestVars(Step(q))
  /\ \A u \in Late : WF_users(account_lands(u))

-------------------------------------------------------------------------------
(* What the requests promise each other.                                     *)

Partial(f, S, T) == DOMAIN f \subseteq S /\ \A x \in DOMAIN f : f[x] \in T

Memory(c) ==
  /\ DOMAIN c = DOMAIN NoCtx
  /\ c.review \in ReviewIds \cup {None}
  /\ c.policy \in Policy \cup {None}
  /\ c.owner_key \in OwnerKeys \cup {None}
  /\ Partial(c.rows, ReviewIds, Review)
  /\ c.todo \subseteq DOMAIN c.rows /\ c.gone \subseteq ReviewIds

Uncommitted(w) ==
  /\ DOMAIN w = DOMAIN NoTxn
  /\ Partial(w.rows, ReviewIds, Review \cup {Erased})
  /\ Partial(w.responses, ReviewIds, Users \cup {None})
  /\ w.tell \subseteq ReviewIds
  /\ w.published \subseteq ReviewIds /\ w.hidden \subseteq ReviewIds
  /\ DOMAIN w.fact \subseteq Targets

\* The statements a request of each kind is made of.
Statements ==
  [create |-> {"check", "insert", "recheck", "emit", "commit"},
   moderate |-> {"check", "decide", "emit", "commit", "render"},
   verdict |-> {"check", "decide", "emit", "commit"},
   respond |-> {"check", "reply", "render"},
   erase |-> {"check", "collect", "delete_responses", "delete_reviews",
              "delete_replies", "emit", "commit"},
   merge |-> {"check", "drop", "delete_responses", "delete_reviews",
              "move_replies", "emit", "commit"}]

\* The tables, the memory of the requests and what their transactions have
\* written are well formed, and every request is at a statement of its own.
RTypeOK ==
  /\ TypeOK
  /\ DOMAIN fact = Targets
  /\ pc \in [Requests -> InTransaction \cup
                 {"idle", "check", "insert", "recheck", "decide", "render", "reply", "done"}]
  /\ DOMAIN input = Requests /\ DOMAIN ctx = Requests
  /\ DOMAIN txn = Requests /\ DOMAIN outcome = Requests
  /\ \A q \in Requests :
       /\ Memory(ctx[q]) /\ Uncommitted(txn[q])
       /\ pc[q] \notin InTransaction => txn[q] = NoTxn
       /\ pc[q] # "idle" => input[q] \in Asked
       /\ pc[q] \notin {"idle", "done"} => pc[q] \in Statements[input[q].kind]
       /\ pc[q] = "insert" => ctx[q].policy \in Policy /\ ctx[q].owner_key \in OwnerKeys
       /\ pc[q] \in {"recheck", "decide", "render", "reply"} => ctx[q].review \in ReviewIds
       /\ pc[q] = "decide" => ctx[q].review \in DOMAIN ctx[q].rows
       /\ pc[q] \in {"emit", "commit"} /\ input[q].kind = "moderate"
            => ctx[q].review \in ReviewIds
       /\ txn[q].tell \subseteq DOMAIN ctx[q].rows

\* What the operation of i may make of a committed row.
Becomes(i, row, new) ==
  CASE i.kind = "create" -> row = Unwritten
    [] i.kind \in Moderations ->
         isRow(row) /\ new = [row EXCEPT !.status = status_asked(i)]
    [] i.kind = "erase" -> isRow(row) /\ new = Erased
    [] i.kind = "merge" ->
         /\ isRow(row)
         /\ \/ new = Erased
            \/ \E flag \in {FALSE, row.unique_per_author} :
                 new = [row EXCEPT !.author = IF @ = i.guest THEN i.survivor ELSE @,
                                   !.unique_per_author = flag]

\* No update is lost: whatever was committed between the read of a review and
\* the commit that changes it, the commit changes the columns its operation is
\* about and leaves the others as they are then, not as they were in memory: a
\* moderation does not give a merged review back to the guest or its flag back to
\* the review, a merge brings no hidden review back, nothing erased returns
\* (services.py:599-601, gdpr.py:51-53, actions.py:131-136, 179-191).
NoUpdateLost ==
  [][\A q \in Requests :
       commit(q) /\ ~dangling(q) =>
         \A r \in DOMAIN txn[q].rows : Becomes(input[q], reviews[r], reviews'[r])]_allVars

\* The callback a request asks may raise, or the type it needs was removed.
HostFails(i) ==
  IF i.kind = "create"
    THEN mayRaise(i.target) \cap {"can_review", "owner_key_for"} # {}
    ELSE \E r \in Rows(reviews) :
           LET t == reviews[r].target
           IN  isRegistered(t) =>
                 (IF i.kind = "moderate" THEN "can_moderate" ELSE "can_respond")
                   \in mayRaise(t)

\* A request that has passed its checks fails as a server error only because the
\* very review it is about has been deleted meanwhile; a create, because the
\* review it collided with is deleted or another account's when it looks again.
\* Above all two creates at once never end so (services.py:547-554, 599-601;
\* views.py:445-447, 478-482).  For the insert of a response see RespondAnswered.
FailsOnlyOnItsReview ==
  [][\A q \in Requests :
       outcome'[q] = "server_error" /\ outcome[q] # "server_error" =>
         LET row == reviews[ctx[q].review]
         IN  \/ pc[q] = "check" /\ HostFails(input[q])
             \/ pc[q] = "recheck" /\ isRow(row) /\ row.author # input[q].author
             \/ pc[q] # "check" /\ row = Erased
             \/ pc[q] = "reply"]_allVars

\* errors.py:54, ERR_409_ALREADY_RESPONDED: a second response to a review is
\* answered "already responded", not with a server error.
RespondAnswered ==
  \A q \in Requests :
    outcome[q] = "server_error" /\ input[q].kind = "respond" =>
      \E p \in Requests : pc[p] # "idle" /\ input[p].kind \in {"erase", "merge"}

\* As long as no two transactions have been open at once, every commit is a step
\* of the rating ledger (services.py:456-475).
LedgerUntilOverlap == [][~overlapped' => [Ledger!Next]_(Ledger!ledger)]_allVars

\* A transaction that met no other about a target leaves the host the rating the
\* target then has, or the one it had where it changes nothing that counts: two
\* overlapping writes lose a count only where they are about one target, and the
\* next write of the target alone repairs it (services.py:456-475).
ToldAloneIsRight ==
  [][\A q \in Requests, t \in Targets :
       commit(q) /\ ~dangling(q) /\ t \notin crossed[q] =>
         IF t \in DOMAIN txn[q].fact
           THEN fact'[t] = aggregate(Shown(reviews', t))
           ELSE fact'[t] = fact[t] /\ Shown(reviews', t) = Shown(reviews, t)]_allVars

\* However creates, moderations and verdicts overlap, what consumers are told is
\* visible stays so; only an erasure or a merge, which tells what it saw when it
\* listed, can part the two, and only where it met another transaction
\* (gdpr.py:44-64, actions.py:149-201).
VisibilityStaysTold ==
  [][\A q \in Requests, r \in ReviewIds :
       /\ commit(q) /\ ~dangling(q)
       /\ input[q].kind \in {"erase", "merge"} /\ isRow(reviews[r]) =>
            reviews[r].target \notin crossed[q]
       /\ r \in told <=> r \in VisibleIds(reviews)
       => (r \in told' <=> r \in VisibleIds(reviews'))]_allVars

\* A request taken is answered: no transaction waits for ever for another, and
\* no event is delivered again and again (actions.py:20-29, 110-128).
EveryRequestAnswered ==
  \A q \in Requests : pc[q] = "check" ~> pc[q] = "done"
===============================================================================
