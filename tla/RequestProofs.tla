---------------------------- MODULE RequestProofs ----------------------------
(***************************************************************************)
(* What concurrent requests guarantee each other, for every number of      *)
(* them, of accounts, of targets and of reviews, and every host.           *)
(***************************************************************************)
EXTENDS ReviewRequests, LedgerProofs

(***************************************************************************)
(* What a request has in memory, what it wrote, and where it is.           *)
(***************************************************************************)
Labels == InTransaction \cup
  {"idle", "check", "insert", "recheck", "decide", "render", "reply", "done"}

WellPlaced(q, label, i, c, w) ==
  /\ Memory(c) /\ Uncommitted(w)
  /\ label \notin InTransaction => w = NoTxn
  /\ label # "idle" => i \in Asked
  /\ label \notin {"idle", "done"} => label \in Statements[i.kind]
  /\ label = "insert" => c.policy \in Policy /\ c.owner_key \in OwnerKeys
  /\ label \in {"recheck", "decide", "render", "reply"} => c.review \in ReviewIds
  /\ label = "decide" => c.review \in DOMAIN c.rows
  /\ label \in {"emit", "commit"} /\ i.kind = "moderate" => c.review \in ReviewIds
  /\ w.tell \subseteq DOMAIN c.rows

LEMMA Placed ==
  ASSUME NEW q \in Requests, RTypeOK
  PROVE  WellPlaced(q, pc[q], input[q], ctx[q], txn[q])
BY DEF RTypeOK, WellPlaced

LEMMA NothingHeld == Memory(NoCtx) /\ Uncommitted(NoTxn)
BY DEF Memory, Uncommitted, NoCtx, NoTxn, Nothing, Partial

(***************************************************************************)
(* A step of q that leaves the tables well formed and itself well placed.  *)
(***************************************************************************)
LEMMA StepType ==
  ASSUME RTypeOK, NEW q \in Requests,
         TypeOK', DOMAIN fact' = Targets,
         NEW label \in Labels, pc' = [pc EXCEPT ![q] = label],
         DOMAIN input' = Requests, DOMAIN ctx' = Requests,
         DOMAIN txn' = Requests, DOMAIN outcome' = Requests,
         WellPlaced(q, label, input'[q], ctx'[q], txn'[q]),
         \A p \in Requests \ {q} :
           input'[p] = input[p] /\ ctx'[p] = ctx[p] /\ txn'[p] = txn[p]
  PROVE  RTypeOK'
<1>1. pc' \in [Requests -> Labels]
  BY DEF RTypeOK, Labels
<1>2. ASSUME NEW p \in Requests
      PROVE  WellPlaced(p, pc'[p], input'[p], ctx'[p], txn'[p])
  <2>1. CASE p = q
    BY <2>1 DEF RTypeOK
  <2>2. CASE p # q
    <3>1. pc'[p] = pc[p] /\ input'[p] = input[p] /\ ctx'[p] = ctx[p] /\ txn'[p] = txn[p]
      BY <2>2 DEF RTypeOK
    <3> QED BY <3>1, Placed
  <2> QED BY <2>1, <2>2
<1> QED BY <1>1, <1>2 DEF RTypeOK, WellPlaced, Labels

(***************************************************************************)
(* The four ways a statement ends keep the types.                          *)
(***************************************************************************)
LEMMA SameTables ==
  ASSUME RTypeOK, UNCHANGED <<committed, users, runtime>>
  PROVE  TypeOK' /\ DOMAIN fact' = Targets
BY DEF RTypeOK, TypeOK, Table, committed

LEMMA FinishType ==
  ASSUME RTypeOK, NEW q \in Requests, NEW answer, finish(q, answer),
         TypeOK', DOMAIN fact' = Targets, pc[q] # "idle"
  PROVE  RTypeOK'
<1>1. WellPlaced(q, "done", input[q], NoCtx, NoTxn)
  BY NothingHeld DEF WellPlaced, InTransaction, RTypeOK, NoTxn
<1>2. /\ DOMAIN input' = Requests /\ DOMAIN ctx' = Requests
      /\ DOMAIN txn' = Requests /\ DOMAIN outcome' = Requests
      /\ input'[q] = input[q] /\ ctx'[q] = NoCtx /\ txn'[q] = NoTxn
      /\ \A p \in Requests \ {q} :
           input'[p] = input[p] /\ ctx'[p] = ctx[p] /\ txn'[p] = txn[p]
  BY DEF finish, RTypeOK
<1> QED BY <1>1, <1>2, StepType DEF finish, goto, Labels

LEMMA RedeliverType ==
  ASSUME RTypeOK, NEW q \in Requests, redeliver(q), pc[q] # "idle"
  PROVE  RTypeOK'
<1>1. input[q] \in Asked
  BY DEF RTypeOK
<1>2. "check" \in Statements[input[q].kind]
  BY <1>1 DEF Asked, Statements
<1>3. WellPlaced(q, "check", input[q], NoCtx, NoTxn)
  BY <1>1, <1>2, NothingHeld DEF WellPlaced, InTransaction, NoTxn
<1>4. /\ DOMAIN input' = Requests /\ DOMAIN ctx' = Requests
      /\ DOMAIN txn' = Requests /\ DOMAIN outcome' = Requests
      /\ input'[q] = input[q] /\ ctx'[q] = NoCtx /\ txn'[q] = NoTxn
      /\ \A p \in Requests \ {q} :
           input'[p] = input[p] /\ ctx'[p] = ctx[p] /\ txn'[p] = txn[p]
  BY DEF redeliver, RTypeOK
<1>5. TypeOK' /\ DOMAIN fact' = Targets
  BY SameTables DEF redeliver
<1> QED BY <1>3, <1>4, <1>5, StepType DEF redeliver, goto, Labels

LEMMA ReadType ==
  ASSUME RTypeOK, NEW q \in Requests, NEW label \in Labels, NEW memory,
         reads(q, label, memory),
         WellPlaced(q, label, input[q], memory, txn[q])
  PROVE  RTypeOK'
<1>1. /\ DOMAIN input' = Requests /\ DOMAIN ctx' = Requests
      /\ DOMAIN txn' = Requests /\ DOMAIN outcome' = Requests
      /\ input'[q] = input[q] /\ ctx'[q] = memory /\ txn'[q] = txn[q]
      /\ \A p \in Requests \ {q} :
           input'[p] = input[p] /\ ctx'[p] = ctx[p] /\ txn'[p] = txn[p]
  BY DEF reads, RTypeOK
<1>2. TypeOK' /\ DOMAIN fact' = Targets
  BY SameTables DEF reads
<1> QED BY <1>1, <1>2, StepType DEF reads, goto

LEMMA WriteType ==
  ASSUME RTypeOK, NEW q \in Requests, NEW label \in InTransaction, NEW memory, NEW w,
         writes(q, label, memory, w),
         WellPlaced(q, label, input[q], memory, w)
  PROVE  RTypeOK'
<1>1. /\ DOMAIN input' = Requests /\ DOMAIN ctx' = Requests
      /\ DOMAIN txn' = Requests /\ DOMAIN outcome' = Requests
      /\ input'[q] = input[q] /\ ctx'[q] = memory /\ txn'[q] = w
      /\ \A p \in Requests \ {q} :
           input'[p] = input[p] /\ ctx'[p] = ctx[p] /\ txn'[p] = txn[p]
  BY DEF writes, RTypeOK
<1>2. label \in Labels
  BY DEF Labels
<1>3. TypeOK' /\ DOMAIN fact' = Targets
  BY SameTables DEF writes
<1> QED BY <1>1, <1>2, <1>3, StepType DEF writes, goto

\* Inside a transaction, what a statement of q leaves in memory and has written.
LEMMA InsideType ==
  ASSUME NEW q \in Requests, NEW label \in InTransaction, NEW i \in Asked, NEW c, NEW w,
         Memory(c), Uncommitted(w), w.tell \subseteq DOMAIN c.rows,
         label \in Statements[i.kind],
         label \in {"emit", "commit"} /\ i.kind = "moderate" => c.review \in ReviewIds
  PROVE  WellPlaced(q, label, i, c, w)
<1>1. label \notin {"idle", "done", "insert", "recheck", "decide", "render", "reply"}
  BY DEF InTransaction
<1> QED BY <1>1 DEF WellPlaced

LEMMA Joined ==
  ASSUME NEW f, NEW g
  PROVE  /\ DOMAIN joined(f, g) = DOMAIN f \cup DOMAIN g
         /\ \A k \in DOMAIN g : joined(f, g)[k] = g[k]
         /\ \A k \in DOMAIN f \ DOMAIN g : joined(f, g)[k] = f[k]
BY DEF joined, get

LEMMA JoinedType ==
  ASSUME NEW f, NEW g, NEW S, NEW T, Partial(f, S, T), Partial(g, S, T)
  PROVE  Partial(joined(f, g), S, T)
<1>1. /\ DOMAIN f \subseteq S /\ \A k \in DOMAIN f : f[k] \in T
      /\ DOMAIN g \subseteq S /\ \A k \in DOMAIN g : g[k] \in T
  BY DEF Partial
<1>2. /\ DOMAIN joined(f, g) = DOMAIN f \cup DOMAIN g
      /\ \A k \in DOMAIN g : joined(f, g)[k] = g[k]
      /\ \A k \in DOMAIN f \ DOMAIN g : joined(f, g)[k] = f[k]
  BY Joined
<1>3. DOMAIN joined(f, g) \subseteq S
  BY <1>1, <1>2
<1>4. ASSUME NEW k \in DOMAIN joined(f, g)
      PROVE  joined(f, g)[k] \in T
  <2>1. CASE k \in DOMAIN g
    BY <1>1, <1>2, <2>1
  <2>2. CASE k \in DOMAIN f \ DOMAIN g
    BY <1>1, <1>2, <2>2
  <2> QED BY <1>2, <2>1, <2>2
<1> QED BY <1>3, <1>4 DEF Partial

LEMMA AfterLabel ==
  ASSUME NEW q \in Requests, NEW owed
  PROVE  /\ after(q, owed) \in {"emit", "drop", "commit"}
         /\ after(q, owed) = "emit" <=> owed # {}
         /\ after(q, owed) = "drop" => input[q].kind = "merge"
         /\ after(q, owed) = "commit" => input[q].kind # "merge"
BY DEF after

-------------------------------------------------------------------------------
(***************************************************************************)
(* The statements of each handler keep the types.                          *)
(***************************************************************************)
LEMMA AskedFields ==
  ASSUME NEW i \in Asked
  PROVE  /\ i.kind \in {"create", "moderate", "verdict", "respond", "erase", "merge"}
         /\ i.kind = "create" => /\ i.target \in Targets /\ i.author \in Users
                                 /\ i.rating \in RATING_MIN..RATING_MAX
                                 /\ i \in [kind : {"create"}, target : Targets, author : Users,
                                           rating : RATING_MIN..RATING_MAX]
         /\ i.kind = "moderate" => i.actor \in Users
                                   /\ i \in [kind : {"moderate"}, actor : Users,
                                             action : MODERATION_ACTIONS]
         /\ i.kind \in Moderations => i.action \in MODERATION_ACTIONS
         /\ i.kind = "respond" => i.author \in Users
                                  /\ i \in [kind : {"respond"}, author : Users]
         /\ i.kind = "erase" => i.user \in Users
         /\ i.kind = "merge" => i.guest \in Users /\ i.survivor \in Users
                                /\ i.guest # i.survivor
BY DEF Asked, Moderations

\* A check either ends the request or leaves it with a policy and an owner key.
LEMMA CreateOutcomes ==
  ASSUME NEW q \in Requests, create_check(q)
  PROVE  LET i == input[q]
             policy == policyOf(i.target)
         IN  \/ \E answer : finish(q, answer) /\ UNCHANGED committed
             \/ /\ isRegistered(i.target)
                /\ policy.one_per_author => ~has_review(i.target, i.author)
                /\ \E owner_key \in resolve_owner_key(policy, i.target) :
                     /\ owner_key # Raises
                     /\ reads(q, "insert",
                          [NoCtx EXCEPT !.policy = policy, !.owner_key = owner_key])
<1> DEFINE i == input[q]
           policy == policyOf(i.target)
<1>1. CASE ~isRegistered(i.target)
  BY <1>1 DEF create_check
<1>2. CASE isRegistered(i.target) /\ policy.one_per_author /\ has_review(i.target, i.author)
  BY <1>2 DEF create_check
<1>3. CASE /\ isRegistered(i.target)
           /\ ~(policy.one_per_author /\ has_review(i.target, i.author))
  <2>1. PICK allowed \in check_can_review(policy, i.author, i.target),
             owner_key \in resolve_owner_key(policy, i.target) :
          IF allowed = Raises \/ (allowed /\ owner_key = Raises)
            THEN finish(q, "server_error") /\ UNCHANGED committed
          ELSE IF allowed /\ (policy.allow_self_review \/ ~is_owner(owner_key, i.author))
            THEN reads(q, "insert",
                   [NoCtx EXCEPT !.policy = policy, !.owner_key = owner_key])
          ELSE finish(q, "refused") /\ UNCHANGED committed
    BY <1>3 DEF create_check
  <2>2. CASE \E answer : finish(q, answer) /\ UNCHANGED committed
    BY <2>2
  <2>3. CASE /\ owner_key # Raises
             /\ reads(q, "insert", [NoCtx EXCEPT !.policy = policy, !.owner_key = owner_key])
    BY <1>3, <2>3
  <2> QED BY <2>1, <2>2, <2>3
<1> QED BY <1>1, <1>2, <1>3

LEMMA CreateCheckType ==
  ASSUME RTypeOK, NEW q \in Requests, create_check(q)
  PROVE  RTypeOK'
<1> DEFINE i == input[q]
           policy == policyOf(i.target)
<1>1. i \in Asked /\ i.kind = "create" /\ pc[q] # "idle" /\ txn[q] = NoTxn
  BY DEF RTypeOK, create_check, at, InTransaction
<1>2. CASE \E answer : finish(q, answer) /\ UNCHANGED committed
  BY <1>1, <1>2, FinishType, SameTables DEF finish
<1>3. ASSUME isRegistered(i.target),
             NEW owner_key \in resolve_owner_key(policy, i.target), owner_key # Raises,
             reads(q, "insert", [NoCtx EXCEPT !.policy = policy, !.owner_key = owner_key])
      PROVE  RTypeOK'
  <2> DEFINE c == [NoCtx EXCEPT !.policy = policy, !.owner_key = owner_key]
  <2>1. policy \in Policy /\ owner_key \in OwnerKeys
    BY <1>1, <1>3, AskedFields, PolicyResolved DEF RTypeOK
  <2> HIDE DEF policy
  <2>2. Memory(c) /\ c.policy = policy /\ c.owner_key = owner_key /\ c.rows = Nothing
    BY <2>1, NothingHeld DEF Memory, NoCtx
  <2> HIDE DEF c
  <2>3. WellPlaced(q, "insert", i, c, txn[q])
    BY <1>1, <2>1, <2>2, NothingHeld DEF WellPlaced, InTransaction, Statements, NoTxn
  <2>4. reads(q, "insert", c)
    BY <1>3 DEF c, policy
  <2> QED BY <2>3, <2>4, ReadType DEF Labels
<1> QED BY <1>1, <1>2, <1>3, CreateOutcomes

LEMMA InsertOutcomes ==
  ASSUME NEW q \in Requests, create_insert(q)
  PROVE  LET i == input[q]
             policy == ctx[q].policy
             pre == policy.moderation = "pre"
             row == [target |-> i.target, owner_key |-> ctx[q].owner_key,
                     author |-> i.author, rating |-> i.rating,
                     status |-> IF pre THEN "pending" ELSE "published",
                     unique_per_author |-> policy.one_per_author]
         IN  \/ \E r \in ReviewIds :
                  /\ holdsKey(View(q)[r], i.target, i.author)
                  /\ reads(q, "recheck", [NoCtx EXCEPT !.review = r])
             \/ /\ policy.one_per_author =>
                     /\ ~keyLocked(q, i.target, i.author)
                     /\ ~keyTaken(q, i.target, i.author)
                /\ \E r \in fresh(q), shown \in SUBSET ReviewIds :
                     /\ shown \subseteq {r} /\ shown = IF pre THEN {} ELSE {r}
                     /\ writes(q, after(q, shown),
                          [NoCtx EXCEPT !.rows = [x \in {r} |-> row]],
                          [NoTxn EXCEPT !.rows = [x \in {r} |-> row],
                                        !.tell = shown, !.published = shown])
<1> DEFINE i == input[q]
           policy == ctx[q].policy
           pre == policy.moderation = "pre"
           row == [target |-> i.target, owner_key |-> ctx[q].owner_key,
                   author |-> i.author, rating |-> i.rating,
                   status |-> IF pre THEN "pending" ELSE "published",
                   unique_per_author |-> policy.one_per_author]
<1>1. CASE policy.one_per_author /\ keyTaken(q, i.target, i.author)
  BY <1>1 DEF create_insert
<1>2. CASE ~(policy.one_per_author /\ keyTaken(q, i.target, i.author))
  <2>1. PICK r \in fresh(q) :
          LET shown == IF pre THEN {} ELSE {r}
          IN  writes(q, after(q, shown),
                [NoCtx EXCEPT !.rows = [x \in {r} |-> row]],
                [NoTxn EXCEPT !.rows = [x \in {r} |-> row],
                              !.tell = shown, !.published = shown])
    BY <1>2 DEF create_insert
  <2> DEFINE shown == IF pre THEN {} ELSE {r}
  <2>2. shown \in SUBSET ReviewIds /\ shown \subseteq {r}
    BY DEF fresh
  <2>3. policy.one_per_author => /\ ~keyLocked(q, i.target, i.author)
                                 /\ ~keyTaken(q, i.target, i.author)
    BY <1>2 DEF create_insert
  <2>4. writes(q, after(q, shown),
          [NoCtx EXCEPT !.rows = [x \in {r} |-> row]],
          [NoTxn EXCEPT !.rows = [x \in {r} |-> row], !.tell = shown, !.published = shown])
    BY <2>1
  <2>5. \E r_1 \in fresh(q), shown_1 \in SUBSET ReviewIds :
          /\ shown_1 \subseteq {r_1} /\ shown_1 = IF pre THEN {} ELSE {r_1}
          /\ writes(q, after(q, shown_1),
               [NoCtx EXCEPT !.rows = [x \in {r_1} |-> row]],
               [NoTxn EXCEPT !.rows = [x \in {r_1} |-> row],
                             !.tell = shown_1, !.published = shown_1])
    BY <2>2, <2>4
  <2> HIDE DEF row, pre
  <2> QED BY <2>3, <2>5 DEF row, pre
<1> QED BY <1>1, <1>2

LEMMA CreateInsertType ==
  ASSUME RTypeOK, NEW q \in Requests, create_insert(q)
  PROVE  RTypeOK'
<1> DEFINE i == input[q]
           policy == ctx[q].policy
           pre == policy.moderation = "pre"
           row == [target |-> i.target, owner_key |-> ctx[q].owner_key,
                   author |-> i.author, rating |-> i.rating,
                   status |-> IF pre THEN "pending" ELSE "published",
                   unique_per_author |-> policy.one_per_author]
<1>1. i \in Asked /\ i.kind = "create" /\ pc[q] = "insert" /\ txn[q] = NoTxn
  BY DEF RTypeOK, create_insert, at, InTransaction
<1>2. row \in Review
  BY <1>1, AskedFields DEF RTypeOK, Review, Statuses, Policy
<1>3. ASSUME NEW r \in ReviewIds, reads(q, "recheck", [NoCtx EXCEPT !.review = r])
      PROVE  RTypeOK'
  <2> DEFINE c == [NoCtx EXCEPT !.review = r]
  <2>1. Memory(c) /\ c.review = r /\ c.rows = Nothing
    BY NothingHeld DEF Memory, NoCtx
  <2> HIDE DEF c
  <2>2. WellPlaced(q, "recheck", i, c, txn[q])
    BY <1>1, <2>1, NothingHeld DEF WellPlaced, InTransaction, Statements, NoTxn
  <2>3. reads(q, "recheck", c)
    BY <1>3 DEF c
  <2> QED BY <2>2, <2>3, ReadType DEF Labels
<1>4. ASSUME NEW r \in fresh(q), NEW shown \in SUBSET {r},
             writes(q, after(q, shown),
               [NoCtx EXCEPT !.rows = [x \in {r} |-> row]],
               [NoTxn EXCEPT !.rows = [x \in {r} |-> row],
                             !.tell = shown, !.published = shown])
      PROVE  RTypeOK'
  <2> DEFINE c == [NoCtx EXCEPT !.rows = [x \in {r} |-> row]]
             w == [NoTxn EXCEPT !.rows = [x \in {r} |-> row],
                                !.tell = shown, !.published = shown]
  <2>1. r \in ReviewIds
    BY <1>4 DEF fresh
  <2> HIDE DEF row, pre
  <2>2. Memory(c) /\ Uncommitted(w) /\ w.tell \subseteq DOMAIN c.rows
    <3>1. Memory(c) /\ DOMAIN c.rows = {r}
      BY <1>2, <2>1, NothingHeld DEF Memory, NoCtx, Partial
    <3>2. Uncommitted(w) /\ w.tell = shown
      BY <1>2, <2>1 DEF Uncommitted, NoTxn, Nothing, Partial
    <3> QED BY <3>1, <3>2
  <2>3. writes(q, after(q, shown), c, w)
    BY <1>4
  <2> HIDE DEF c, w
  <2>4. after(q, shown) \in {"emit", "commit"}
    BY <1>1, AfterLabel
  <2>5. after(q, shown) \in InTransaction /\ after(q, shown) \in Statements[i.kind]
    BY <1>1, <2>4 DEF InTransaction, Statements
  <2>6. WellPlaced(q, after(q, shown), i, c, w)
    BY <1>1, <2>2, <2>5, InsideType
  <2> QED BY <2>3, <2>5, <2>6, WriteType
<1>5. CASE \E r \in ReviewIds : reads(q, "recheck", [NoCtx EXCEPT !.review = r])
  BY <1>3, <1>5
<1>6. CASE \E r \in fresh(q), shown \in SUBSET ReviewIds :
             /\ shown \subseteq {r}
             /\ writes(q, after(q, shown),
                  [NoCtx EXCEPT !.rows = [x \in {r} |-> row]],
                  [NoTxn EXCEPT !.rows = [x \in {r} |-> row],
                                !.tell = shown, !.published = shown])
  BY <1>4, <1>6
<1> QED BY <1>5, <1>6, InsertOutcomes

LEMMA CreateRecheckType ==
  ASSUME RTypeOK, NEW q \in Requests, create_recheck(q)
  PROVE  RTypeOK'
BY FinishType, SameTables DEF create_recheck, at, finish

LEMMA RowFields ==
  ASSUME RTypeOK, NEW r \in ReviewIds
  PROVE  /\ r \in Rows(reviews) <=> isRow(reviews[r])
         /\ isRow(reviews[r]) <=> reviews[r] \in Review
         /\ isRow(reviews[r]) => /\ reviews[r].target \in Targets
                                 /\ reviews[r].author \in Users
                                 /\ reviews[r].status \in Statuses
                                 /\ reviews[r].rating \in RATING_MIN..RATING_MAX
                                 /\ reviews[r].unique_per_author \in BOOLEAN
BY RowAssumption DEF RTypeOK, TypeOK, Table, Rows, isRow, Review

\* The view or the handler ends at once, or holds a copy of a review.
LEMMA FetchOutcomes ==
  ASSUME NEW q \in Requests, moderate_fetch(q)
  PROVE  \/ \E answer : finish(q, answer) /\ UNCHANGED committed
         \/ \E r \in Rows(reviews) :
              reads(q, "decide",
                [NoCtx EXCEPT !.review = r, !.rows = [x \in {r} |-> reviews[r]]])
BY DEF moderate_fetch

LEMMA ModerateFetchType ==
  ASSUME RTypeOK, NEW q \in Requests, moderate_fetch(q)
  PROVE  RTypeOK'
<1> DEFINE c(r) == [NoCtx EXCEPT !.review = r, !.rows = [x \in {r} |-> reviews[r]]]
<1>1. /\ input[q] \in Asked /\ input[q].kind \in Moderations
      /\ pc[q] # "idle" /\ txn[q] = NoTxn
  BY DEF RTypeOK, moderate_fetch, InTransaction
<1>2. CASE \E answer : finish(q, answer) /\ UNCHANGED committed
  BY <1>1, <1>2, FinishType, SameTables DEF finish
<1>3. ASSUME NEW r \in Rows(reviews), reads(q, "decide", c(r))
      PROVE  RTypeOK'
  <2>1. r \in ReviewIds /\ reviews[r] \in Review
    BY RowFields DEF Rows
  <2>2. Memory(c(r)) /\ c(r).review = r /\ DOMAIN c(r).rows = {r}
    BY <2>1, NothingHeld DEF Memory, NoCtx, Partial
  <2> HIDE DEF c
  <2>3. WellPlaced(q, "decide", input[q], c(r), txn[q])
    BY <1>1, <2>1, <2>2, NothingHeld
       DEF WellPlaced, InTransaction, Statements, Moderations, NoTxn
  <2> QED BY <1>3, <2>3, ReadType DEF Labels
<1> QED BY <1>2, <1>3, FetchOutcomes

LEMMA SavedRow ==
  ASSUME NEW q \in Requests, input[q] \in Asked, input[q].kind \in Moderations,
         NEW row \in Review
  PROVE  /\ saved(q, row) \in Review
         /\ saved(q, row).target = row.target
         /\ saved(q, row).author = row.author
         /\ saved(q, row).rating = row.rating
         /\ saved(q, row).unique_per_author = row.unique_per_author
         /\ saved(q, row).status = status_asked(input[q])
BY DEF saved, status_asked, Review, Statuses

LEMMA ModerateDecideType ==
  ASSUME RTypeOK, NEW q \in Requests, moderate_decide(q)
  PROVE  RTypeOK'
<1> DEFINE r == ctx[q].review
           new_status == status_asked(input[q])
           row == saved(q, reviews[r])
           w == [NoTxn EXCEPT
                   !.rows = [x \in {r} |-> row],
                   !.tell = {r},
                   !.published = IF new_status = "published" THEN {r} ELSE {},
                   !.hidden = IF new_status = "hidden" THEN {r} ELSE {}]
<1>1. /\ input[q] \in Asked /\ input[q].kind \in Moderations
      /\ pc[q] = "decide" /\ txn[q] = NoTxn
      /\ r \in ReviewIds /\ Memory(ctx[q]) /\ r \in DOMAIN ctx[q].rows
  <2>1. pc[q] = "decide" /\ input[q] \in Asked
    BY DEF RTypeOK, moderate_decide
  <2>2. input[q].kind \in Moderations
    BY <2>1, AskedFields DEF RTypeOK, Statements, Moderations
  <2> QED BY <2>1, <2>2 DEF RTypeOK, InTransaction
<1>2. CASE \E answer : finish(q, answer) /\ UNCHANGED committed
  BY <1>1, <1>2, FinishType, SameTables DEF finish
<1>3. CASE redeliver(q)
  BY <1>1, <1>3, RedeliverType
<1>4. CASE input[q].kind = "moderate" /\ reads(q, "render", ctx[q])
  <2>1. WellPlaced(q, "render", input[q], ctx[q], txn[q])
    BY <1>1, <1>4, NothingHeld DEF WellPlaced, InTransaction, Statements, NoTxn
  <2> QED BY <1>4, <2>1, ReadType DEF Labels
<1>5. CASE isRow(reviews[r]) /\ writes(q, "emit", ctx[q], w)
  <2>1. row \in Review
    BY <1>1, <1>5, RowFields, SavedRow
  <2>2. Uncommitted(w) /\ w.tell = {r}
    <3> HIDE DEF row, new_status, r
    <3> QED BY <1>1, <2>1 DEF Uncommitted, NoTxn, Nothing, Partial
  <2> HIDE DEF w
  <2>3. "emit" \in InTransaction /\ "emit" \in Statements[input[q].kind]
    BY <1>1 DEF InTransaction, Statements, Moderations
  <2>4. WellPlaced(q, "emit", input[q], ctx[q], w)
    BY <1>1, <2>2, <2>3, InsideType
  <2> QED BY <1>5, <2>3, <2>4, WriteType
<1> QED BY <1>2, <1>3, <1>4, <1>5 DEF moderate_decide

LEMMA RenderType ==
  ASSUME RTypeOK, NEW q \in Requests, render(q)
  PROVE  RTypeOK'
BY FinishType, SameTables DEF render, finish

LEMMA RespondOutcomes ==
  ASSUME NEW q \in Requests, respond_check(q)
  PROVE  \/ \E answer : finish(q, answer) /\ UNCHANGED committed
         \/ \E r \in Rows(reviews) : reads(q, "reply", [NoCtx EXCEPT !.review = r])
BY DEF respond_check

LEMMA RespondCheckType ==
  ASSUME RTypeOK, NEW q \in Requests, respond_check(q)
  PROVE  RTypeOK'
<1> DEFINE c(r) == [NoCtx EXCEPT !.review = r]
<1>1. /\ input[q] \in Asked /\ input[q].kind = "respond"
      /\ pc[q] # "idle" /\ txn[q] = NoTxn
  BY DEF RTypeOK, respond_check, at, InTransaction
<1>2. CASE \E answer : finish(q, answer) /\ UNCHANGED committed
  BY <1>1, <1>2, FinishType, SameTables DEF finish
<1>3. ASSUME NEW r \in Rows(reviews), reads(q, "reply", c(r))
      PROVE  RTypeOK'
  <2>1. r \in ReviewIds
    BY DEF Rows
  <2>2. Memory(c(r)) /\ c(r).review = r
    BY <2>1, NothingHeld DEF Memory, NoCtx
  <2> HIDE DEF c
  <2>3. WellPlaced(q, "reply", input[q], c(r), txn[q])
    BY <1>1, <2>1, <2>2, NothingHeld DEF WellPlaced, InTransaction, Statements, NoTxn
  <2> QED BY <1>3, <2>3, ReadType DEF Labels
<1> QED BY <1>2, <1>3, RespondOutcomes

LEMMA RespondReplyType ==
  ASSUME RTypeOK, NEW q \in Requests, respond_reply(q)
  PROVE  RTypeOK'
<1> DEFINE r == ctx[q].review
<1>1. /\ input[q] \in Asked /\ input[q].kind = "respond"
      /\ pc[q] = "reply" /\ txn[q] = NoTxn /\ r \in ReviewIds /\ Memory(ctx[q])
  BY DEF RTypeOK, respond_reply, at, InTransaction
<1>2. CASE finish(q, "server_error") /\ UNCHANGED committed
  BY <1>1, <1>2, FinishType, SameTables DEF finish
<1>3. CASE /\ responses' = [responses EXCEPT ![r] = input[q].author]
           /\ goto(q, "render")
           /\ UNCHANGED <<reviews, fact, told, users, runtime, input, ctx, txn, outcome>>
  <2>1. TypeOK' /\ DOMAIN fact' = Targets
    BY <1>1, <1>3, AskedFields DEF RTypeOK, TypeOK, Table
  <2>2. WellPlaced(q, "render", input'[q], ctx'[q], txn'[q])
    BY <1>1, <1>3, NothingHeld DEF WellPlaced, InTransaction, Statements, NoTxn
  <2> QED BY <1>3, <2>1, <2>2, StepType DEF goto, Labels, RTypeOK
<1> QED BY <1>2, <1>3 DEF respond_reply

(***************************************************************************)
(* What a statement reads is what it wrote, over what is committed.        *)
(***************************************************************************)
LEMMA ViewRow ==
  ASSUME RTypeOK, NEW q \in Requests
  PROVE  /\ View(q) \in Table
         /\ \A r \in DOMAIN txn[q].rows :
              r \in ReviewIds /\ View(q)[r] = txn[q].rows[r]
         /\ \A r \in ReviewIds \ DOMAIN txn[q].rows : View(q)[r] = reviews[r]
<1>1. reviews \in Table /\ Partial(txn[q].rows, ReviewIds, Review \cup {Erased})
  BY DEF RTypeOK, TypeOK, Uncommitted
<1> QED BY <1>1 DEF View, overlay, get, Partial, Table

LEMMA EraseListType ==
  ASSUME RTypeOK, NEW q \in Requests, erase_list(q)
  PROVE  RTypeOK'
<1> DEFINE listed == [r \in Authored(reviews, input[q].user) \cap VisibleIds(reviews) |->
                        reviews[r]]
           c == [NoCtx EXCEPT !.rows = listed]
<1>1. /\ input[q] \in Asked /\ input[q].kind = "erase"
      /\ pc[q] # "idle" /\ txn[q] = NoTxn
  BY DEF RTypeOK, erase_list, at, InTransaction
<1>2. Partial(listed, ReviewIds, Review)
  BY RowFields DEF Partial, Authored, Rows
<1>3. Memory(c)
  <2> HIDE DEF listed
  <2> QED BY <1>2, NothingHeld DEF Memory, NoCtx
<1>4. reads(q, "collect", c)
  BY DEF erase_list
<1> HIDE DEF c
<1>5. WellPlaced(q, "collect", input[q], c, txn[q])
  BY <1>1, <1>3, NothingHeld DEF WellPlaced, InTransaction, Statements, NoTxn
<1> QED BY <1>4, <1>5, ReadType DEF Labels, InTransaction

LEMMA EraseCollectType ==
  ASSUME RTypeOK, NEW q \in Requests, erase_collect(q)
  PROVE  RTypeOK'
<1> DEFINE c == [ctx[q] EXCEPT !.gone = Authored(reviews, input[q].user)]
<1>1. /\ input[q] \in Asked /\ input[q].kind = "erase"
      /\ Memory(ctx[q]) /\ Uncommitted(txn[q]) /\ txn[q].tell \subseteq DOMAIN ctx[q].rows
  BY DEF RTypeOK, erase_collect, at
<1>2. Memory(c) /\ c.rows = ctx[q].rows
  BY <1>1 DEF Memory, NoCtx, Authored, Rows
<1>3. reads(q, "delete_responses", c)
  BY DEF erase_collect
<1> HIDE DEF c
<1>4. WellPlaced(q, "delete_responses", input[q], c, txn[q])
  BY <1>1, <1>2 DEF WellPlaced, InTransaction, Statements
<1> QED BY <1>3, <1>4, ReadType DEF Labels, InTransaction

LEMMA DeleteResponsesType ==
  ASSUME RTypeOK, NEW q \in Requests, delete_responses(q)
  PROVE  RTypeOK'
<1> DEFINE silenced == [r \in {x \in ctx[q].gone : responses[x] # None} |-> None]
           v == joined(txn[q].responses, silenced)
           w == [txn[q] EXCEPT !.responses = v]
<1>1. /\ input[q] \in Asked /\ Memory(ctx[q]) /\ Uncommitted(txn[q])
      /\ txn[q].tell \subseteq DOMAIN ctx[q].rows
      /\ pc[q] = "delete_responses" /\ "delete_responses" \in Statements[input[q].kind]
  BY DEF RTypeOK, delete_responses
<1>2. Partial(silenced, ReviewIds, Users \cup {None})
  BY <1>1 DEF Partial, Memory
<1>3. Partial(v, ReviewIds, Users \cup {None})
  <2> HIDE DEF silenced
  <2> QED BY <1>1, <1>2, JoinedType DEF Uncommitted
<1>4. writes(q, "delete_reviews", ctx[q], w)
  BY DEF delete_responses
<1> HIDE DEF v
<1>5. Uncommitted(w) /\ w.tell = txn[q].tell
  BY <1>1, <1>3 DEF Uncommitted, NoTxn
<1> HIDE DEF w
<1>6. "delete_reviews" \in InTransaction /\ "delete_reviews" \in Statements[input[q].kind]
  BY <1>1, AskedFields DEF InTransaction, Statements
<1>7. WellPlaced(q, "delete_reviews", input[q], ctx[q], w)
  BY <1>1, <1>5, <1>6, InsideType
<1> QED BY <1>4, <1>6, <1>7, WriteType

LEMMA DeleteReviewsType ==
  ASSUME RTypeOK, NEW q \in Requests, delete_reviews(q)
  PROVE  RTypeOK'
<1> DEFINE deleted == [r \in {x \in ctx[q].gone : isRow(reviews[x])} |-> Erased]
           v == joined(txn[q].rows, deleted)
           ls == leaving(q)
           w == [txn[q] EXCEPT !.rows = v, !.tell = ls, !.hidden = @ \cup ls]
           label == IF input[q].kind = "erase" THEN "delete_replies" ELSE after(q, ls)
<1>1. /\ input[q] \in Asked /\ Memory(ctx[q]) /\ Uncommitted(txn[q])
      /\ pc[q] = "delete_reviews" /\ "delete_reviews" \in Statements[input[q].kind]
  BY DEF RTypeOK, delete_reviews
<1>2. Partial(deleted, ReviewIds, Review \cup {Erased})
  BY <1>1 DEF Partial, Memory
<1>3. Partial(v, ReviewIds, Review \cup {Erased})
  <2> HIDE DEF deleted
  <2> QED BY <1>1, <1>2, JoinedType DEF Uncommitted
<1>4. ls \subseteq DOMAIN ctx[q].rows /\ DOMAIN ctx[q].rows \subseteq ReviewIds
  BY <1>1 DEF leaving, Memory, Partial
<1>5. writes(q, label, ctx[q], w)
  BY DEF delete_reviews
<1>6. label \in InTransaction /\ label \in Statements[input[q].kind]
  BY <1>1, AskedFields, AfterLabel DEF InTransaction, Statements
<1>7. input[q].kind \in {"erase", "merge"}
  BY <1>1, AskedFields DEF Statements
<1> HIDE DEF v, ls, label
<1>8. Uncommitted(w) /\ w.tell = ls
  BY <1>1, <1>3, <1>4 DEF Uncommitted, NoTxn
<1> HIDE DEF w
<1>9. WellPlaced(q, label, input[q], ctx[q], w)
  BY <1>1, <1>4, <1>6, <1>7, <1>8, InsideType
<1> QED BY <1>5, <1>6, <1>9, WriteType

LEMMA EraseRepliesType ==
  ASSUME RTypeOK, NEW q \in Requests, erase_replies(q)
  PROVE  RTypeOK'
<1> DEFINE silenced == [r \in answered(q, input[q].user) |-> None]
           v == joined(txn[q].responses, silenced)
           w == [txn[q] EXCEPT !.responses = v]
           label == after(q, txn[q].tell)
<1>1. /\ input[q] \in Asked /\ Memory(ctx[q]) /\ Uncommitted(txn[q])
      /\ txn[q].tell \subseteq DOMAIN ctx[q].rows /\ input[q].kind = "erase"
  BY DEF RTypeOK, erase_replies, at
<1>2. Partial(silenced, ReviewIds, Users \cup {None})
  BY DEF Partial, answered
<1>3. Partial(v, ReviewIds, Users \cup {None})
  <2> HIDE DEF silenced
  <2> QED BY <1>1, <1>2, JoinedType DEF Uncommitted
<1>4. writes(q, label, ctx[q], w)
  BY DEF erase_replies
<1>5. label \in InTransaction /\ label \in Statements[input[q].kind]
  BY <1>1, AfterLabel DEF InTransaction, Statements
<1> HIDE DEF v, label
<1>6. Uncommitted(w) /\ w.tell = txn[q].tell
  BY <1>1, <1>3 DEF Uncommitted, NoTxn
<1> HIDE DEF w
<1>7. WellPlaced(q, label, input[q], ctx[q], w)
  BY <1>1, <1>5, <1>6, InsideType
<1> QED BY <1>4, <1>5, <1>7, WriteType

LEMMA MergeListType ==
  ASSUME RTypeOK, NEW q \in Requests, merge_list(q)
  PROVE  RTypeOK'
<1> DEFINE listed == [r \in Authored(reviews, input[q].guest) |-> reviews[r]]
           contested == Contested(input[q].guest, input[q].survivor)
           c == [NoCtx EXCEPT !.rows = listed, !.todo = contested]
<1>1. /\ input[q] \in Asked /\ input[q].kind = "merge"
      /\ pc[q] # "idle" /\ txn[q] = NoTxn
  BY DEF RTypeOK, merge_list, at, InTransaction
<1>2. CASE finish(q, "ok") /\ UNCHANGED committed
  BY <1>1, <1>2, FinishType, SameTables DEF finish
<1>3. CASE redeliver(q)
  BY <1>1, <1>3, RedeliverType
<1>4. CASE reads(q, "drop", c)
  <2>1. Partial(listed, ReviewIds, Review)
    BY RowFields DEF Partial, Authored, Rows
  <2>2. contested \subseteq DOMAIN listed
    BY DEF Contested
  <2>3. Memory(c)
    <3> HIDE DEF listed, contested
    <3> QED BY <2>1, <2>2, NothingHeld DEF Memory, NoCtx
  <2> HIDE DEF c
  <2>4. WellPlaced(q, "drop", input[q], c, txn[q])
    BY <1>1, <2>3, NothingHeld DEF WellPlaced, InTransaction, Statements, NoTxn
  <2> QED BY <1>4, <2>4, ReadType DEF Labels, InTransaction
<1> QED BY <1>2, <1>3, <1>4 DEF merge_list

LEMMA Unflagged ==
  ASSUME NEW row \in Review
  PROVE  /\ unflagged(row) \in Review
         /\ unflagged(row).target = row.target
         /\ unflagged(row).author = row.author
         /\ unflagged(row).rating = row.rating
         /\ unflagged(row).status = row.status
         /\ ~unflagged(row).unique_per_author
BY DEF unflagged, Review

\* The memory of a merge that has come to review r.
Turned(q, r) ==
  [ctx[q] EXCEPT !.todo = @ \ {r}, !.review = r, !.gone = {r} \cap Rows(reviews)]

LEMMA TurnedType ==
  ASSUME RTypeOK, NEW q \in Requests, NEW r \in ctx[q].todo
  PROVE  /\ Memory(Turned(q, r)) /\ r \in DOMAIN ctx[q].rows /\ r \in ReviewIds
         /\ Turned(q, r).rows = ctx[q].rows /\ Turned(q, r).review = r
         /\ Turned(q, r).gone = {r} \cap Rows(reviews)
         /\ Turned(q, r).todo = ctx[q].todo \ {r}
<1>1. Memory(ctx[q])
  BY DEF RTypeOK
<1>2. r \in DOMAIN ctx[q].rows /\ r \in ReviewIds
  BY <1>1 DEF Memory, Partial
<1> QED BY <1>1, <1>2 DEF Turned, Memory, NoCtx

LEMMA MergeDropType ==
  ASSUME RTypeOK, NEW q \in Requests, merge_drop(q)
  PROVE  RTypeOK'
<1>1. /\ input[q] \in Asked /\ input[q].kind = "merge" /\ pc[q] = "drop"
      /\ Uncommitted(txn[q]) /\ txn[q].tell \subseteq DOMAIN ctx[q].rows
  BY DEF RTypeOK, merge_drop, at
<1>2. PICK r \in ctx[q].todo :
        \/ \E label \in {"delete_responses", "drop"} : reads(q, label, Turned(q, r))
        \/ /\ isRow(reviews[r])
           /\ writes(q, "drop", Turned(q, r),
                [txn[q] EXCEPT
                  !.rows = joined(@, [x \in {r} |-> unflagged(reviews[r])])])
  BY DEF merge_drop, Turned
<1> DEFINE c == Turned(q, r)
<1>3. Memory(c) /\ r \in ReviewIds /\ c.rows = ctx[q].rows
  BY TurnedType
<1>4. ASSUME NEW label \in {"delete_responses", "drop"}, reads(q, label, c)
      PROVE  RTypeOK'
  <2>1. label \in InTransaction /\ label \in Statements[input[q].kind]
    BY <1>1, <1>4 DEF InTransaction, Statements
  <2> HIDE DEF c
  <2>2. WellPlaced(q, label, input[q], c, txn[q])
    BY <1>1, <1>3, <2>1, InsideType
  <2> QED BY <1>4, <2>1, <2>2, ReadType DEF Labels
<1>5. CASE /\ isRow(reviews[r])
           /\ writes(q, "drop", c,
                [txn[q] EXCEPT
                  !.rows = joined(@, [x \in {r} |-> unflagged(reviews[r])])])
  <2> DEFINE one == [x \in {r} |-> unflagged(reviews[r])]
             v == joined(txn[q].rows, one)
             w == [txn[q] EXCEPT !.rows = v]
  <2>1. Partial(one, ReviewIds, Review \cup {Erased})
    BY <1>3, <1>5, RowFields, Unflagged DEF Partial
  <2>2. Partial(v, ReviewIds, Review \cup {Erased})
    <3> HIDE DEF one
    <3> QED BY <1>1, <2>1, JoinedType DEF Uncommitted
  <2>3. writes(q, "drop", c, w)
    BY <1>5
  <2> HIDE DEF v, c
  <2>4. Uncommitted(w) /\ w.tell = txn[q].tell
    BY <1>1, <2>2 DEF Uncommitted, NoTxn
  <2> HIDE DEF w
  <2>5. "drop" \in InTransaction /\ "drop" \in Statements[input[q].kind]
    BY <1>1 DEF InTransaction, Statements
  <2>6. WellPlaced(q, "drop", input[q], c, w)
    BY <1>1, <1>3, <2>4, <2>5, InsideType
  <2> QED BY <2>3, <2>5, <2>6, WriteType
<1> QED BY <1>2, <1>4, <1>5

(***************************************************************************)
(* What the reassignment of a merge writes.                                *)
(***************************************************************************)
Moving(q) == Authored(View(q), input[q].guest)

Moved(q) == [r \in Moving(q) |-> [View(q)[r] EXCEPT !.author = input[q].survivor]]

RowsMoved(q) == joined(txn[q].rows, Moved(q))

LEMMA MovedRows ==
  ASSUME RTypeOK, NEW q \in Requests, input[q].survivor \in Users
  PROVE  /\ Moving(q) \subseteq ReviewIds
         /\ DOMAIN RowsMoved(q) = DOMAIN txn[q].rows \cup Moving(q)
         /\ \A r \in Moving(q) :
              /\ View(q)[r] \in Review /\ View(q)[r].author = input[q].guest
              /\ RowsMoved(q)[r] = Moved(q)[r]
              /\ RowsMoved(q)[r] \in Review
              /\ RowsMoved(q)[r].author = input[q].survivor
              /\ RowsMoved(q)[r].target = View(q)[r].target
              /\ RowsMoved(q)[r].rating = View(q)[r].rating
              /\ RowsMoved(q)[r].status = View(q)[r].status
              /\ RowsMoved(q)[r].unique_per_author = View(q)[r].unique_per_author
         /\ \A r \in DOMAIN RowsMoved(q) \ Moving(q) :
              r \in DOMAIN txn[q].rows /\ RowsMoved(q)[r] = txn[q].rows[r]
         /\ Partial(RowsMoved(q), ReviewIds, Review \cup {Erased})
<1> DEFINE into == input[q].survivor
<1>0. /\ DOMAIN Moved(q) = Moving(q)
      /\ \A r \in Moving(q) : RowsMoved(q)[r] = Moved(q)[r]
      /\ \A r \in DOMAIN txn[q].rows \ Moving(q) : RowsMoved(q)[r] = txn[q].rows[r]
      /\ DOMAIN RowsMoved(q) = DOMAIN txn[q].rows \cup Moving(q)
  <2>1. DOMAIN Moved(q) = Moving(q)
    BY DEF Moved
  <2> QED BY <2>1 DEF RowsMoved, joined, get
<1>1. /\ Moving(q) \subseteq ReviewIds
      /\ \A r \in Moving(q) : View(q)[r] \in Review /\ View(q)[r].author = input[q].guest
  BY ViewRow, RowAssumption DEF Moving, Authored, Rows, Table
<1>2. \A r \in Moving(q) :
        RowsMoved(q)[r] = Moved(q)[r] /\ Moved(q)[r] = [View(q)[r] EXCEPT !.author = into]
  BY <1>0 DEF Moved
<1>4. ASSUME NEW r \in Moving(q)
      PROVE  /\ RowsMoved(q)[r] \in Review
             /\ RowsMoved(q)[r].author = into
             /\ RowsMoved(q)[r].target = View(q)[r].target
             /\ RowsMoved(q)[r].rating = View(q)[r].rating
             /\ RowsMoved(q)[r].status = View(q)[r].status
             /\ RowsMoved(q)[r].unique_per_author = View(q)[r].unique_per_author
  <2>1. PICK row \in Review : row = View(q)[r]
    BY <1>1, <1>4
  <2>2. RowsMoved(q)[r] = [row EXCEPT !.author = into]
    BY <1>2, <1>4, <2>1
  <2> QED BY <2>1, <2>2 DEF Review
<1>5. \A r \in DOMAIN RowsMoved(q) \ Moving(q) :
        r \in DOMAIN txn[q].rows /\ RowsMoved(q)[r] = txn[q].rows[r]
  BY <1>0
<1>6. Partial(txn[q].rows, ReviewIds, Review \cup {Erased})
  BY DEF RTypeOK, Uncommitted
<1>7. DOMAIN RowsMoved(q) = DOMAIN txn[q].rows \cup Moving(q)
  BY <1>0
<1>8. Partial(RowsMoved(q), ReviewIds, Review \cup {Erased})
  BY <1>1, <1>4, <1>5, <1>6, <1>7 DEF Partial
<1> QED BY <1>1, <1>2, <1>4, <1>5, <1>7, <1>8

LEMMA MergeMoveType ==
  ASSUME RTypeOK, NEW q \in Requests, merge_move(q)
  PROVE  RTypeOK'
<1> DEFINE rows == RowsMoved(q)
           w == [txn[q] EXCEPT !.rows = rows]
<1>1. /\ input[q] \in Asked /\ input[q].kind = "merge" /\ pc[q] = "drop"
      /\ Uncommitted(txn[q]) /\ input[q].survivor \in Users /\ Memory(ctx[q])
      /\ txn[q].tell \subseteq DOMAIN ctx[q].rows
  BY AskedFields DEF RTypeOK, merge_move, at
<1>2. CASE redeliver(q)
  BY <1>1, <1>2, RedeliverType
<1>3. CASE writes(q, "move_replies", ctx[q], w)
  <2>1. Partial(rows, ReviewIds, Review \cup {Erased})
    BY <1>1, MovedRows
  <2> HIDE DEF rows
  <2>2. Uncommitted(w) /\ w.tell = txn[q].tell
    BY <1>1, <2>1 DEF Uncommitted, NoTxn
  <2> HIDE DEF w
  <2>3. "move_replies" \in InTransaction /\ "move_replies" \in Statements[input[q].kind]
    BY <1>1 DEF InTransaction, Statements
  <2>4. WellPlaced(q, "move_replies", input[q], ctx[q], w)
    BY <1>1, <2>2, <2>3, InsideType
  <2> QED BY <1>3, <2>3, <2>4, WriteType
<1> QED BY <1>2, <1>3 DEF merge_move, RowsMoved, Moved, Moving

LEMMA MergeMoveRepliesType ==
  ASSUME RTypeOK, NEW q \in Requests, merge_move_replies(q)
  PROVE  RTypeOK'
<1> DEFINE given == [r \in answered(q, input[q].guest) |-> input[q].survivor]
           v == joined(txn[q].responses, given)
           w == [txn[q] EXCEPT !.responses = v]
<1>1. /\ input[q] \in Asked /\ Memory(ctx[q]) /\ Uncommitted(txn[q])
      /\ txn[q].tell \subseteq DOMAIN ctx[q].rows /\ input[q].kind = "merge"
      /\ input[q].survivor \in Users
  BY AskedFields DEF RTypeOK, merge_move_replies, at
<1>2. Partial(given, ReviewIds, Users \cup {None})
  BY <1>1 DEF Partial, answered
<1>3. Partial(v, ReviewIds, Users \cup {None})
  <2> HIDE DEF given
  <2> QED BY <1>1, <1>2, JoinedType DEF Uncommitted
<1>4. writes(q, "commit", ctx[q], w)
  BY DEF merge_move_replies
<1>5. "commit" \in InTransaction /\ "commit" \in Statements[input[q].kind]
  BY <1>1 DEF InTransaction, Statements
<1> HIDE DEF v
<1>6. Uncommitted(w) /\ w.tell = txn[q].tell
  BY <1>1, <1>3 DEF Uncommitted, NoTxn
<1> HIDE DEF w
<1>7. WellPlaced(q, "commit", input[q], ctx[q], w)
  BY <1>1, <1>5, <1>6, InsideType
<1> QED BY <1>4, <1>5, <1>7, WriteType

\* What the transaction of q has emitted, with the fact of review r.
Counting(q, r) ==
  joined(txn[q].fact, [x \in {ctx[q].rows[r].target} |-> counted(q, ctx[q].rows[r].target)])

LEMMA EmitType ==
  ASSUME RTypeOK, NEW q \in Requests, emit(q)
  PROVE  RTypeOK'
<1>1. /\ input[q] \in Asked /\ pc[q] = "emit" /\ Uncommitted(txn[q]) /\ Memory(ctx[q])
      /\ "emit" \in Statements[input[q].kind] /\ txn[q].tell \subseteq DOMAIN ctx[q].rows
      /\ input[q].kind = "moderate" => ctx[q].review \in ReviewIds
  BY DEF RTypeOK, emit
<1>2. PICK r \in txn[q].tell :
        writes(q, after(q, txn[q].tell \ {r}), ctx[q],
          [txn[q] EXCEPT !.tell = txn[q].tell \ {r}, !.fact = Counting(q, r)])
  BY DEF emit, Counting
<1> DEFINE label == after(q, txn[q].tell \ {r})
           w == [txn[q] EXCEPT !.tell = txn[q].tell \ {r}, !.fact = Counting(q, r)]
<1>3. ctx[q].rows[r].target \in Targets
  BY <1>1 DEF Memory, Partial, Review
<1>4. DOMAIN Counting(q, r) \subseteq Targets
  <2> DEFINE t == ctx[q].rows[r].target
             more == [x \in {t} |-> counted(q, t)]
  <2>1. DOMAIN more = {t}
    OBVIOUS
  <2>2. DOMAIN txn[q].fact \subseteq Targets
    BY <1>1 DEF Uncommitted
  <2>3. DOMAIN Counting(q, r) = DOMAIN txn[q].fact \cup {t}
    BY <2>1 DEF Counting, joined
  <2> QED BY <1>3, <2>2, <2>3
<1>5. Uncommitted(w) /\ w.tell = txn[q].tell \ {r}
  BY <1>1, <1>4 DEF Uncommitted, NoTxn
<1>6. label \in InTransaction /\ label \in Statements[input[q].kind]
  BY <1>1, AskedFields, AfterLabel DEF InTransaction, Statements
<1>7. writes(q, label, ctx[q], w)
  BY <1>2
<1> HIDE DEF w, label
<1>8. WellPlaced(q, label, input[q], ctx[q], w)
  BY <1>1, <1>5, <1>6, InsideType
<1> QED BY <1>6, <1>7, <1>8, WriteType

LEMMA CommitType ==
  ASSUME RTypeOK, NEW q \in Requests, commit(q)
  PROVE  RTypeOK'
<1>1. /\ input[q] \in Asked /\ pc[q] = "commit" /\ Uncommitted(txn[q])
      /\ "commit" \in Statements[input[q].kind] /\ Memory(ctx[q])
  BY DEF RTypeOK, commit
<1>2. CASE redeliver(q)
  BY <1>1, <1>2, RedeliverType
<1>3. CASE /\ reviews' = View(q)
           /\ responses' = overlay(responses, txn[q].responses)
           /\ fact' = overlay(fact, txn[q].fact)
           /\ told' = (told \cup txn[q].published) \ txn[q].hidden
           /\ IF input[q].kind = "moderate"
                THEN /\ goto(q, "render")
                     /\ txn' = [txn EXCEPT ![q] = NoTxn]
                     /\ UNCHANGED <<users, runtime, input, ctx, outcome>>
                ELSE finish(q, "ok")
  <2>1. UNCHANGED <<users, runtime, input>>
    BY <1>3 DEF finish
  <2>2. responses' \in [ReviewIds -> Users \cup {None}]
    BY <1>1, <1>3 DEF RTypeOK, TypeOK, overlay, get, Uncommitted, Partial
  <2>3. told' \subseteq ReviewIds
    BY <1>1, <1>3 DEF RTypeOK, TypeOK, Uncommitted
  <2>4. TypeOK'
    BY <1>3, <2>1, <2>2, <2>3, ViewRow DEF RTypeOK, TypeOK
  <2>5. DOMAIN fact' = Targets
    BY <1>3 DEF overlay, RTypeOK
  <2>6. CASE finish(q, "ok")
    BY <1>1, <2>4, <2>5, <2>6, FinishType
  <2>7. CASE /\ input[q].kind = "moderate" /\ goto(q, "render")
             /\ txn' = [txn EXCEPT ![q] = NoTxn]
             /\ UNCHANGED <<users, runtime, input, ctx, outcome>>
    <3>1. WellPlaced(q, "render", input'[q], ctx'[q], txn'[q])
      BY <1>1, <2>7, NothingHeld DEF WellPlaced, InTransaction, Statements, RTypeOK, NoTxn
    <3> QED BY <2>4, <2>5, <2>7, <3>1, StepType DEF goto, Labels, RTypeOK
  <2> QED BY <1>3, <2>6, <2>7
<1> QED BY <1>2, <1>3 DEF commit

LEMMA ArriveType ==
  ASSUME RTypeOK, NEW q \in Requests, arrive(q)
  PROVE  RTypeOK'
<1>1. PICK i \in Inputs : input' = [input EXCEPT ![q] = i]
  BY DEF arrive
<1>2. i \in Asked
  BY RequestAssumption
<1>3. "check" \in Statements[i.kind]
  BY <1>2 DEF Asked, Statements
<1>4. TypeOK' /\ DOMAIN fact' = Targets
  BY SameTables DEF arrive
<1>5. /\ DOMAIN input' = Requests /\ DOMAIN ctx' = Requests
      /\ DOMAIN txn' = Requests /\ DOMAIN outcome' = Requests
      /\ input'[q] = i /\ ctx'[q] = ctx[q] /\ txn'[q] = NoTxn
      /\ Memory(ctx[q])
      /\ \A p \in Requests \ {q} :
           input'[p] = input[p] /\ ctx'[p] = ctx[p] /\ txn'[p] = txn[p]
  BY <1>1 DEF arrive, RTypeOK, InTransaction
<1>6. WellPlaced(q, "check", input'[q], ctx'[q], txn'[q])
  BY <1>2, <1>3, <1>5, NothingHeld DEF WellPlaced, InTransaction, NoTxn
<1> QED BY <1>4, <1>5, <1>6, StepType DEF arrive, goto, Labels

LEMMA StepTypes ==
  ASSUME RTypeOK, NEW q \in Requests, Step(q)
  PROVE  RTypeOK'
BY CreateCheckType, CreateInsertType, CreateRecheckType, ModerateFetchType,
   ModerateDecideType, RenderType, RespondCheckType, RespondReplyType,
   DeleteResponsesType, DeleteReviewsType,
   EraseListType, EraseCollectType, EraseRepliesType,
   MergeListType, MergeDropType, MergeMoveType, MergeMoveRepliesType,
   EmitType, CommitType DEF Step

(***************************************************************************)
(* What is not a request: a user row that lands, a type the host registers *)
(* anew, and nothing.                                                      *)
(***************************************************************************)
Surroundings ==
  \/ \E u \in Late : account_lands(u)
  \/ \E type \in Types, policy \in Registrations : host_registers(type, policy)
  \/ UNCHANGED allVars

LEMMA Cases ==
  ASSUME [RNext]_allVars
  PROVE  \/ \E q \in Requests : arrive(q) /\ watched
         \/ \E q \in Requests : Step(q) /\ watched
         \/ Surroundings
BY DEF RNext, Surroundings, Quiescent

LEMMA SurroundingsType ==
  ASSUME RTypeOK, Surroundings
  PROVE  RTypeOK'
<1>1. CASE UNCHANGED allVars
  BY <1>1, SameTables DEF allVars, RTypeOK, committed
<1>2. ASSUME NEW u \in Late, account_lands(u) PROVE RTypeOK'
  <2>1. TypeOK'
    BY <1>2, RequestAssumption, OtherTypes DEF account_lands, RTypeOK
  <2> QED BY <1>2, <2>1 DEF account_lands, user_row_lands, requestVars, RTypeOK
<1>3. ASSUME NEW type \in Types, NEW policy \in Registrations, host_registers(type, policy)
      PROVE  RTypeOK'
  <2>1. TypeOK'
    BY <1>3, OtherTypes DEF host_registers, RTypeOK
  <2> QED BY <1>3, <2>1 DEF host_registers, register_target_type, requestVars, RTypeOK
<1> QED BY <1>1, <1>2, <1>3 DEF Surroundings

(***************************************************************************)
(* The tables, the memory of every request and what its transaction wrote  *)
(* stay well formed, however the statements interleave.                    *)
(***************************************************************************)
THEOREM RequestTypes == RSpec => []RTypeOK
<1>1. RInit => RTypeOK
  BY NothingHeld, RequestAssumption
     DEF RInit, RTypeOK, TypeOK, Table, Nothing, InTransaction, NoTxn
<1>2. RTypeOK /\ [RNext]_allVars => RTypeOK'
  BY Cases, ArriveType, StepTypes, SurroundingsType
<1> QED BY <1>1, <1>2, PTL DEF RSpec

-------------------------------------------------------------------------------
(***************************************************************************)
(* What a statement of q does.  It either leaves the tables and what q has *)
(* written alone (or q gives up what it wrote), or it is one of the writes *)
(* and commits below.                                                      *)
(***************************************************************************)
OthersStay(q) ==
  /\ UNCHANGED <<users, runtime>> /\ input'[q] = input[q]
  /\ \A p \in Requests \ {q} :
       /\ txn'[p] = txn[p] /\ input'[p] = input[p] /\ ctx'[p] = ctx[p]
       /\ pc'[p] = pc[p] /\ outcome'[p] = outcome[p]

Rests(q) == UNCHANGED committed /\ txn'[q] \in {txn[q], NoTxn}

Replies(q) ==
  LET r == ctx[q].review
  IN  /\ pc[q] = "reply" /\ r \in ReviewIds /\ input[q].author \in Users
      /\ input[q].kind = "respond"
      /\ ~responseLocked(q, r) /\ isRow(reviews[r]) /\ responses[r] = None
      /\ responses' = [responses EXCEPT ![r] = input[q].author]
      /\ txn'[q] = txn[q] /\ UNCHANGED <<reviews, fact, told>>

\* A statement that lists rows inside a transaction.
Looks(q) ==
  /\ UNCHANGED committed
  /\ \/ /\ at(q, "erase", "check") /\ pc'[q] = "collect" /\ txn'[q] = NoTxn
        /\ ctx'[q].rows = [r \in Authored(reviews, input[q].user) \cap VisibleIds(reviews) |->
                             reviews[r]]
     \/ /\ at(q, "erase", "collect") /\ pc'[q] = "delete_responses" /\ txn'[q] = txn[q]
        /\ ctx'[q].rows = ctx[q].rows /\ ctx'[q].gone = Authored(reviews, input[q].user)
     \/ /\ at(q, "merge", "check") /\ pc'[q] = "drop" /\ txn'[q] = NoTxn
        /\ ctx'[q].rows = [r \in Authored(reviews, input[q].guest) |-> reviews[r]]

\* A merge comes to its next duplicate: one to delete, or one without a flag.
Turns(q) ==
  /\ UNCHANGED committed /\ at(q, "merge", "drop") /\ txn'[q] = txn[q]
  /\ pc'[q] \in {"delete_responses", "drop"}
  /\ \E r \in ctx[q].todo : ctx'[q] = Turned(q, r)

\* The same fields of a transaction, but for its rows or its responses.
SameFacts(q) == txn'[q].fact = txn[q].fact /\ txn'[q].published = txn[q].published

SameResponses(q) == txn'[q].responses = txn[q].responses

SameTold(q) ==
  SameFacts(q) /\ txn'[q].tell = txn[q].tell /\ txn'[q].hidden = txn[q].hidden

Inserts(q) ==
  /\ UNCHANGED committed /\ pc[q] = "insert" /\ input[q].kind = "create"
  /\ txn[q] = NoTxn
  /\ ctx[q].policy.one_per_author =>
       /\ ~keyLocked(q, input[q].target, input[q].author)
       /\ ~keyTaken(q, input[q].target, input[q].author)
  /\ \E r \in ReviewIds :
       LET row == txn'[q].rows[r]
       IN  /\ reviews[r] = Unwritten /\ ~rowLocked(q, r)
           /\ DOMAIN txn'[q].rows = {r} /\ row \in Review
           /\ row.target = input[q].target /\ row.author = input[q].author
           /\ row.status = IF ctx[q].policy.moderation = "pre" THEN "pending" ELSE "published"
           /\ row.unique_per_author = ctx[q].policy.one_per_author
           /\ ctx'[q].rows = txn'[q].rows
           /\ txn'[q].tell = (IF row.status = "published" THEN {r} ELSE {})
           /\ txn'[q].published = txn'[q].tell /\ txn'[q].hidden = {}
  /\ txn'[q].responses = Nothing /\ txn'[q].fact = Nothing
  /\ pc'[q] = IF txn'[q].tell # {} THEN "emit" ELSE "commit"

Decides(q) ==
  LET r == ctx[q].review
      row == saved(q, reviews[r])
  IN  /\ UNCHANGED committed /\ pc[q] = "decide" /\ input[q].kind \in Moderations
      /\ txn[q] = NoTxn /\ ctx'[q] = ctx[q] /\ r \in DOMAIN ctx[q].rows
      /\ r \in ReviewIds /\ isRow(reviews[r]) /\ ~rowLocked(q, r)
      /\ DOMAIN txn'[q].rows = {r} /\ txn'[q].rows[r] = row /\ row \in Review
      /\ row.status \in {"published", "hidden"}
      /\ txn'[q].tell = {r}
      /\ txn'[q].published = (IF row.status = "published" THEN {r} ELSE {})
      /\ txn'[q].hidden = (IF row.status = "hidden" THEN {r} ELSE {})
      /\ txn'[q].responses = Nothing /\ txn'[q].fact = Nothing
      /\ pc'[q] = "emit"

\* A merge comes to a duplicate that stays, and takes its flag off.
Unflags(q) ==
  /\ UNCHANGED committed /\ at(q, "merge", "drop") /\ pc'[q] = "drop"
  /\ \E r \in ctx[q].todo :
       /\ ctx'[q] = Turned(q, r) /\ isRow(reviews[r]) /\ ~rowLocked(q, r)
       /\ ~upholds_one_per_author(ctx[q].rows[r].target)
       /\ DOMAIN txn'[q].rows = DOMAIN txn[q].rows \cup {r}
       /\ txn'[q].rows[r] = unflagged(reviews[r])
       /\ \A s \in DOMAIN txn[q].rows \ {r} : txn'[q].rows[s] = txn[q].rows[s]
  /\ SameTold(q) /\ SameResponses(q)

\* A statement that writes responses and nothing else.
Silences(q) ==
  /\ UNCHANGED committed /\ ctx'[q] = ctx[q]
  /\ \/ pc[q] = "delete_responses" /\ pc'[q] = "delete_reviews"
     \/ at(q, "erase", "delete_replies") /\ pc'[q] = after(q, txn[q].tell)
     \/ at(q, "merge", "move_replies") /\ pc'[q] = "commit"
  /\ \A r \in DOMAIN txn'[q].responses :
       \/ r \in DOMAIN txn[q].responses /\ txn'[q].responses[r] = txn[q].responses[r]
       \/ /\ ~responseLocked(q, r)
          /\ \/ txn'[q].responses[r] = None
             \/ /\ at(q, "merge", "move_replies")
                /\ txn'[q].responses[r] = input[q].survivor
                /\ get(txn[q].responses, r, responses[r]) = input[q].guest
  /\ txn'[q].rows = txn[q].rows /\ SameTold(q)

Deletes(q) ==
  /\ UNCHANGED committed /\ pc[q] = "delete_reviews" /\ ctx'[q] = ctx[q]
  /\ pc'[q] = (IF input[q].kind = "erase" THEN "delete_replies" ELSE after(q, leaving(q)))
  /\ \A r \in ctx[q].gone : ~rowLocked(q, r)
  /\ DOMAIN txn'[q].rows = DOMAIN txn[q].rows \cup {r \in ctx[q].gone : isRow(reviews[r])}
  /\ \A r \in DOMAIN txn'[q].rows :
       txn'[q].rows[r] = IF r \in ctx[q].gone /\ isRow(reviews[r])
                           THEN Erased ELSE txn[q].rows[r]
  /\ SameFacts(q) /\ SameResponses(q)
  /\ txn'[q].tell = leaving(q) /\ txn'[q].hidden = txn[q].hidden \cup leaving(q)

Moves(q) ==
  LET into == input[q].survivor
      flagged == {r \in Moving(q) : Moved(q)[r].unique_per_author}
  IN  /\ UNCHANGED committed /\ at(q, "merge", "drop")
      /\ pc'[q] = "move_replies" /\ ctx'[q] = ctx[q] /\ into \in Users
      /\ \A r \in Moving(q) : ~rowLocked(q, r)
      /\ \A r \in flagged : ~keyLocked(q, Moved(q)[r].target, into)
      /\ \A r \in flagged : ~keyTaken(q, Moved(q)[r].target, into)
      /\ txn'[q].rows = RowsMoved(q) /\ SameTold(q) /\ SameResponses(q)

Emits(q) ==
  /\ UNCHANGED committed /\ pc[q] = "emit" /\ ctx'[q] = ctx[q]
  /\ txn'[q].rows = txn[q].rows /\ SameResponses(q)
  /\ txn'[q].published = txn[q].published /\ txn'[q].hidden = txn[q].hidden
  /\ \E r \in txn[q].tell :
       /\ txn'[q].tell = txn[q].tell \ {r} /\ txn'[q].fact = Counting(q, r)
       /\ pc'[q] = after(q, txn'[q].tell)

Commits(q) ==
  /\ pc[q] = "commit" /\ ~dangling(q) /\ txn'[q] = NoTxn
  /\ reviews' = View(q)
  /\ responses' = overlay(responses, txn[q].responses)
  /\ fact' = overlay(fact, txn[q].fact)
  /\ told' = (told \cup txn[q].published) \ txn[q].hidden
  /\ IF input[q].kind = "moderate"
       THEN pc'[q] = "render" /\ ctx'[q] = ctx[q] /\ outcome'[q] = outcome[q]
       ELSE pc'[q] = "done" /\ outcome'[q] = "ok" /\ ctx'[q] = NoCtx

LEMMA Others ==
  ASSUME RTypeOK, NEW q \in Requests
  PROVE  /\ \A answer : finish(q, answer) =>
              /\ OthersStay(q) /\ txn'[q] = NoTxn /\ pc'[q] = "done"
              /\ ctx'[q] = NoCtx /\ outcome'[q] = answer
         /\ redeliver(q) =>
              OthersStay(q) /\ Rests(q) /\ pc'[q] = "check" /\ ctx'[q] = NoCtx
         /\ \A label, memory : reads(q, label, memory) =>
              /\ OthersStay(q) /\ Rests(q) /\ txn'[q] = txn[q]
              /\ pc'[q] = label /\ ctx'[q] = memory
         /\ \A label, memory, w : writes(q, label, memory, w) =>
              /\ OthersStay(q) /\ UNCHANGED committed /\ txn'[q] = w
              /\ pc'[q] = label /\ ctx'[q] = memory
BY DEF RTypeOK, finish, redeliver, reads, writes, goto, OthersStay, Rests

LEMMA RestingSteps ==
  ASSUME RTypeOK, NEW q \in Requests,
         \/ create_check(q) \/ create_recheck(q) \/ moderate_fetch(q) \/ render(q)
         \/ respond_check(q) \/ erase_list(q) \/ erase_collect(q) \/ merge_list(q)
  PROVE  OthersStay(q) /\ Rests(q)
<1>1. \A answer : finish(q, answer) /\ UNCHANGED committed => OthersStay(q) /\ Rests(q)
  BY Others DEF Rests
<1>2. CASE create_check(q) \/ create_recheck(q)
  BY <1>1, <1>2, Others, CreateOutcomes DEF create_recheck
<1>3. CASE moderate_fetch(q)
  BY <1>1, <1>3, Others, FetchOutcomes
<1>4. CASE render(q) \/ respond_check(q)
  BY <1>1, <1>4, Others, RespondOutcomes DEF render
<1>5. CASE erase_list(q) \/ erase_collect(q) \/ merge_list(q)
  BY <1>1, <1>5, Others DEF erase_list, erase_collect, merge_list
<1> QED BY <1>2, <1>3, <1>4, <1>5
LEMMA InsertEffect ==
  ASSUME RTypeOK, NEW q \in Requests, create_insert(q)
  PROVE  /\ OthersStay(q)
         /\ \/ Rests(q) /\ pc'[q] \notin InTransaction
            \/ Inserts(q)
<1> DEFINE i == input[q]
           policy == ctx[q].policy
           pre == policy.moderation = "pre"
           row == [target |-> i.target, owner_key |-> ctx[q].owner_key,
                   author |-> i.author, rating |-> i.rating,
                   status |-> IF pre THEN "pending" ELSE "published",
                   unique_per_author |-> policy.one_per_author]
           c(r) == [NoCtx EXCEPT !.rows = [x \in {r} |-> row]]
           w(r, shown) == [NoTxn EXCEPT !.rows = [x \in {r} |-> row],
                                        !.tell = shown, !.published = shown]
<1>1. i \in Asked /\ i.kind = "create" /\ pc[q] = "insert" /\ txn[q] = NoTxn
  BY DEF RTypeOK, create_insert, at, InTransaction
<1>2. row \in Review
  BY <1>1, AskedFields DEF RTypeOK, Review, Statuses, Policy
<1>3. CASE \E r \in ReviewIds : reads(q, "recheck", [NoCtx EXCEPT !.review = r])
  BY <1>3, Others DEF InTransaction
<1>4. ASSUME policy.one_per_author => ~keyLocked(q, i.target, i.author)
                                      /\ ~keyTaken(q, i.target, i.author),
             NEW r \in fresh(q), NEW shown, shown = (IF pre THEN {} ELSE {r}),
             writes(q, after(q, shown), c(r), w(r, shown))
      PROVE  OthersStay(q) /\ Inserts(q)
  <2>1. r \in ReviewIds /\ reviews[r] = Unwritten /\ ~rowLocked(q, r)
    BY <1>4 DEF fresh
  <2>2. /\ row.target = i.target /\ row.author = i.author
        /\ row.status = (IF pre THEN "pending" ELSE "published")
        /\ row.unique_per_author = policy.one_per_author
    OBVIOUS
  <2>3. shown = (IF row.status = "published" THEN {r} ELSE {})
    BY <1>4, <2>2
  <2> HIDE DEF row, pre
  <2>4. /\ OthersStay(q) /\ UNCHANGED committed /\ txn'[q] = w(r, shown)
        /\ pc'[q] = after(q, shown) /\ ctx'[q] = c(r)
    BY <1>4, Others
  <2>5. pc'[q] = IF shown # {} THEN "emit" ELSE "commit"
    BY <1>1, <2>4 DEF after
  <2>6. /\ DOMAIN w(r, shown).rows = {r} /\ w(r, shown).rows[r] = row
        /\ w(r, shown).tell = shown /\ w(r, shown).hidden = {}
        /\ w(r, shown).published = shown
        /\ w(r, shown).responses = Nothing /\ w(r, shown).fact = Nothing
        /\ c(r).rows = w(r, shown).rows
    BY DEF NoTxn, NoCtx
  <2> HIDE DEF w, c
  <2>7. (row.status = (IF policy.moderation = "pre" THEN "pending" ELSE "published"))
    BY <2>2 DEF pre
  <2> QED BY <1>1, <1>2, <1>4, <2>1, <2>2, <2>3, <2>4, <2>5, <2>6, <2>7 DEF Inserts
<1>5. CASE /\ policy.one_per_author => /\ ~keyLocked(q, i.target, i.author)
                                       /\ ~keyTaken(q, i.target, i.author)
           /\ \E r \in fresh(q), shown \in SUBSET ReviewIds :
                /\ shown \subseteq {r} /\ shown = IF pre THEN {} ELSE {r}
                /\ writes(q, after(q, shown), c(r), w(r, shown))
  BY <1>4, <1>5
<1> QED BY <1>3, <1>5, <1>1, InsertOutcomes, Others DEF InTransaction

LEMMA DecideEffect ==
  ASSUME RTypeOK, NEW q \in Requests, moderate_decide(q)
  PROVE  /\ OthersStay(q)
         /\ \/ Rests(q) /\ pc'[q] \notin InTransaction
            \/ Decides(q)
<1> DEFINE r == ctx[q].review
           new_status == status_asked(input[q])
           row == saved(q, reviews[r])
           w == [NoTxn EXCEPT
                   !.rows = [x \in {r} |-> row],
                   !.tell = {r},
                   !.published = IF new_status = "published" THEN {r} ELSE {},
                   !.hidden = IF new_status = "hidden" THEN {r} ELSE {}]
<1>1. /\ input[q] \in Asked /\ pc[q] = "decide" /\ txn[q] = NoTxn /\ r \in ReviewIds
      /\ r \in DOMAIN ctx[q].rows
  BY DEF RTypeOK, moderate_decide, InTransaction
<1>2. input[q].kind \in Moderations
  BY <1>1, AskedFields DEF RTypeOK, Statements, Moderations
<1>3. CASE \E answer : finish(q, answer) /\ UNCHANGED committed
  BY <1>3, Others DEF Rests, InTransaction
<1>4. CASE redeliver(q) \/ reads(q, "render", ctx[q])
  BY <1>4, Others DEF InTransaction
<1>5. CASE ~rowLocked(q, r) /\ isRow(reviews[r]) /\ writes(q, "emit", ctx[q], w)
  <2>1. row \in Review /\ row.status = new_status
    BY <1>1, <1>2, <1>5, RowFields, SavedRow
  <2>2. /\ OthersStay(q) /\ UNCHANGED committed /\ txn'[q] = w /\ pc'[q] = "emit"
        /\ ctx'[q] = ctx[q]
    BY <1>5, Others
  <2>3. new_status \in {"published", "hidden"}
    BY DEF status_asked
  <2>4. /\ DOMAIN w.rows = {r} /\ w.rows[r] = row
        /\ w.tell = {r}
        /\ w.published = (IF new_status = "published" THEN {r} ELSE {})
        /\ w.hidden = (IF new_status = "hidden" THEN {r} ELSE {})
        /\ w.responses = Nothing /\ w.fact = Nothing
    <3> HIDE DEF row, new_status, r
    <3> QED BY DEF NoTxn
  <2> HIDE DEF w, row, new_status
  <2> QED BY <1>1, <1>2, <1>5, <2>1, <2>2, <2>3, <2>4 DEF Decides, row
<1> QED BY <1>3, <1>4, <1>5 DEF moderate_decide

LEMMA ReplyEffect ==
  ASSUME RTypeOK, NEW q \in Requests, respond_reply(q)
  PROVE  OthersStay(q) /\ (Rests(q) \/ Replies(q))
<1> DEFINE r == ctx[q].review
<1>1. /\ input[q] \in Asked /\ input[q].kind = "respond" /\ pc[q] = "reply"
      /\ r \in ReviewIds /\ input[q].author \in Users
  BY AskedFields DEF RTypeOK, respond_reply, at
<1>2. CASE finish(q, "server_error") /\ UNCHANGED committed
  BY <1>2, Others DEF Rests
<1>3. CASE /\ ~responseLocked(q, r)
           /\ isRow(reviews[r]) /\ responses[r] = None
           /\ responses' = [responses EXCEPT ![r] = input[q].author]
           /\ goto(q, "render")
           /\ UNCHANGED <<reviews, fact, told, users, runtime, input, ctx, txn, outcome>>
  BY <1>1, <1>3 DEF OthersStay, Replies, goto, RTypeOK
<1> QED BY <1>2, <1>3 DEF respond_reply

\* A transaction with other responses, rows or facts is otherwise the same.
LEMMA Rewritten ==
  ASSUME NEW w, Uncommitted(w), NEW v, NEW tell, NEW hidden
  PROVE  LET a == [w EXCEPT !.responses = v]
             b == [w EXCEPT !.rows = v]
             c == [w EXCEPT !.rows = v, !.tell = tell, !.hidden = hidden]
             d == [w EXCEPT !.tell = tell, !.fact = v]
         IN  /\ a.responses = v /\ a.rows = w.rows /\ a.fact = w.fact /\ a.tell = w.tell
             /\ a.published = w.published /\ a.hidden = w.hidden
             /\ b.rows = v /\ b.responses = w.responses /\ b.fact = w.fact /\ b.tell = w.tell
             /\ b.published = w.published /\ b.hidden = w.hidden
             /\ c.rows = v /\ c.responses = w.responses /\ c.fact = w.fact /\ c.tell = tell
             /\ c.published = w.published /\ c.hidden = hidden
             /\ d.fact = v /\ d.responses = w.responses /\ d.rows = w.rows /\ d.tell = tell
             /\ d.published = w.published /\ d.hidden = w.hidden
BY DEF Uncommitted, NoTxn

LEMMA SilenceEffect ==
  ASSUME RTypeOK, NEW q \in Requests,
         delete_responses(q) \/ erase_replies(q) \/ merge_move_replies(q)
  PROVE  OthersStay(q) /\ Silences(q)
<1>0. Uncommitted(txn[q])
  BY DEF RTypeOK
<1>1. ASSUME NEW label, NEW given,
             writes(q, label, ctx[q], [txn[q] EXCEPT !.responses = joined(txn[q].responses, given)]),
             \/ pc[q] = "delete_responses" /\ label = "delete_reviews"
             \/ at(q, "erase", "delete_replies") /\ label = after(q, txn[q].tell)
             \/ at(q, "merge", "move_replies") /\ label = "commit",
             \A r \in DOMAIN given :
               /\ ~responseLocked(q, r)
               /\ \/ given[r] = None
                  \/ /\ at(q, "merge", "move_replies")
                     /\ given[r] = input[q].survivor
                     /\ get(txn[q].responses, r, responses[r]) = input[q].guest
      PROVE  OthersStay(q) /\ Silences(q)
  <2> DEFINE v == joined(txn[q].responses, given)
  <2>1. \A r \in DOMAIN v :
          \/ r \in DOMAIN given /\ v[r] = given[r]
          \/ r \in DOMAIN txn[q].responses /\ v[r] = txn[q].responses[r]
    BY DEF joined, get
  <2> HIDE DEF v
  <2>2. /\ OthersStay(q) /\ UNCHANGED committed /\ ctx'[q] = ctx[q] /\ pc'[q] = label
        /\ txn'[q] = [txn[q] EXCEPT !.responses = v]
    BY <1>1, Others DEF v
  <2>3. txn'[q].responses = v /\ txn'[q].rows = txn[q].rows /\ SameTold(q)
    BY <1>0, <2>2, Rewritten DEF SameTold, SameFacts
  <2> QED BY <1>1, <2>1, <2>2, <2>3 DEF Silences
<1>2. CASE delete_responses(q)
  BY <1>1, <1>2 DEF delete_responses
<1>3. CASE erase_replies(q)
  BY <1>1, <1>3 DEF erase_replies
<1>4. CASE merge_move_replies(q)
  BY <1>1, <1>4 DEF merge_move_replies, answered
<1> QED BY <1>2, <1>3, <1>4

LEMMA DeleteReviewsEffect ==
  ASSUME RTypeOK, NEW q \in Requests, delete_reviews(q)
  PROVE  OthersStay(q) /\ Deletes(q)
<1> DEFINE deleted == [r \in {x \in ctx[q].gone : isRow(reviews[x])} |-> Erased]
           v == joined(txn[q].rows, deleted)
           ls == leaving(q)
           label == IF input[q].kind = "erase" THEN "delete_replies" ELSE after(q, ls)
           w == [txn[q] EXCEPT !.rows = v, !.tell = ls, !.hidden = txn[q].hidden \cup ls]
<1>1. Uncommitted(txn[q])
  BY DEF RTypeOK
<1>2. /\ DOMAIN v = DOMAIN txn[q].rows \cup {r \in ctx[q].gone : isRow(reviews[r])}
      /\ \A r \in DOMAIN v :
           v[r] = IF r \in ctx[q].gone /\ isRow(reviews[r]) THEN Erased ELSE txn[q].rows[r]
  BY DEF joined, get
<1> HIDE DEF v
<1>3. writes(q, label, ctx[q], w)
  BY <1>1 DEF delete_reviews, v
<1> HIDE DEF ls, label
<1>4. /\ OthersStay(q) /\ UNCHANGED committed /\ txn'[q] = w
      /\ pc'[q] = label /\ ctx'[q] = ctx[q]
  BY <1>3, Others
<1>5. /\ w.rows = v /\ w.responses = txn[q].responses /\ w.fact = txn[q].fact
      /\ w.published = txn[q].published /\ w.tell = ls /\ w.hidden = txn[q].hidden \cup ls
  BY <1>1, Rewritten
<1> HIDE DEF w
<1> QED BY <1>2, <1>4, <1>5 DEF Deletes, delete_reviews, SameFacts, SameResponses, ls, label

LEMMA DropEffect ==
  ASSUME RTypeOK, NEW q \in Requests, merge_drop(q)
  PROVE  OthersStay(q) /\ (Turns(q) \/ Unflags(q))
<1>1. PICK r \in ctx[q].todo :
        \/ \E label \in {"delete_responses", "drop"} : reads(q, label, Turned(q, r))
        \/ /\ ~upholds_one_per_author(ctx[q].rows[r].target)
           /\ isRow(reviews[r]) /\ ~rowLocked(q, r)
           /\ writes(q, "drop", Turned(q, r),
                [txn[q] EXCEPT
                  !.rows = joined(txn[q].rows, [x \in {r} |-> unflagged(reviews[r])])])
  BY DEF merge_drop, Turned
<1>2. at(q, "merge", "drop") /\ Uncommitted(txn[q])
  BY DEF merge_drop, RTypeOK
<1>3. ASSUME NEW label \in {"delete_responses", "drop"}, reads(q, label, Turned(q, r))
      PROVE  OthersStay(q) /\ Turns(q)
  <2>1. /\ OthersStay(q) /\ txn'[q] = txn[q] /\ pc'[q] = label /\ ctx'[q] = Turned(q, r)
    BY <1>3, Others
  <2>2. UNCHANGED committed
    BY <1>3 DEF reads
  <2> QED BY <1>2, <2>1, <2>2 DEF Turns
<1>4. CASE /\ ~upholds_one_per_author(ctx[q].rows[r].target)
           /\ isRow(reviews[r]) /\ ~rowLocked(q, r)
           /\ writes(q, "drop", Turned(q, r),
                [txn[q] EXCEPT
                  !.rows = joined(txn[q].rows, [x \in {r} |-> unflagged(reviews[r])])])
  <2> DEFINE v == joined(txn[q].rows, [x \in {r} |-> unflagged(reviews[r])])
             w == [txn[q] EXCEPT !.rows = v]
  <2>1. /\ DOMAIN v = DOMAIN txn[q].rows \cup {r} /\ v[r] = unflagged(reviews[r])
        /\ \A s \in DOMAIN txn[q].rows \ {r} : v[s] = txn[q].rows[s]
    BY DEF joined, get
  <2> HIDE DEF v
  <2>2. /\ OthersStay(q) /\ UNCHANGED committed /\ txn'[q] = w /\ pc'[q] = "drop"
        /\ ctx'[q] = Turned(q, r)
    BY <1>4, Others DEF v
  <2>3. w.rows = v /\ w.responses = txn[q].responses /\ w.fact = txn[q].fact
        /\ w.tell = txn[q].tell /\ w.published = txn[q].published /\ w.hidden = txn[q].hidden
    BY <1>2, Rewritten
  <2> HIDE DEF w
  <2>4. Unflags(q)
    BY <1>2, <1>4, <2>1, <2>2, <2>3 DEF Unflags, SameTold, SameFacts, SameResponses
  <2> QED BY <2>2, <2>4
<1> QED BY <1>1, <1>3, <1>4

LEMMA MoveEffect ==
  ASSUME RTypeOK, NEW q \in Requests, merge_move(q)
  PROVE  /\ OthersStay(q)
         /\ \/ Rests(q) /\ pc'[q] \notin InTransaction
            \/ Moves(q)
<1> DEFINE into == input[q].survivor
           flagged == {r \in Moving(q) : Moved(q)[r].unique_per_author}
           w == [txn[q] EXCEPT !.rows = RowsMoved(q)]
<1>1. Uncommitted(txn[q]) /\ into \in Users
  BY AskedFields DEF RTypeOK, merge_move, at
<1>2. /\ at(q, "merge", "drop")
      /\ \A r \in Moving(q) : ~rowLocked(q, r)
      /\ \A r \in flagged : ~keyLocked(q, Moved(q)[r].target, into)
  BY DEF merge_move, Moving, Moved
<1>3. CASE redeliver(q)
  BY <1>3, Others DEF InTransaction
<1>4. CASE /\ \A r \in flagged : ~keyTaken(q, Moved(q)[r].target, into)
           /\ writes(q, "move_replies", ctx[q], w)
  <2>1. /\ OthersStay(q) /\ UNCHANGED committed /\ txn'[q] = w
        /\ pc'[q] = "move_replies" /\ ctx'[q] = ctx[q]
    BY <1>4, Others
  <2>2. /\ w.rows = RowsMoved(q) /\ w.responses = txn[q].responses /\ w.fact = txn[q].fact
        /\ w.tell = txn[q].tell /\ w.published = txn[q].published /\ w.hidden = txn[q].hidden
    BY <1>1, Rewritten
  <2> HIDE DEF w
  <2> QED BY <1>1, <1>2, <1>4, <2>1, <2>2 DEF Moves, SameTold, SameFacts, SameResponses
<1>5. \/ redeliver(q)
      \/ /\ \A r \in flagged : ~keyTaken(q, Moved(q)[r].target, into)
         /\ writes(q, "move_replies", ctx[q], w)
  BY DEF merge_move, Moving, Moved, RowsMoved
<1> QED BY <1>3, <1>4, <1>5

LEMMA EmitEffect ==
  ASSUME RTypeOK, NEW q \in Requests, emit(q)
  PROVE  OthersStay(q) /\ Emits(q)
<1>1. PICK r \in txn[q].tell :
        writes(q, after(q, txn[q].tell \ {r}), ctx[q],
          [txn[q] EXCEPT !.tell = txn[q].tell \ {r}, !.fact = Counting(q, r)])
  BY DEF emit, Counting
<1> DEFINE w == [txn[q] EXCEPT !.tell = txn[q].tell \ {r}, !.fact = Counting(q, r)]
<1>2. Uncommitted(txn[q]) /\ pc[q] = "emit"
  BY DEF RTypeOK, emit
<1>3. /\ w.rows = txn[q].rows /\ w.responses = txn[q].responses /\ w.fact = Counting(q, r)
      /\ w.tell = txn[q].tell \ {r} /\ w.published = txn[q].published
      /\ w.hidden = txn[q].hidden
  BY <1>2, Rewritten
<1>4. /\ OthersStay(q) /\ UNCHANGED committed /\ txn'[q] = w /\ ctx'[q] = ctx[q]
      /\ pc'[q] = after(q, txn[q].tell \ {r})
  BY <1>1, Others
<1> HIDE DEF w
<1> QED BY <1>2, <1>3, <1>4 DEF Emits, SameResponses

LEMMA CommitEffect ==
  ASSUME RTypeOK, NEW q \in Requests, commit(q)
  PROVE  OthersStay(q) /\ ((Rests(q) /\ redeliver(q)) \/ Commits(q))
<1>1. CASE redeliver(q)
  BY <1>1, Others
<1>2. CASE /\ ~dangling(q)
           /\ reviews' = View(q)
           /\ responses' = overlay(responses, txn[q].responses)
           /\ fact' = overlay(fact, txn[q].fact)
           /\ told' = (told \cup txn[q].published) \ txn[q].hidden
           /\ IF input[q].kind = "moderate"
                THEN /\ goto(q, "render")
                     /\ txn' = [txn EXCEPT ![q] = NoTxn]
                     /\ UNCHANGED <<users, runtime, input, ctx, outcome>>
                ELSE finish(q, "ok")
  <2>1. pc[q] = "commit"
    BY DEF commit
  <2>2. CASE input[q].kind = "moderate"
    BY <1>2, <2>1, <2>2 DEF Commits, OthersStay, goto, RTypeOK
  <2>3. CASE input[q].kind # "moderate"
    <3>1. finish(q, "ok")
      BY <1>2, <2>3
    <3> QED BY <1>2, <2>1, <2>3, <3>1, Others DEF Commits
  <2> QED BY <2>2, <2>3
<1> QED BY <1>1, <1>2 DEF commit

LEMMA StepEffect ==
  ASSUME RTypeOK, NEW q \in Requests, Step(q)
  PROVE  /\ OthersStay(q)
         /\ \/ Rests(q) \/ Replies(q) \/ Inserts(q) \/ Decides(q)
            \/ Silences(q) \/ Deletes(q) \/ Turns(q) \/ Unflags(q) \/ Moves(q)
            \/ Emits(q) \/ Commits(q)
BY RestingSteps, InsertEffect, DecideEffect, ReplyEffect, SilenceEffect,
   DeleteReviewsEffect, DropEffect, MoveEffect, EmitEffect, CommitEffect DEF Step
LEMMA LookEffect ==
  ASSUME RTypeOK, NEW q \in Requests, pc'[q] \in InTransaction,
         erase_list(q) \/ erase_collect(q) \/ merge_list(q)
  PROVE  Looks(q)
<1> DEFINE authored == Authored(reviews, input[q].user)
           visible == [r \in authored \cap VisibleIds(reviews) |-> reviews[r]]
           listed == [r \in Authored(reviews, input[q].guest) |-> reviews[r]]
           contested == Contested(input[q].guest, input[q].survivor)
<1>1. txn[q] = NoTxn \/ pc[q] \in InTransaction
  BY DEF RTypeOK
<1>2. CASE erase_list(q)
  <2> DEFINE c == [NoCtx EXCEPT !.rows = visible]
  <2>1. c.rows = visible
    <3> HIDE DEF visible
    <3> QED BY DEF NoCtx
  <2>2. at(q, "erase", "check") /\ reads(q, "collect", c)
    BY <1>2 DEF erase_list
  <2> HIDE DEF c
  <2>3. txn[q] = NoTxn /\ UNCHANGED <<committed, input, txn>>
    BY <1>1, <2>2 DEF reads, at, InTransaction
  <2>4. pc'[q] = "collect" /\ ctx'[q] = c
    BY <2>2, Others
  <2> QED BY <2>1, <2>2, <2>3, <2>4 DEF Looks
<1>3. CASE erase_collect(q)
  <2> DEFINE c == [ctx[q] EXCEPT !.gone = authored]
  <2>1. c.rows = ctx[q].rows /\ c.gone = authored
    <3>1. DOMAIN ctx[q] = DOMAIN NoCtx
      BY DEF RTypeOK, Memory
    <3> HIDE DEF authored
    <3> QED BY <3>1 DEF NoCtx
  <2>2. at(q, "erase", "collect") /\ reads(q, "delete_responses", c)
    BY <1>3 DEF erase_collect
  <2> HIDE DEF c
  <2>3. UNCHANGED <<committed, input, txn>>
    BY <2>2 DEF reads
  <2>4. pc'[q] = "delete_responses" /\ ctx'[q] = c
    BY <2>2, Others
  <2> QED BY <2>1, <2>2, <2>3, <2>4 DEF Looks
<1>4. CASE merge_list(q)
  <2> DEFINE c == [NoCtx EXCEPT !.rows = listed, !.todo = contested]
  <2>1. c.rows = listed
    <3> HIDE DEF listed, contested
    <3> QED BY DEF NoCtx
  <2>2. ~finish(q, "ok") /\ ~redeliver(q)
    BY Others DEF InTransaction
  <2>3. at(q, "merge", "check") /\ reads(q, "drop", c)
    BY <1>4, <2>2 DEF merge_list
  <2> HIDE DEF c
  <2>4. txn[q] = NoTxn /\ UNCHANGED <<committed, input, txn>>
    BY <1>1, <2>3 DEF reads, at, InTransaction
  <2>5. pc'[q] = "drop" /\ ctx'[q] = c
    BY <2>3, Others
  <2> QED BY <2>1, <2>3, <2>4, <2>5 DEF Looks
<1> QED BY <1>2, <1>3, <1>4

(***************************************************************************)
(* A statement after which the transaction is open leaves the tables alone.*)
(***************************************************************************)
LEMMA OpenStep ==
  ASSUME RTypeOK, NEW q \in Requests, Step(q), pc'[q] \in InTransaction
  PROVE  Looks(q) \/ Inserts(q) \/ Decides(q) \/ Silences(q) \/ Deletes(q)
           \/ Turns(q) \/ Unflags(q) \/ Moves(q) \/ Emits(q)
<1>1. /\ \A answer : ~finish(q, answer)
      /\ ~redeliver(q)
      /\ \A memory : ~reads(q, "insert", memory)
      /\ \A memory : ~reads(q, "decide", memory)
      /\ \A memory : ~reads(q, "reply", memory)
      /\ pc'[q] # "render"
  BY Others DEF InTransaction
<1>2. ~create_check(q) /\ ~create_recheck(q)
  BY <1>1, CreateOutcomes DEF create_recheck
<1>3. ~moderate_fetch(q) /\ ~render(q)
  BY <1>1, FetchOutcomes DEF render
<1>4. ~goto(q, "render")
  BY <1>1 DEF goto, RTypeOK
<1>5. ~respond_check(q) /\ ~respond_reply(q)
  BY <1>1, <1>4, RespondOutcomes DEF respond_reply
<1>6. ~commit(q)
  BY <1>1, <1>4 DEF commit
<1> QED BY <1>2, <1>3, <1>5, <1>6, LookEffect, InsertEffect, DecideEffect, SilenceEffect,
           DeleteReviewsEffect, DropEffect, MoveEffect, EmitEffect DEF Step

LEMMA NoWritesElsewhere ==
  ASSUME RTypeOK, Surroundings \/ \E q \in Requests : arrive(q)
  PROVE  UNCHANGED <<reviews, responses, fact, told, txn, ctx, outcome>>
BY DEF Surroundings, arrive, allVars, account_lands, user_row_lands, host_registers,
       register_target_type, requestVars, committed

\* Only a commit and a response change the tables.
LEMMA OnlyCommitsWrite ==
  ASSUME RTypeOK, NEW q \in Requests, Step(q)
  PROVE  /\ UNCHANGED <<reviews, fact, told>> \/ Commits(q)
         /\ UNCHANGED responses \/ Replies(q) \/ Commits(q)
BY StepEffect DEF Rests, Replies, Inserts, Decides, Silences, Deletes, Turns, Unflags,
                  Moves, Emits, committed

-------------------------------------------------------------------------------
(***************************************************************************)
(* Row locks.  A statement writes only rows and responses that its         *)
(* transaction holds already or that no other open transaction holds.      *)
(***************************************************************************)
RowsHeldOnce ==
  \A q, p \in Requests : q # p => DOMAIN txn[q].rows \cap DOMAIN txn[p].rows = {}

ResponsesHeldOnce ==
  \A q, p \in Requests :
    q # p => DOMAIN txn[q].responses \cap DOMAIN txn[p].responses = {}

HeldOnce == RowsHeldOnce /\ ResponsesHeldOnce

LEMMA TakesFreeRows ==
  ASSUME RTypeOK, NEW q \in Requests, Step(q)
  PROVE  /\ \A r \in DOMAIN txn'[q].rows :
              r \in DOMAIN txn[q].rows \/ ~rowLocked(q, r)
         /\ \A r \in DOMAIN txn'[q].responses :
              r \in DOMAIN txn[q].responses \/ ~responseLocked(q, r)
<1>1. DOMAIN NoTxn.rows = {} /\ DOMAIN NoTxn.responses = {} /\ DOMAIN Nothing = {}
  BY DEF NoTxn, Nothing
<1>2. CASE Rests(q) \/ Replies(q) \/ Emits(q) \/ Commits(q) \/ Turns(q)
  BY <1>1, <1>2 DEF Rests, Replies, Emits, Commits, Turns, SameResponses
<1>3. CASE Inserts(q)
  BY <1>1, <1>3, SMTT(30) DEF Inserts
<1>4. CASE Decides(q)
  BY <1>1, <1>4 DEF Decides
<1>5. CASE Silences(q) \/ Deletes(q)
  BY <1>5 DEF Silences, Deletes, SameResponses
<1>6. CASE Unflags(q)
  BY <1>6 DEF Unflags, SameResponses
<1>7. CASE Moves(q)
  <2>1. DOMAIN RowsMoved(q) = DOMAIN txn[q].rows \cup Moving(q)
    BY <1>7, MovedRows DEF Moves
  <2> QED BY <1>7, <2>1 DEF Moves, SameResponses
<1> QED BY <1>2, <1>3, <1>4, <1>5, <1>6, <1>7, StepEffect

LEMMA StepHeldOnce ==
  ASSUME RTypeOK, HeldOnce, NEW q \in Requests, Step(q)
  PROVE  HeldOnce'
<1>1. \A p \in Requests \ {q} : txn'[p] = txn[p]
  BY StepEffect DEF OthersStay
<1>2. \A p \in Requests \ {q} :
        /\ DOMAIN txn'[q].rows \cap DOMAIN txn[p].rows = {}
        /\ DOMAIN txn'[q].responses \cap DOMAIN txn[p].responses = {}
  BY TakesFreeRows DEF HeldOnce, RowsHeldOnce, ResponsesHeldOnce, rowLocked, responseLocked
<1> QED BY <1>1, <1>2 DEF HeldOnce, RowsHeldOnce, ResponsesHeldOnce

LEMMA HeldAtFirst == RInit => HeldOnce
BY DEF RInit, HeldOnce, RowsHeldOnce, ResponsesHeldOnce, NoTxn, Nothing

LEMMA HeldStays ==
  ASSUME RTypeOK, HeldOnce, [RNext]_allVars
  PROVE  HeldOnce'
BY Cases, StepHeldOnce, NoWritesElsewhere DEF HeldOnce, RowsHeldOnce, ResponsesHeldOnce

-------------------------------------------------------------------------------
(***************************************************************************)
(* Updates.  What an open transaction has written over a row is what its   *)
(* operation makes of the row as it is committed.  A merge has yet to move *)
(* the rows it only unflagged.                                             *)
(***************************************************************************)
Heir(i, row) == IF row.author = i.guest THEN i.survivor ELSE row.author

Becoming(i, row, new) ==
  CASE i.kind = "create" -> row = Unwritten /\ new \in Review
    [] i.kind \in Moderations ->
         row \in Review /\ new = [row EXCEPT !.status = status_asked(i)]
    [] i.kind = "erase" -> row \in Review /\ new = Erased
    [] i.kind = "merge" ->
         /\ row \in Review
         /\ \/ new = Erased
            \/ \E flag \in {FALSE, row.unique_per_author},
                  author \in {row.author, Heir(i, row)} :
                 new = [row EXCEPT !.author = author, !.unique_per_author = flag]
    [] OTHER -> FALSE

HandedOver(q) ==
  input[q].kind = "merge" /\ pc[q] \in {"move_replies", "commit"} =>
    \A r \in DOMAIN txn[q].rows :
      isRow(txn[q].rows[r]) => txn[q].rows[r].author # input[q].guest

UpdateInv ==
  \A q \in Requests :
    /\ \A r \in DOMAIN txn[q].rows : Becoming(input[q], reviews[r], txn[q].rows[r])
    /\ HandedOver(q)

LEMMA KeptRow ==
  ASSUME RTypeOK, NEW q \in Requests, NEW r \in DOMAIN txn[q].rows
  PROVE  r \in ReviewIds /\ txn[q].rows[r] \in Review \cup {Erased}
BY DEF RTypeOK, Uncommitted, Partial

LEMMA InsertBecomes ==
  ASSUME RTypeOK, NEW q \in Requests, Inserts(q), NEW r \in DOMAIN txn'[q].rows
  PROVE  Becoming(input[q], reviews[r], txn'[q].rows[r])
<1>1. /\ reviews[r] = Unwritten /\ txn'[q].rows[r] \in Review /\ input[q].kind = "create"
  BY DEF Inserts
<1> QED BY <1>1 DEF Becoming, Moderations

LEMMA DecideBecomes ==
  ASSUME RTypeOK, NEW q \in Requests, Decides(q), NEW r \in DOMAIN txn'[q].rows
  PROVE  Becoming(input[q], reviews[r], txn'[q].rows[r])
<1>1. /\ r \in ReviewIds /\ isRow(reviews[r]) /\ txn'[q].rows[r] = saved(q, reviews[r])
      /\ input[q].kind \in Moderations
  BY DEF Decides
<1>2. input[q].kind # "create" /\ reviews[r] \in Review
  BY <1>1, RowFields DEF Moderations
<1>3. txn'[q].rows[r] = [reviews[r] EXCEPT !.status = status_asked(input[q])]
  BY <1>1 DEF saved
<1> QED BY <1>1, <1>2, <1>3 DEF Becoming, Moderations

LEMMA DeletingKinds ==
  ASSUME RTypeOK, NEW q \in Requests,
         pc[q] \in {"delete_responses", "delete_reviews", "delete_replies", "collect",
                    "drop", "move_replies"}
  PROVE  /\ input[q].kind \in {"erase", "merge"} /\ input[q] \in Asked
         /\ pc[q] \in {"drop", "move_replies"} => input[q].kind = "merge"
         /\ pc[q] \in {"collect", "delete_replies"} => input[q].kind = "erase"
BY AskedFields DEF RTypeOK, Statements

LEMMA DeleteBecomes ==
  ASSUME RTypeOK, UpdateInv, NEW q \in Requests, Deletes(q), NEW r \in DOMAIN txn'[q].rows
  PROVE  Becoming(input[q], reviews[r], txn'[q].rows[r])
<1>1. input[q].kind \in {"erase", "merge"}
  BY DeletingKinds DEF Deletes
<1>2. CASE r \in ctx[q].gone /\ isRow(reviews[r])
  <2>1. r \in ReviewIds /\ txn'[q].rows[r] = Erased
    BY <1>2 DEF Deletes, RTypeOK, Memory
  <2>2. reviews[r] \in Review
    BY <1>2, <2>1, RowFields
  <2> QED BY <1>1, <2>1, <2>2 DEF Becoming, Moderations
<1>3. CASE ~(r \in ctx[q].gone /\ isRow(reviews[r]))
  <2>1. r \in DOMAIN txn[q].rows /\ txn'[q].rows[r] = txn[q].rows[r]
    BY <1>3 DEF Deletes
  <2> QED BY <2>1 DEF UpdateInv
<1> QED BY <1>2, <1>3

LEMMA UnflagBecomes ==
  ASSUME RTypeOK, UpdateInv, NEW q \in Requests, Unflags(q), NEW r \in DOMAIN txn'[q].rows
  PROVE  Becoming(input[q], reviews[r], txn'[q].rows[r])
<1>1. PICK s \in ctx[q].todo :
        /\ isRow(reviews[s])
        /\ DOMAIN txn'[q].rows = DOMAIN txn[q].rows \cup {s}
        /\ txn'[q].rows[s] = unflagged(reviews[s])
        /\ \A x \in DOMAIN txn[q].rows \ {s} : txn'[q].rows[x] = txn[q].rows[x]
  BY DEF Unflags
<1>2. s \in ReviewIds /\ input[q].kind = "merge"
  BY TurnedType DEF Unflags, at
<1>3. CASE r = s
  <2>1. PICK row \in Review : row = reviews[s]
    BY <1>1, <1>2, RowFields
  <2>2. txn'[q].rows[s] = [row EXCEPT !.unique_per_author = FALSE]
    BY <1>1, <2>1 DEF unflagged
  <2>3. txn'[q].rows[s] = [row EXCEPT !.author = row.author, !.unique_per_author = FALSE]
    BY <2>2 DEF Review
  <2> QED BY <1>2, <1>3, <2>1, <2>3 DEF Becoming, Moderations
<1>4. CASE r # s
  BY <1>1, <1>4 DEF UpdateInv
<1> QED BY <1>3, <1>4

LEMMA MoveBecomes ==
  ASSUME RTypeOK, UpdateInv, NEW q \in Requests, Moves(q), NEW r \in DOMAIN txn'[q].rows
  PROVE  Becoming(input[q], reviews[r], txn'[q].rows[r])
<1> DEFINE i == input[q]
<1>1. /\ i.kind = "merge" /\ i \in Asked /\ i.survivor \in Users /\ i.guest # i.survivor
        /\ txn'[q].rows = RowsMoved(q)
  BY DeletingKinds, AskedFields DEF Moves, at
<1>4. r \in DOMAIN RowsMoved(q) /\ txn'[q].rows[r] = RowsMoved(q)[r]
  BY <1>1
<1>2. CASE r \notin Moving(q)
  <2>1. r \in DOMAIN txn[q].rows /\ txn'[q].rows[r] = txn[q].rows[r]
    BY <1>1, <1>2, <1>4, MovedRows
  <2> QED BY <2>1 DEF UpdateInv
<1>3. CASE r \in Moving(q)
  <2>0. r \in ReviewIds /\ View(q)[r] \in Review /\ View(q)[r].author = i.guest
        /\ RowsMoved(q)[r] = Moved(q)[r]
    BY <1>1, <1>3, MovedRows
  <2>1. PICK v \in Review : v = View(q)[r]
    BY <2>0
  <2>2. /\ v.author = i.guest /\ r \in ReviewIds
        /\ txn'[q].rows[r] = [v EXCEPT !.author = i.survivor]
    BY <1>3, <1>4, <2>0, <2>1 DEF Moved
  <2>3. CASE r \notin DOMAIN txn[q].rows
    <3>1. v = reviews[r]
      BY <2>1, <2>2, <2>3, ViewRow
    <3>2. txn'[q].rows[r] = [v EXCEPT !.author = Heir(i, v),
                                      !.unique_per_author = v.unique_per_author]
      BY <2>2 DEF Heir, Review
    <3> QED BY <1>1, <3>1, <3>2 DEF Becoming, Moderations
  <2>4. CASE r \in DOMAIN txn[q].rows
    <3>1. Becoming(i, reviews[r], v)
      BY <2>1, <2>4, ViewRow DEF UpdateInv
    <3>2. v # Erased
      BY RowAssumption
    <3>3. PICK row \in Review : row = reviews[r]
      BY <1>1, <3>1 DEF Becoming, Moderations
    <3>4. PICK flag \in {FALSE, row.unique_per_author}, author \in {row.author, Heir(i, row)} :
            v = [row EXCEPT !.author = author, !.unique_per_author = flag]
      BY <1>1, <3>1, <3>2, <3>3 DEF Becoming, Moderations
    <3>5. v.author = author
      BY <3>4 DEF Review
    <3>6. Heir(i, row) = i.survivor
      BY <1>1, <2>2, <3>4, <3>5 DEF Heir
    <3>7. txn'[q].rows[r] = [row EXCEPT !.author = Heir(i, row), !.unique_per_author = flag]
      BY <2>2, <3>4, <3>6 DEF Review
    <3> QED BY <1>1, <3>3, <3>7 DEF Becoming, Moderations
  <2> QED BY <2>3, <2>4
<1> QED BY <1>2, <1>3

\* What q has written stays an update of what is committed.
LEMMA OwnUpdates ==
  ASSUME RTypeOK, UpdateInv, NEW q \in Requests, Step(q), NEW r \in DOMAIN txn'[q].rows
  PROVE  /\ Becoming(input[q], reviews[r], txn'[q].rows[r])
         /\ txn'[q] # NoTxn /\ ~Commits(q)
<1>1. DOMAIN NoTxn.rows = {}
  BY DEF NoTxn, Nothing
<1>2. ~Commits(q) /\ txn'[q] # NoTxn
  BY <1>1 DEF Commits
<1>3. CASE txn'[q].rows = txn[q].rows
  BY <1>2, <1>3 DEF UpdateInv
<1>4. \/ txn'[q].rows = txn[q].rows
      \/ Inserts(q) \/ Decides(q) \/ Deletes(q) \/ Unflags(q) \/ Moves(q)
  BY <1>2, StepEffect DEF Rests, Replies, Silences, Turns, Emits
<1> QED BY <1>2, <1>3, <1>4, InsertBecomes, DecideBecomes, DeleteBecomes, UnflagBecomes,
           MoveBecomes

\* A commit leaves alone the rows of other transactions.
LEMMA OthersUntouched ==
  ASSUME RTypeOK, HeldOnce, NEW q \in Requests, Step(q),
         NEW p \in Requests \ {q}, NEW r \in DOMAIN txn[p].rows
  PROVE  reviews'[r] = reviews[r]
<1>1. CASE Commits(q)
  <2>1. r \in ReviewIds \ DOMAIN txn[q].rows
    BY KeptRow DEF HeldOnce, RowsHeldOnce
  <2> QED BY <1>1, <2>1, ViewRow DEF Commits
<1> QED BY <1>1, OnlyCommitsWrite

LEMMA HandedOverStays ==
  ASSUME RTypeOK, UpdateInv, NEW q \in Requests, Step(q)
  PROVE  HandedOver(q)'
<1> SUFFICES ASSUME input'[q].kind = "merge", pc'[q] \in {"move_replies", "commit"},
                    NEW r \in DOMAIN txn'[q].rows, isRow(txn'[q].rows[r])
             PROVE  txn'[q].rows[r].author # input'[q].guest
  BY DEF HandedOver
<1>1. input'[q] = input[q] /\ pc'[q] \in InTransaction
  BY StepEffect DEF OthersStay, InTransaction
<1>2. /\ ~Looks(q) /\ ~Inserts(q) /\ ~Decides(q) /\ ~Turns(q) /\ ~Unflags(q)
  BY <1>1 DEF Looks, Inserts, Decides, Turns, Unflags, at, Moderations
<1>3. ~Deletes(q) /\ ~Emits(q)
  BY <1>1, AfterLabel DEF Deletes, Emits
<1>4. CASE Silences(q)
  <2>1. pc[q] = "move_replies"
    BY <1>1, <1>4, AfterLabel DEF Silences, at
  <2>2. txn'[q].rows = txn[q].rows
    BY <1>4 DEF Silences
  <2> QED BY <1>1, <2>1, <2>2 DEF UpdateInv, HandedOver
<1>5. CASE Moves(q)
  <2>1. /\ input[q].survivor \in Users /\ input[q].guest # input[q].survivor
        /\ txn'[q].rows = RowsMoved(q)
    BY <1>5, DeletingKinds, AskedFields DEF Moves, at
  <2>2. CASE r \in Moving(q)
    <3>1. RowsMoved(q)[r].author = input[q].survivor
      BY <2>1, <2>2, MovedRows
    <3> QED BY <1>1, <2>1, <3>1
  <2>3. CASE r \notin Moving(q)
    <3>0. r \in DOMAIN RowsMoved(q) /\ txn'[q].rows[r] = RowsMoved(q)[r]
      BY <2>1
    <3>1. r \in DOMAIN txn[q].rows /\ txn'[q].rows[r] = txn[q].rows[r] /\ r \in ReviewIds
      BY <2>1, <2>3, <3>0, MovedRows, KeptRow
    <3>2. View(q)[r] = txn'[q].rows[r]
      BY <3>1, ViewRow
    <3> QED BY <1>1, <2>3, <3>1, <3>2 DEF Moving, Authored, Rows, isRow
  <2> QED BY <2>2, <2>3
<1> QED BY <1>1, <1>2, <1>3, <1>4, <1>5, OpenStep

LEMMA UpdatesStay ==
  ASSUME RTypeOK, HeldOnce, UpdateInv, [RNext]_allVars
  PROVE  UpdateInv'
<1>1. ASSUME NEW q \in Requests, Step(q)
      PROVE  UpdateInv'
  <2>1. OthersStay(q)
    BY <1>1, StepEffect
  <2>2. ASSUME NEW p \in Requests \ {q}
        PROVE  /\ \A r \in DOMAIN txn'[p].rows :
                    Becoming(input'[p], reviews'[r], txn'[p].rows[r])
               /\ HandedOver(p)'
    <3>1. txn'[p] = txn[p] /\ input'[p] = input[p] /\ pc'[p] = pc[p]
      BY <2>1, <2>2 DEF OthersStay
    <3> QED BY <1>1, <2>2, <3>1, OthersUntouched DEF UpdateInv, HandedOver
  <2>3. ASSUME NEW r \in DOMAIN txn'[q].rows
        PROVE  Becoming(input'[q], reviews'[r], txn'[q].rows[r])
    <3>1. reviews' = reviews /\ input'[q] = input[q]
      BY <1>1, <2>1, <2>3, OwnUpdates, OnlyCommitsWrite DEF OthersStay
    <3> QED BY <1>1, <2>3, <3>1, OwnUpdates
  <2> QED BY <1>1, <2>2, <2>3, HandedOverStays DEF UpdateInv
<1>2. ASSUME NEW q \in Requests, arrive(q)
      PROVE  UpdateInv'
  <2>1. UNCHANGED <<reviews, txn>> /\ pc[q] = "idle" /\ pc' = [pc EXCEPT ![q] = "check"]
        /\ DOMAIN txn[q].rows = {}
        /\ \A p \in Requests \ {q} : input'[p] = input[p]
    BY <1>2 DEF arrive, committed, goto, RTypeOK, InTransaction, NoTxn, Nothing
  <2>2. pc'[q] = "check" /\ \A p \in Requests \ {q} : pc'[p] = pc[p]
    BY <2>1 DEF RTypeOK
  <2> QED BY <2>1, <2>2 DEF UpdateInv, HandedOver
<1>3. CASE Surroundings
  <2>1. UNCHANGED <<reviews, txn>>
    BY <1>3, NoWritesElsewhere
  <2>2. UNCHANGED <<pc, input>>
    BY <1>3 DEF Surroundings, allVars, account_lands, host_registers, requestVars
  <2> QED BY <2>1, <2>2 DEF UpdateInv, HandedOver
<1> QED BY <1>1, <1>2, <1>3, Cases

\* What is known of the rows and of the locks at every moment.
Locking == RTypeOK /\ HeldOnce /\ UpdateInv

LEMMA LockingHolds == RSpec => []Locking
<1>1. RInit => HeldOnce /\ UpdateInv
  BY HeldAtFirst DEF RInit, UpdateInv, HandedOver, NoTxn, Nothing
<1>2. RTypeOK /\ HeldOnce /\ UpdateInv /\ [RNext]_allVars => HeldOnce' /\ UpdateInv'
  BY HeldStays, UpdatesStay
<1> QED BY <1>1, <1>2, RequestTypes, PTL DEF RSpec, Locking

\* A row that becomes another keeps its target and its rating.
LEMMA KeepsTarget ==
  ASSUME NEW i, NEW row \in Review \cup {Unwritten, Erased}, NEW new \in Review \cup {Erased},
         Becoming(i, row, new)
  PROVE  /\ row # Erased
         /\ isRow(row) => row \in Review
         /\ isRow(row) /\ isRow(new) =>
              new \in Review /\ new.target = row.target /\ new.rating = row.rating
BY RowAssumption DEF Becoming, isRow, Review

(***************************************************************************)
(* A commit changes the columns its operation is about in the rows as they *)
(* are committed: no update of another request is lost.                    *)
(***************************************************************************)
THEOREM UpdatesKept == RSpec => NoUpdateLost
<1>1. ASSUME Locking, [RNext]_allVars, NEW q \in Requests, commit(q), ~dangling(q),
             NEW r \in DOMAIN txn[q].rows
      PROVE  Becomes(input[q], reviews[r], reviews'[r])
  <2> DEFINE i == input[q]
             row == reviews[r]
             new == reviews'[r]
  <2>1. r \in ReviewIds /\ reviews' = View(q) /\ new = txn[q].rows[r] /\ new \in Review \cup {Erased}
    BY <1>1, KeptRow, ViewRow DEF Locking, commit
  <2>2. Becoming(i, row, new) /\ HandedOver(q)
    BY <1>1, <2>1 DEF Locking, UpdateInv
  <2>3. pc[q] = "commit" /\ i \in Asked
    BY <1>1 DEF commit, Locking, RTypeOK
  <2>4. row \in Review => isRow(row)
    BY RowAssumption DEF isRow
  <2>5. CASE i.kind = "merge"
    <3>1. row \in Review
      BY <2>2, <2>5 DEF Becoming, Moderations
    <3>2. ASSUME new # Erased
          PROVE  \E flag \in {FALSE, row.unique_per_author} :
                   new = [row EXCEPT !.author = IF @ = i.guest THEN i.survivor ELSE @,
                                     !.unique_per_author = flag]
      <4>1. PICK flag \in {FALSE, row.unique_per_author}, author \in {row.author, Heir(i, row)} :
              new = [row EXCEPT !.author = author, !.unique_per_author = flag]
        BY <2>2, <2>5, <3>2 DEF Becoming, Moderations
      <4>2. new.author = author
        BY <3>1, <4>1 DEF Review
      <4>3. new.author # i.guest
        <5>1. isRow(txn[q].rows[r])
          BY <2>1, <3>2, RowAssumption DEF isRow
        <5> QED BY <1>1, <2>1, <2>2, <2>3, <2>5, <5>1 DEF HandedOver
      <4>4. author = IF row.author = i.guest THEN i.survivor ELSE row.author
        BY <4>1, <4>2, <4>3 DEF Heir
      <4> QED BY <4>1, <4>4
    <3> QED BY <2>4, <2>5, <3>1, <3>2 DEF Becomes, Moderations
  <2>6. CASE i.kind # "merge"
    BY <2>2, <2>4, <2>6 DEF Becoming, Becomes, Moderations
  <2> QED BY <2>5, <2>6
<1>2. Locking /\ [RNext]_allVars =>
        [\A q \in Requests :
           commit(q) /\ ~dangling(q) =>
             \A r \in DOMAIN txn[q].rows : Becomes(input[q], reviews[r], reviews'[r])]_allVars
  BY <1>1
<1> QED BY <1>2, LockingHolds, PTL DEF RSpec, NoUpdateLost

-------------------------------------------------------------------------------
(***************************************************************************)
(* Unique keys.  A flagged row in an open transaction holds its key alone: *)
(* against the rows its own transaction sees, and against what every other *)
(* open transaction has written.  Two commits in any order then keep the   *)
(* constraint; the committed table alone would not be enough.              *)
(***************************************************************************)
Clash(a, b) ==
  /\ isRow(a) /\ isRow(b) /\ a.unique_per_author /\ b.unique_per_author
  /\ a.target = b.target /\ a.author = b.author

KeysHeldOnce ==
  /\ \A r, s \in ReviewIds : r # s => ~Clash(reviews[r], reviews[s])
  /\ \A q \in Requests : \A r \in DOMAIN txn[q].rows, s \in ReviewIds :
       r # s => ~Clash(txn[q].rows[r], View(q)[s])
  /\ \A q, p \in Requests : q # p =>
       \A r \in DOMAIN txn[q].rows, s \in DOMAIN txn[p].rows :
         ~Clash(txn[q].rows[r], txn[p].rows[s])

LEMMA ClashSymmetric == \A a, b : Clash(a, b) => Clash(b, a)
BY DEF Clash

LEMMA ViewKeys ==
  ASSUME RTypeOK, KeysHeldOnce, NEW q \in Requests,
         NEW r \in ReviewIds, NEW s \in ReviewIds, r # s
  PROVE  ~Clash(View(q)[r], View(q)[s])
<1>1. CASE r \in DOMAIN txn[q].rows
  BY <1>1, ViewRow DEF KeysHeldOnce
<1>2. CASE s \in DOMAIN txn[q].rows
  BY <1>2, ViewRow, ClashSymmetric DEF KeysHeldOnce
<1>3. CASE r \notin DOMAIN txn[q].rows /\ s \notin DOMAIN txn[q].rows
  BY <1>3, ViewRow DEF KeysHeldOnce
<1> QED BY <1>1, <1>2, <1>3

LEMMA WrittenKeys ==
  ASSUME RTypeOK, RTypeOK', KeysHeldOnce, NEW q \in Requests, OthersStay(q), UNCHANGED reviews,
         \A r \in DOMAIN txn'[q].rows, s \in ReviewIds :
           r # s => ~Clash(txn'[q].rows[r], View(q)'[s]),
         \A p \in Requests \ {q} : \A r \in DOMAIN txn'[q].rows, s \in DOMAIN txn[p].rows :
           ~Clash(txn'[q].rows[r], txn[p].rows[s])
  PROVE  KeysHeldOnce'
<1>1. ASSUME NEW p \in Requests, NEW r \in DOMAIN txn'[p].rows, NEW s \in ReviewIds, r # s
      PROVE  ~Clash(txn'[p].rows[r], View(p)'[s])
  <2>1. CASE p = q
    BY <1>1, <2>1
  <2>2. CASE p # q
    <3>1. txn'[p] = txn[p] /\ View(p)' = View(p)
      BY <2>2 DEF OthersStay, View
    <3> QED BY <1>1, <3>1 DEF KeysHeldOnce
  <2> QED BY <2>1, <2>2
<1>2. ASSUME NEW p \in Requests, NEW o \in Requests, p # o,
             NEW r \in DOMAIN txn'[p].rows, NEW s \in DOMAIN txn'[o].rows
      PROVE  ~Clash(txn'[p].rows[r], txn'[o].rows[s])
  <2>1. CASE p = q
    BY <1>2, <2>1 DEF OthersStay
  <2>2. CASE o = q
    BY <1>2, <2>2, ClashSymmetric DEF OthersStay
  <2>3. CASE p # q /\ o # q
    BY <1>2, <2>3 DEF OthersStay, KeysHeldOnce
  <2> QED BY <2>1, <2>2, <2>3
<1>3. \A r, s \in ReviewIds : r # s => ~Clash(reviews'[r], reviews'[s])
  BY DEF KeysHeldOnce
<1> QED BY <1>1, <1>2, <1>3 DEF KeysHeldOnce

\* Rows deleted and flags taken off clash with nothing.
LEMMA SameWritesKeys ==
  ASSUME RTypeOK, RTypeOK', KeysHeldOnce, NEW q \in Requests, OthersStay(q),
         UNCHANGED reviews,
         DOMAIN txn'[q].rows = {} \/ DOMAIN txn[q].rows \subseteq DOMAIN txn'[q].rows,
         \A r \in DOMAIN txn'[q].rows :
           \/ r \in DOMAIN txn[q].rows /\ txn'[q].rows[r] = txn[q].rows[r]
           \/ txn'[q].rows[r] = Erased
           \/ ~txn'[q].rows[r].unique_per_author
  PROVE  KeysHeldOnce'
<1>1. ASSUME NEW r \in DOMAIN txn'[q].rows, NEW s \in ReviewIds, r # s
      PROVE  ~Clash(txn'[q].rows[r], View(q)'[s])
  <2>1. \/ View(q)'[s] = View(q)[s]
        \/ View(q)'[s] = Erased
        \/ ~View(q)'[s].unique_per_author
    <3>1. CASE s \in DOMAIN txn'[q].rows
      <4>1. View(q)'[s] = txn'[q].rows[s]
        BY <1>1, <3>1 DEF View, overlay, get, RTypeOK, TypeOK, Table
      <4> QED BY <3>1, <4>1, ViewRow
    <3>2. CASE s \notin DOMAIN txn'[q].rows
      <4>1. View(q)'[s] = reviews[s]
        BY <1>1, <3>2 DEF View, overlay, get, RTypeOK, TypeOK, Table
      <4>2. View(q)[s] = reviews[s]
        BY <1>1, <3>2, ViewRow
      <4> QED BY <4>1, <4>2
    <3> QED BY <3>1, <3>2
  <2>2. CASE r \in DOMAIN txn[q].rows /\ txn'[q].rows[r] = txn[q].rows[r]
    BY <1>1, <2>1, <2>2 DEF KeysHeldOnce, Clash, isRow
  <2>3. CASE txn'[q].rows[r] = Erased \/ ~txn'[q].rows[r].unique_per_author
    BY <2>3 DEF Clash, isRow
  <2> QED BY <1>1, <2>2, <2>3
<1>2. ASSUME NEW p \in Requests \ {q}, NEW r \in DOMAIN txn'[q].rows, NEW s \in DOMAIN txn[p].rows
      PROVE  ~Clash(txn'[q].rows[r], txn[p].rows[s])
  BY <1>2 DEF KeysHeldOnce, Clash, isRow
<1> QED BY <1>1, <1>2, WrittenKeys

LEMMA InsertKeys ==
  ASSUME RTypeOK, RTypeOK', KeysHeldOnce, NEW q \in Requests, OthersStay(q), Inserts(q)
  PROVE  KeysHeldOnce'
<1>1. PICK r \in ReviewIds :
        /\ DOMAIN txn'[q].rows = {r} /\ txn'[q].rows[r] \in Review
        /\ txn'[q].rows[r].target = input[q].target
        /\ txn'[q].rows[r].author = input[q].author
        /\ txn'[q].rows[r].unique_per_author = ctx[q].policy.one_per_author
  BY DEF Inserts
<1>2. UNCHANGED reviews /\ DOMAIN txn[q].rows = {}
  BY DEF Inserts, committed, NoTxn, Nothing
<1>3. \A s \in ReviewIds \ {r} : View(q)'[s] = View(q)[s]
  BY <1>1, <1>2, ViewRow DEF View, overlay, get, RTypeOK, TypeOK, Table
<1>4. ASSUME NEW s \in ReviewIds, r # s PROVE ~Clash(txn'[q].rows[r], View(q)'[s])
  BY <1>1, <1>3, <1>4 DEF Inserts, Clash, keyTaken, holdsKey
<1>5. ASSUME NEW p \in Requests \ {q}, NEW s \in DOMAIN txn[p].rows
      PROVE  ~Clash(txn'[q].rows[r], txn[p].rows[s])
  BY <1>1, <1>5, SMTT(30) DEF Inserts, Clash, keyLocked, holdsKey
<1> QED BY <1>1, <1>2, <1>4, <1>5, WrittenKeys

LEMMA DecideKeys ==
  ASSUME RTypeOK, RTypeOK', KeysHeldOnce, NEW q \in Requests, OthersStay(q), Decides(q)
  PROVE  KeysHeldOnce'
<1> DEFINE r == ctx[q].review
<1>1. /\ r \in ReviewIds /\ isRow(reviews[r]) /\ DOMAIN txn'[q].rows = {r}
      /\ txn'[q].rows[r].target = reviews[r].target
      /\ txn'[q].rows[r].author = reviews[r].author
      /\ txn'[q].rows[r].unique_per_author = reviews[r].unique_per_author
      /\ UNCHANGED reviews /\ DOMAIN txn[q].rows = {}
      /\ \A p \in Requests \ {q} : r \notin DOMAIN txn[p].rows
  <2>1. /\ r \in ReviewIds /\ isRow(reviews[r]) /\ DOMAIN txn'[q].rows = {r}
        /\ txn'[q].rows[r] = saved(q, reviews[r]) /\ input[q].kind \in Moderations
        /\ UNCHANGED reviews /\ DOMAIN txn[q].rows = {}
        /\ \A p \in Requests \ {q} : r \notin DOMAIN txn[p].rows
    BY DEF Decides, committed, NoTxn, Nothing, rowLocked
  <2>2. input[q] \in Asked /\ reviews[r] \in Review
    BY <2>1, RowFields DEF Decides, RTypeOK
  <2> QED BY <2>1, <2>2, SavedRow
<1>2. ASSUME NEW s \in ReviewIds, r # s PROVE ~Clash(txn'[q].rows[r], View(q)'[s])
  <2>1. View(q)'[s] = reviews[s]
    BY <1>1, <1>2 DEF View, overlay, get, RTypeOK, TypeOK, Table
  <2>2. ~Clash(reviews[r], reviews[s])
    BY <1>1, <1>2 DEF KeysHeldOnce
  <2> QED BY <1>1, <2>1, <2>2 DEF Clash
<1>3. ASSUME NEW p \in Requests \ {q}, NEW s \in DOMAIN txn[p].rows
      PROVE  ~Clash(txn'[q].rows[r], txn[p].rows[s])
  <2>1. s # r /\ View(p)[r] = reviews[r]
    BY <1>1, <1>3, ViewRow
  <2>2. ~Clash(txn[p].rows[s], reviews[r])
    BY <1>1, <1>3, <2>1 DEF KeysHeldOnce
  <2> QED BY <1>1, <2>2 DEF Clash
<1>4. \A w \in DOMAIN txn'[q].rows, s \in ReviewIds :
        w # s => ~Clash(txn'[q].rows[w], View(q)'[s])
  BY <1>1, <1>2
<1>5. \A p \in Requests \ {q} : \A w \in DOMAIN txn'[q].rows, s \in DOMAIN txn[p].rows :
        ~Clash(txn'[q].rows[w], txn[p].rows[s])
  BY <1>1, <1>3
<1> QED BY <1>1, <1>4, <1>5, WrittenKeys

LEMMA MoveKeys ==
  ASSUME RTypeOK, RTypeOK', KeysHeldOnce, NEW q \in Requests, OthersStay(q), Moves(q)
  PROVE  KeysHeldOnce'
<1> DEFINE into == input[q].survivor
<1>1. /\ UNCHANGED reviews /\ txn'[q].rows = RowsMoved(q) /\ into \in Users
      /\ \A r \in Moving(q) : Moved(q)[r].unique_per_author =>
           /\ ~keyLocked(q, Moved(q)[r].target, into)
           /\ ~keyTaken(q, Moved(q)[r].target, into)
  BY DEF Moves, committed
<1>0. /\ Moving(q) \subseteq ReviewIds /\ DOMAIN RowsMoved(q) \subseteq ReviewIds
      /\ DOMAIN RowsMoved(q) = DOMAIN txn[q].rows \cup Moving(q)
      /\ \A r \in Moving(q) :
           /\ View(q)[r] \in Review /\ View(q)[r].author = input[q].guest
           /\ RowsMoved(q)[r].target = View(q)[r].target
           /\ RowsMoved(q)[r].unique_per_author = View(q)[r].unique_per_author
      /\ \A r \in DOMAIN RowsMoved(q) \ Moving(q) :
           r \in DOMAIN txn[q].rows /\ RowsMoved(q)[r] = txn[q].rows[r]
  BY <1>1, MovedRows DEF Partial
<1>2. \A s \in ReviewIds \ Moving(q) : View(q)'[s] = View(q)[s]
  <2> SUFFICES ASSUME NEW s \in ReviewIds \ Moving(q) PROVE View(q)'[s] = View(q)[s]
    OBVIOUS
  <2>1. View(q)'[s] = get(RowsMoved(q), s, reviews[s])
    BY <1>1 DEF View, overlay, RTypeOK, TypeOK, Table
  <2>2. View(q)[s] = get(txn[q].rows, s, reviews[s])
    BY DEF View, overlay, RTypeOK, TypeOK, Table
  <2> QED BY <1>1, <2>1, <2>2, MovedRows DEF get
<1>3. \A s \in Moving(q) : View(q)'[s] = RowsMoved(q)[s]
  BY <1>1, <1>0 DEF View, overlay, get, RTypeOK, TypeOK, Table
<1>4. ASSUME NEW r \in Moving(q), NEW b, isRow(b), Clash(RowsMoved(q)[r], b)
      PROVE  /\ holdsKey(b, Moved(q)[r].target, into)
             /\ Moved(q)[r].unique_per_author
  BY <1>1, <1>4, MovedRows DEF Clash, holdsKey
<1>5. ASSUME NEW r \in Moving(q), NEW s \in ReviewIds \ Moving(q)
      PROVE  ~Clash(RowsMoved(q)[r], View(q)[s])
  <2> SUFFICES ASSUME Clash(RowsMoved(q)[r], View(q)[s]) PROVE FALSE
    OBVIOUS
  <2>1. isRow(View(q)[s])
    BY DEF Clash
  <2>2. holdsKey(View(q)[s], Moved(q)[r].target, into) /\ Moved(q)[r].unique_per_author
    BY <1>4, <2>1
  <2> QED BY <1>1, <1>5, <2>2 DEF keyTaken
<1>6. ASSUME NEW r \in DOMAIN txn'[q].rows, NEW s \in ReviewIds, r # s
      PROVE  ~Clash(txn'[q].rows[r], View(q)'[s])
  <2>0. r \in ReviewIds
    BY <1>1, MovedRows DEF Partial
  <2>1. CASE r \in Moving(q) /\ s \in Moving(q)
    <3>1. ~Clash(View(q)[r], View(q)[s])
      BY <1>6, <2>0, ViewKeys
    <3>2. isRow(View(q)[r]) /\ isRow(View(q)[s])
      BY <1>0, <2>1, RowAssumption DEF isRow
    <3> QED BY <1>1, <1>3, <1>0, <2>1, <3>1, <3>2 DEF Clash
  <2>2. CASE r \in Moving(q) /\ s \notin Moving(q)
    BY <1>1, <1>2, <1>5, <2>2
  <2>3. CASE r \notin Moving(q) /\ s \in Moving(q)
    <3>1. View(q)[r] = txn'[q].rows[r]
      BY <1>1, <1>6, <1>0, <2>3, ViewRow
    <3> QED BY <1>3, <1>5, <2>0, <2>3, <3>1, ClashSymmetric
  <2>4. CASE r \notin Moving(q) /\ s \notin Moving(q)
    <3>1. View(q)[r] = txn'[q].rows[r]
      BY <1>1, <1>6, <1>0, <2>4, ViewRow
    <3> QED BY <1>2, <1>6, <2>0, <2>4, <3>1, ViewKeys
  <2> QED BY <2>1, <2>2, <2>3, <2>4
<1>7. ASSUME NEW p \in Requests \ {q}, NEW r \in DOMAIN txn'[q].rows, NEW s \in DOMAIN txn[p].rows
      PROVE  ~Clash(txn'[q].rows[r], txn[p].rows[s])
  <2>1. CASE r \in Moving(q)
    <3> SUFFICES ASSUME Clash(RowsMoved(q)[r], txn[p].rows[s]) PROVE FALSE
      BY <1>1
    <3>1. isRow(txn[p].rows[s])
      BY DEF Clash
    <3>2. holdsKey(txn[p].rows[s], Moved(q)[r].target, into) /\ Moved(q)[r].unique_per_author
      BY <1>4, <2>1, <3>1
    <3> QED BY <1>1, <1>7, <2>1, <3>2 DEF keyLocked
  <2>2. CASE r \notin Moving(q)
    BY <1>1, <1>7, <1>0, <2>2 DEF KeysHeldOnce
  <2> QED BY <2>1, <2>2
<1> QED BY <1>1, <1>6, <1>7, WrittenKeys

LEMMA CommitKeys ==
  ASSUME RTypeOK, RTypeOK', KeysHeldOnce, NEW q \in Requests, OthersStay(q), Commits(q)
  PROVE  KeysHeldOnce'
<1>1. reviews' = View(q) /\ DOMAIN txn'[q].rows = {}
  BY DEF Commits, NoTxn, Nothing
<1>2. \A r, s \in ReviewIds : r # s => ~Clash(reviews'[r], reviews'[s])
  BY <1>1, ViewKeys
<1>3. ASSUME NEW p \in Requests, NEW r \in DOMAIN txn'[p].rows, NEW s \in ReviewIds, r # s
      PROVE  ~Clash(txn'[p].rows[r], View(p)'[s])
  <2>1. p # q /\ txn'[p] = txn[p]
    BY <1>1, <1>3 DEF OthersStay
  <2>2. View(p)'[s] = get(txn[p].rows, s, View(q)[s])
    BY <1>1, <2>1, ViewRow DEF View, overlay, Table
  <2>3. CASE s \in DOMAIN txn[p].rows
    BY <1>3, <2>1, <2>2, <2>3, ViewRow DEF get, KeysHeldOnce
  <2>4. CASE s \notin DOMAIN txn[p].rows /\ s \in DOMAIN txn[q].rows
    BY <1>3, <2>1, <2>2, <2>4, ViewRow DEF get, KeysHeldOnce
  <2>5. CASE s \notin DOMAIN txn[p].rows /\ s \notin DOMAIN txn[q].rows
    <3>1. View(p)'[s] = View(p)[s]
      BY <2>2, <2>5, ViewRow DEF get
    <3> QED BY <1>3, <2>1, <3>1 DEF KeysHeldOnce
  <2> QED BY <2>3, <2>4, <2>5
<1>4. ASSUME NEW p \in Requests, NEW o \in Requests, p # o,
             NEW r \in DOMAIN txn'[p].rows, NEW s \in DOMAIN txn'[o].rows
      PROVE  ~Clash(txn'[p].rows[r], txn'[o].rows[s])
  BY <1>1, <1>4 DEF OthersStay, KeysHeldOnce
<1> QED BY <1>2, <1>3, <1>4 DEF KeysHeldOnce

LEMMA StepKeys ==
  ASSUME RTypeOK, RTypeOK', KeysHeldOnce, NEW q \in Requests, Step(q)
  PROVE  KeysHeldOnce'
<1> USE StepEffect
<1>1. CASE Rests(q) \/ Replies(q) \/ Silences(q) \/ Emits(q) \/ Turns(q)
  <2>1. UNCHANGED reviews /\ (txn'[q].rows = txn[q].rows \/ txn'[q] = NoTxn)
    BY <1>1 DEF Rests, Replies, Silences, Emits, Turns, committed
  <2> QED BY <2>1, SameWritesKeys DEF NoTxn, Nothing
<1>2. CASE Deletes(q)
  <2>1. ASSUME NEW r \in DOMAIN txn'[q].rows
        PROVE  \/ r \in DOMAIN txn[q].rows /\ txn'[q].rows[r] = txn[q].rows[r]
               \/ txn'[q].rows[r] = Erased
    BY <1>2, <2>1 DEF Deletes
  <2> QED BY <1>2, <2>1, SameWritesKeys DEF Deletes, committed
<1>3. CASE Unflags(q)
  <2>1. PICK s \in ctx[q].todo :
          /\ isRow(reviews[s])
          /\ DOMAIN txn'[q].rows = DOMAIN txn[q].rows \cup {s}
          /\ txn'[q].rows[s] = unflagged(reviews[s])
          /\ \A x \in DOMAIN txn[q].rows \ {s} : txn'[q].rows[x] = txn[q].rows[x]
    BY <1>3 DEF Unflags
  <2>2. ~txn'[q].rows[s].unique_per_author
    BY <2>1, TurnedType, RowFields, Unflagged
  <2>3. UNCHANGED reviews
    BY <1>3 DEF Unflags, committed
  <2> QED BY <2>1, <2>2, <2>3, SameWritesKeys
<1> QED BY <1>1, <1>2, <1>3, InsertKeys, DecideKeys, MoveKeys, CommitKeys

LEMMA KeysStayHeld ==
  ASSUME RTypeOK, RTypeOK', KeysHeldOnce, [RNext]_allVars
  PROVE  KeysHeldOnce'
<1>1. CASE UNCHANGED <<reviews, txn>>
  BY <1>1 DEF KeysHeldOnce, View
<1> QED BY <1>1, Cases, StepKeys, NoWritesElsewhere

-------------------------------------------------------------------------------
(***************************************************************************)
(* Foreign keys.  An author an open transaction has written has a user     *)
(* row, as has the survivor of a merge under way; a response it hands over *)
(* is one that is there, and stays there until the transaction ends.       *)
(***************************************************************************)
ActorsHere ==
  \A q \in Requests :
    /\ pc[q] # "idle" /\ input[q].kind \in {"create", "respond"} => input[q].author \in users
    /\ pc[q] \in InTransaction /\ input[q].kind = "merge" => input[q].survivor \in users

WritesAttached ==
  \A q \in Requests :
    /\ \A r \in DOMAIN txn[q].rows :
         isRow(txn[q].rows[r]) => txn[q].rows[r].author \in users
    /\ \A r \in DOMAIN txn[q].responses :
         txn[q].responses[r] # None =>
           txn[q].responses[r] \in users /\ responses[r] # None

AttachedInv == RowsAttached /\ ActorsHere /\ WritesAttached

LEMMA ArriveActors ==
  ASSUME RTypeOK, ActorsHere, NEW q \in Requests, arrive(q)
  PROVE  ActorsHere'
<1>1. PICK i \in Inputs :
        /\ \A field \in DOMAIN i \cap {"author", "actor"} : i[field] \in users
        /\ input' = [input EXCEPT ![q] = i]
  BY DEF arrive
<1>2. i \in Asked /\ (i.kind \in {"create", "respond"} => i.author \in users)
  <2>1. i \in Asked
    BY RequestAssumption
  <2>2. i.kind \in {"create", "respond"} => "author" \in DOMAIN i
    BY <2>1, AskedFields
  <2> QED BY <1>1, <2>1, <2>2
<1>3. /\ pc'[q] = "check" /\ input'[q] = i /\ users' = users
      /\ \A p \in Requests \ {q} : pc'[p] = pc[p] /\ input'[p] = input[p]
  BY <1>1 DEF arrive, goto, RTypeOK
<1> QED BY <1>2, <1>3 DEF ActorsHere, InTransaction

LEMMA StepActors ==
  ASSUME RTypeOK, ActorsHere, NEW q \in Requests, Step(q)
  PROVE  ActorsHere'
<1>1. OthersStay(q) /\ pc[q] # "idle" /\ pc[q] # "done"
  <2>1. pc[q] # "idle" /\ pc[q] # "done"
    BY ZenonT(30) DEF Step, create_check, create_insert, create_recheck, moderate_fetch,
           moderate_decide, render, respond_check, respond_reply, delete_responses,
           delete_reviews, erase_list, erase_collect, erase_replies, merge_list,
           merge_drop, merge_move, merge_move_replies, emit, commit, at
  <2> QED BY <2>1, StepEffect
<1>2. ASSUME input[q].kind = "merge", pc'[q] \in InTransaction
      PROVE  input[q].survivor \in users
  <2>1. pc[q] \in Statements.merge
    BY <1>1, <1>2 DEF RTypeOK
  <2>2. CASE pc[q] \in InTransaction
    BY <1>2, <2>2 DEF ActorsHere
  <2>3. CASE pc[q] = "check"
    <3>1. merge_list(q)
      BY <1>2, <2>3 DEF Step, create_check, create_insert, create_recheck, moderate_fetch,
           moderate_decide, render, respond_check, respond_reply, delete_responses,
           delete_reviews, erase_list, erase_collect, erase_replies, merge_list,
           merge_drop, merge_move, merge_move_replies, emit, commit, at, Moderations
    <3>2. /\ ~finish(q, "ok") /\ ~redeliver(q)
      BY <1>2, Others DEF InTransaction
    <3> QED BY <3>1, <3>2 DEF merge_list
  <2> QED BY <2>1, <2>2, <2>3 DEF Statements, InTransaction
<1> QED BY <1>1, <1>2 DEF ActorsHere, OthersStay

(***************************************************************************)
(* A deletion commits only when nothing answers the rows it takes.         *)
(***************************************************************************)
LEMMA CommitAttached ==
  ASSUME RTypeOK, HeldOnce, AttachedInv, NEW q \in Requests, OthersStay(q), Commits(q)
  PROVE  RowsAttached' /\ WritesAttached'
<1>1. /\ reviews' = View(q) /\ txn'[q] = NoTxn /\ users' = users
      /\ \A p \in Requests \ {q} : txn'[p] = txn[p]
      /\ \A r \in ReviewIds : responses'[r] = get(txn[q].responses, r, responses[r])
      /\ DOMAIN txn[q].responses \subseteq ReviewIds
  BY DEF Commits, OthersStay, overlay, RTypeOK, TypeOK, Uncommitted, Partial
<1>2. \A r \in DOMAIN txn[q].rows : txn[q].rows[r] = Erased =>
        get(txn[q].responses, r, responses[r]) = None
  BY DEF Commits, dangling
<1>3. ASSUME NEW r \in Rows(reviews') PROVE reviews'[r].author \in users'
  <2>1. CASE r \in DOMAIN txn[q].rows
    BY <1>1, <1>3, <2>1, ViewRow DEF AttachedInv, WritesAttached, Rows, isRow
  <2>2. CASE r \notin DOMAIN txn[q].rows
    BY <1>1, <1>3, <2>2, ViewRow DEF AttachedInv, RowsAttached, Rows
  <2> QED BY <2>1, <2>2
<1>4. ASSUME NEW r \in ReviewIds, responses'[r] # None
      PROVE  r \in Rows(reviews') /\ responses'[r] \in users'
  <2>1. responses[r] # None /\ responses'[r] \in users
    BY <1>1, <1>4 DEF get, AttachedInv, WritesAttached, RowsAttached
  <2>2. r \in Rows(reviews)
    BY <2>1 DEF AttachedInv, RowsAttached
  <2>3. CASE r \in DOMAIN txn[q].rows
    <3>1. txn[q].rows[r] # Erased
      BY <1>1, <1>2, <1>4, <2>3
    <3>2. txn[q].rows[r] \in Review \cup {Erased}
      BY <2>3 DEF RTypeOK, Uncommitted, Partial
    <3> QED BY <1>1, <2>1, <2>3, <3>1, <3>2, ViewRow, RowAssumption DEF Rows
  <2>4. CASE r \notin DOMAIN txn[q].rows
    BY <1>1, <2>1, <2>2, <2>4, ViewRow DEF Rows
  <2> QED BY <2>3, <2>4
<1>5. ASSUME NEW p \in Requests \ {q}, NEW r \in DOMAIN txn[p].responses,
             txn[p].responses[r] # None
      PROVE  responses'[r] # None
  <2>1. r \notin DOMAIN txn[q].responses
    BY <1>5 DEF HeldOnce, ResponsesHeldOnce
  <2>2. r \in ReviewIds /\ responses[r] # None
    BY <1>5 DEF AttachedInv, WritesAttached, RTypeOK, Uncommitted, Partial
  <2> QED BY <1>1, <2>1, <2>2 DEF get
<1>6. WritesAttached'
  BY <1>1, <1>5 DEF AttachedInv, WritesAttached, NoTxn, Nothing
<1> QED BY <1>3, <1>4, <1>6 DEF RowsAttached

LEMMA ReplyAttached ==
  ASSUME RTypeOK, AttachedInv, NEW q \in Requests, OthersStay(q), Replies(q)
  PROVE  RowsAttached' /\ WritesAttached'
<1> DEFINE r == ctx[q].review
<1>1. /\ r \in Rows(reviews) /\ responses' = [responses EXCEPT ![r] = input[q].author]
      /\ input[q].author \in users /\ reviews' = reviews /\ users' = users
      /\ input[q].author # None
      /\ \A p \in Requests : txn'[p] = txn[p]
  BY RowAssumption DEF Replies, OthersStay, AttachedInv, ActorsHere, Rows, isRow
<1>2. DOMAIN responses = ReviewIds
  BY DEF RTypeOK, TypeOK
<1>3. RowsAttached'
  BY <1>1, <1>2 DEF AttachedInv, RowsAttached
<1>4. WritesAttached'
  BY <1>1, <1>2 DEF AttachedInv, WritesAttached
<1> QED BY <1>3, <1>4

LEMMA StepAttached ==
  ASSUME RTypeOK, HeldOnce, AttachedInv, NEW q \in Requests, Step(q)
  PROVE  AttachedInv'
<1>1. ActorsHere'
  BY StepActors DEF AttachedInv
<1>2. OthersStay(q)
  BY StepEffect
<1>3. CASE Commits(q) \/ Replies(q)
  BY <1>1, <1>2, <1>3, CommitAttached, ReplyAttached DEF AttachedInv
<1>4. ASSUME UNCHANGED committed,
             \A r \in DOMAIN txn'[q].rows :
               isRow(txn'[q].rows[r]) => txn'[q].rows[r].author \in users,
             \A r \in DOMAIN txn'[q].responses :
               txn'[q].responses[r] # None =>
                 txn'[q].responses[r] \in users /\ responses[r] # None
      PROVE  AttachedInv'
  BY <1>1, <1>2, <1>4 DEF AttachedInv, OthersStay, RowsAttached, WritesAttached, committed
<1>5. CASE Rests(q) \/ Emits(q) \/ Turns(q)
  BY <1>4, <1>5 DEF Rests, Emits, Turns, SameResponses, AttachedInv, WritesAttached, NoTxn, Nothing
<1>6. CASE Inserts(q)
  BY <1>4, <1>6, SMTT(30) DEF Inserts, Nothing, AttachedInv, ActorsHere
<1>7. CASE Decides(q)
  <2> DEFINE r == ctx[q].review
  <2>1. /\ r \in ReviewIds /\ isRow(reviews[r]) /\ txn'[q].rows[r] = saved(q, reviews[r])
        /\ DOMAIN txn'[q].rows = {r} /\ DOMAIN txn'[q].responses = {}
        /\ input[q].kind \in Moderations /\ input[q] \in Asked /\ UNCHANGED committed
    BY <1>7 DEF Decides, Nothing, RTypeOK
  <2>2. reviews[r] \in Review /\ r \in Rows(reviews)
    BY <2>1, RowFields
  <2>3. txn'[q].rows[r].author \in users
    BY <2>1, <2>2, SavedRow DEF AttachedInv, RowsAttached
  <2> QED BY <1>4, <2>1, <2>3
<1>8. CASE Deletes(q)
  <2>1. \A r \in DOMAIN txn'[q].rows :
          isRow(txn'[q].rows[r]) => txn'[q].rows[r].author \in users
    BY <1>8 DEF Deletes, AttachedInv, WritesAttached, isRow
  <2>2. txn'[q].responses = txn[q].responses
    BY <1>8 DEF Deletes, SameResponses
  <2> QED BY <1>4, <1>8, <2>1, <2>2 DEF Deletes, AttachedInv, WritesAttached
<1>11. CASE Silences(q)
  <2>1. txn'[q].rows = txn[q].rows
    BY <1>11 DEF Silences
  <2>2. ASSUME NEW r \in DOMAIN txn'[q].responses, txn'[q].responses[r] # None
        PROVE  txn'[q].responses[r] \in users /\ responses[r] # None
    <3>1. CASE r \in DOMAIN txn[q].responses /\ txn'[q].responses[r] = txn[q].responses[r]
      BY <2>2, <3>1 DEF AttachedInv, WritesAttached
    <3>2. CASE /\ at(q, "merge", "move_replies")
               /\ txn'[q].responses[r] = input[q].survivor
               /\ get(txn[q].responses, r, responses[r]) = input[q].guest
      <4>1. input[q].survivor \in users
        BY <3>2 DEF at, InTransaction, AttachedInv, ActorsHere
      <4>2. input[q].guest # None
        BY <3>2, DeletingKinds, AskedFields, RowAssumption DEF at
      <4> QED BY <3>2, <4>1, <4>2 DEF get, AttachedInv, WritesAttached
    <3> QED BY <1>11, <2>2, <3>1, <3>2 DEF Silences
  <2> QED BY <1>4, <1>11, <2>1, <2>2 DEF Silences, AttachedInv, WritesAttached
<1>9. CASE Unflags(q)
  <2>1. PICK s \in ctx[q].todo :
          /\ isRow(reviews[s])
          /\ DOMAIN txn'[q].rows = DOMAIN txn[q].rows \cup {s}
          /\ txn'[q].rows[s] = unflagged(reviews[s])
          /\ \A x \in DOMAIN txn[q].rows \ {s} : txn'[q].rows[x] = txn[q].rows[x]
    BY <1>9 DEF Unflags
  <2>2. s \in Rows(reviews) /\ reviews[s] \in Review
    BY <2>1, TurnedType, RowFields
  <2>3. txn'[q].rows[s].author \in users
    BY <2>1, <2>2, Unflagged DEF AttachedInv, RowsAttached
  <2>4. \A r \in DOMAIN txn'[q].rows :
          isRow(txn'[q].rows[r]) => txn'[q].rows[r].author \in users
    BY <2>1, <2>3 DEF AttachedInv, WritesAttached
  <2> QED BY <1>4, <1>9, <2>4 DEF Unflags, SameResponses, AttachedInv, WritesAttached
<1>10. CASE Moves(q)
  <2>1. input[q].survivor \in users /\ input[q].survivor \in Users
    BY <1>10 DEF Moves, at, AttachedInv, ActorsHere, InTransaction
  <2>2. ASSUME NEW r \in DOMAIN txn'[q].rows, isRow(txn'[q].rows[r])
        PROVE  txn'[q].rows[r].author \in users
    <3>1. txn'[q].rows = RowsMoved(q)
      BY <1>10 DEF Moves
    <3>2. \A s \in Moving(q) : RowsMoved(q)[s].author = input[q].survivor
      BY <2>1, MovedRows, Zenon
    <3>3. \A s \in DOMAIN RowsMoved(q) \ Moving(q) :
            s \in DOMAIN txn[q].rows /\ RowsMoved(q)[s] = txn[q].rows[s]
      BY <2>1, MovedRows
    <3> QED BY <2>1, <2>2, <3>1, <3>2, <3>3 DEF AttachedInv, WritesAttached
  <2> QED BY <1>4, <1>10, <2>2 DEF Moves, SameResponses, AttachedInv, WritesAttached
<1> QED BY <1>3, <1>5, <1>6, <1>7, <1>8, <1>9, <1>10, <1>11, StepEffect

LEMMA SurroundingsAttached ==
  ASSUME RTypeOK, AttachedInv, Surroundings
  PROVE  AttachedInv'
<1>1. UNCHANGED <<reviews, responses, txn, pc, input>> /\ users \subseteq users'
  BY DEF Surroundings, allVars, account_lands, user_row_lands, host_registers,
         register_target_type, requestVars
<1> QED BY <1>1 DEF AttachedInv, RowsAttached, ActorsHere, WritesAttached

(***************************************************************************)
(* Whatever the requests do at once, every author has a user row here and  *)
(* every response sits on a review that exists: a response that arrives on *)
(* a review about to be deleted stops the deletion, and a merge hands over *)
(* to no account that is not here (actions.py:110-136; gdpr.py:50-53;      *)
(* models.py:139-153).                                                     *)
(***************************************************************************)
THEOREM NothingLeftDangling == RSpec => []RowsAttached
<1>1. RInit => AttachedInv
  BY DEF RInit, NoTxn, Nothing, AttachedInv, RowsAttached, ActorsHere, WritesAttached, Rows,
         InTransaction
<1>2. Locking /\ AttachedInv /\ [RNext]_allVars => AttachedInv'
  <2> SUFFICES ASSUME RTypeOK, HeldOnce, AttachedInv, [RNext]_allVars
               PROVE  AttachedInv'
    BY DEF Locking
  <2>1. ASSUME NEW q \in Requests, arrive(q) PROVE AttachedInv'
    <3>1. ActorsHere' /\ users' = users
      BY <2>1, ArriveActors DEF AttachedInv, arrive
    <3>2. UNCHANGED <<reviews, responses, txn>>
      BY <2>1, NoWritesElsewhere
    <3> QED BY <3>1, <3>2 DEF AttachedInv, RowsAttached, WritesAttached
  <2> QED BY <2>1, Cases, StepAttached, SurroundingsAttached
<1>3. AttachedInv => RowsAttached
  BY DEF AttachedInv
<1> QED BY <1>1, <1>2, <1>3, LockingHolds, PTL DEF RSpec

-------------------------------------------------------------------------------
(***************************************************************************)
(* Memory.  A review a request has read does not become another: it keeps  *)
(* its target, or it is erased.                                            *)
(***************************************************************************)
LEMMA NextView ==
  ASSUME RTypeOK', NEW q \in Requests
  PROVE  /\ View(q)' \in Table
         /\ \A r \in DOMAIN txn'[q].rows :
              r \in ReviewIds /\ View(q)'[r] = txn'[q].rows[r]
         /\ \A r \in ReviewIds \ DOMAIN txn'[q].rows : View(q)'[r] = reviews'[r]
<1>1. reviews' \in Table /\ Partial(txn'[q].rows, ReviewIds, Review \cup {Erased})
  BY DEF RTypeOK, TypeOK, Uncommitted
<1> QED BY <1>1 DEF View, overlay, get, Partial, Table

\* b is what review a has become.
Since(a, b) == b # Unwritten /\ (isRow(b) => isRow(a) /\ b.target = a.target)

Rereads == {"recheck", "decide", "render", "reply"}

Recalled(q) ==
  /\ \A r \in DOMAIN ctx[q].rows : isRow(ctx[q].rows[r]) /\ Since(ctx[q].rows[r], View(q)[r])
  /\ pc[q] \in Rereads \/ (pc[q] \in {"emit", "commit"} /\ input[q].kind = "moderate")
       => reviews[ctx[q].review] # Unwritten
  /\ pc[q] = "recheck" /\ isRow(reviews[ctx[q].review])
       => reviews[ctx[q].review].target = input[q].target

RecallInv == \A q \in Requests : Recalled(q)

\* An update of a row, and a commit, leave what the row was about.
LEMMA UpdatesSince ==
  ASSUME Locking, NEW q \in Requests, NEW r \in DOMAIN txn[q].rows, reviews[r] # Unwritten
  PROVE  Since(reviews[r], txn[q].rows[r])
<1>1. /\ r \in ReviewIds /\ txn[q].rows[r] \in Review \cup {Erased}
      /\ reviews[r] \in Review \cup {Unwritten, Erased}
      /\ Becoming(input[q], reviews[r], txn[q].rows[r])
  BY KeptRow DEF Locking, UpdateInv, RTypeOK, TypeOK, Table
<1>2. reviews[r] # Erased /\ isRow(reviews[r])
  BY <1>1, KeepsTarget DEF isRow
<1> QED BY <1>1, <1>2, KeepsTarget, RowAssumption DEF Since

LEMMA CommitSince ==
  ASSUME Locking, NEW q \in Requests, Step(q), NEW r \in ReviewIds, reviews[r] # Unwritten
  PROVE  Since(reviews[r], reviews'[r])
<1>1. RTypeOK
  BY DEF Locking
<1>2. Since(reviews[r], reviews[r])
  BY DEF Since
<1>3. CASE Commits(q) /\ r \in DOMAIN txn[q].rows
  BY <1>1, <1>3, UpdatesSince, ViewRow DEF Commits
<1>4. CASE Commits(q) /\ r \notin DOMAIN txn[q].rows
  BY <1>1, <1>2, <1>4, ViewRow DEF Commits
<1> QED BY <1>1, <1>2, <1>3, <1>4, OnlyCommitsWrite

LEMMA SinceTwice ==
  ASSUME NEW a, NEW b, NEW c, Since(a, b), Since(b, c)
  PROVE  Since(a, c)
BY DEF Since

LEMMA OthersRecall ==
  ASSUME Locking, RTypeOK', RecallInv, NEW q \in Requests, Step(q), NEW p \in Requests \ {q}
  PROVE  Recalled(p)'
<1>1. /\ RTypeOK /\ HeldOnce /\ WellPlaced(p, pc[p], input[p], ctx[p], txn[p])
      /\ Recalled(p) /\ Memory(ctx[p])
  BY Placed DEF Locking, RecallInv, WellPlaced
<1>2. /\ txn'[p] = txn[p] /\ input'[p] = input[p] /\ ctx'[p] = ctx[p] /\ pc'[p] = pc[p]
  BY <1>1, StepEffect DEF OthersStay
<1>3. ASSUME NEW r \in DOMAIN ctx[p].rows
      PROVE  Since(ctx[p].rows[r], View(p)'[r])
  <2>1. r \in ReviewIds /\ Since(ctx[p].rows[r], View(p)[r])
    BY <1>1, <1>3 DEF Recalled, Memory, Partial
  <2>2. CASE r \in DOMAIN txn[p].rows
    BY <1>1, <1>2, <2>1, <2>2, ViewRow, NextView
  <2>3. CASE r \notin DOMAIN txn[p].rows
    <3>1. View(p)[r] = reviews[r] /\ View(p)'[r] = reviews'[r]
      BY <1>1, <1>2, <2>1, <2>3, ViewRow, NextView
    <3> QED BY <2>1, <3>1, CommitSince, SinceTwice DEF Since
  <2> QED BY <2>2, <2>3
<1>4. ASSUME pc[p] \in Rereads \/ (pc[p] \in {"emit", "commit"} /\ input[p].kind = "moderate")
      PROVE  /\ ctx[p].review \in ReviewIds
             /\ Since(reviews[ctx[p].review], reviews'[ctx[p].review])
  <2>1. ctx[p].review \in ReviewIds
    BY <1>1, <1>4 DEF WellPlaced, Rereads
  <2> QED BY <1>1, <1>4, <2>1, CommitSince DEF Recalled
<1> QED BY <1>1, <1>2, <1>3, <1>4 DEF Recalled, Since, Rereads

LEMMA OwnRows ==
  ASSUME NEW q \in Requests, Recalled(q),
         ctx'[q].rows = ctx[q].rows,
         \A r \in DOMAIN ctx[q].rows : Since(View(q)[r], View(q)'[r])
  PROVE  \A r \in DOMAIN ctx'[q].rows :
           isRow(ctx'[q].rows[r]) /\ Since(ctx'[q].rows[r], View(q)'[r])
BY SinceTwice DEF Recalled

LEMMA Forgets ==
  ASSUME NEW q \in Requests, DOMAIN ctx'[q].rows = {}, pc'[q] \in {"done", "check", "insert"}
  PROVE  Recalled(q)'
BY DEF Recalled, Rereads

LEMMA EmptyHands ==
  /\ DOMAIN NoCtx.rows = {} /\ DOMAIN Nothing = {} /\ DOMAIN NoTxn.rows = {}
BY DEF NoCtx, NoTxn, Nothing

LEMMA EndRecalls ==
  ASSUME RTypeOK, NEW q \in Requests, (\E answer : finish(q, answer)) \/ redeliver(q)
  PROVE  Recalled(q)'
BY Others, Forgets, EmptyHands

LEMMA CreateRecalls ==
  ASSUME RTypeOK, RTypeOK', NEW q \in Requests,
         create_check(q) \/ create_insert(q) \/ create_recheck(q)
  PROVE  Recalled(q)'
<1>1. CASE create_check(q)
  <2>1. CASE \E k, o : reads(q, "insert", [NoCtx EXCEPT !.policy = k, !.owner_key = o])
    <3>1. PICK k, o : reads(q, "insert", [NoCtx EXCEPT !.policy = k, !.owner_key = o])
      BY <2>1
    <3> DEFINE c == [NoCtx EXCEPT !.policy = k, !.owner_key = o]
    <3>2. DOMAIN c.rows = {}
      BY DEF NoCtx, Nothing
    <3> HIDE DEF c
    <3>3. ctx'[q] = c /\ pc'[q] = "insert"
      BY <3>1, Others DEF c
    <3> QED BY <3>2, <3>3, Forgets
  <2> QED BY <1>1, <2>1, CreateOutcomes, EndRecalls
<1>2. CASE create_recheck(q)
  BY <1>2, EndRecalls DEF create_recheck
<1>3. ASSUME NEW r \in ReviewIds, holdsKey(View(q)[r], input[q].target, input[q].author),
             reads(q, "recheck", [NoCtx EXCEPT !.review = r]), pc[q] = "insert"
      PROVE  Recalled(q)'
  <2>1. View(q)[r] = reviews[r]
    BY <1>3, ViewRow, EmptyHands DEF RTypeOK, InTransaction
  <2> DEFINE c == [NoCtx EXCEPT !.review = r]
  <2>3. c.review = r /\ DOMAIN c.rows = {}
    BY DEF NoCtx, Nothing
  <2> HIDE DEF c
  <2>2. /\ ctx'[q] = c /\ pc'[q] = "recheck"
        /\ input'[q] = input[q] /\ UNCHANGED reviews
    BY <1>3, Others DEF reads, committed, c
  <2> QED BY <1>3, <2>1, <2>2, <2>3 DEF Recalled, holdsKey, isRow
<1>4. CASE create_insert(q) /\ Inserts(q)
  <2>1. PICK r \in ReviewIds :
          /\ DOMAIN txn'[q].rows = {r} /\ txn'[q].rows[r] \in Review
          /\ ctx'[q].rows = txn'[q].rows
    BY <1>4 DEF Inserts
  <2>2. View(q)'[r] = txn'[q].rows[r] /\ isRow(txn'[q].rows[r])
    BY <2>1, NextView, RowAssumption DEF isRow
  <2>3. pc'[q] \notin Rereads /\ input'[q].kind # "moderate"
    BY <1>4, InsertEffect DEF Inserts, OthersStay, Rereads
  <2>4. /\ DOMAIN ctx'[q].rows = {r} /\ isRow(ctx'[q].rows[r])
        /\ Since(ctx'[q].rows[r], View(q)'[r])
    BY <2>1, <2>2 DEF Since, isRow
  <2> QED BY <2>3, <2>4 DEF Recalled, Rereads
<1>5. CASE create_insert(q) /\ ~Inserts(q)
  <2>1. pc'[q] \notin InTransaction /\ pc[q] = "insert"
    BY <1>5, InsertEffect DEF create_insert, at
  <2>2. \A owed, c, w : ~writes(q, after(q, owed), c, w)
    BY <2>1, Others, AfterLabel DEF InTransaction
  <2> QED BY <1>3, <1>5, <2>1, <2>2, InsertOutcomes
<1> QED BY <1>1, <1>2, <1>4, <1>5

LEMMA ModerateRecalls ==
  ASSUME RTypeOK, RTypeOK', NEW q \in Requests, Recalled(q),
         moderate_fetch(q) \/ moderate_decide(q) \/ render(q)
  PROVE  Recalled(q)'
<1>1. ASSUME NEW r \in Rows(reviews), pc[q] = "check",
             reads(q, "decide", [NoCtx EXCEPT !.review = r, !.rows = [x \in {r} |-> reviews[r]]])
      PROVE  Recalled(q)'
  <2> DEFINE c == [NoCtx EXCEPT !.review = r, !.rows = [x \in {r} |-> reviews[r]]]
  <2>1. c.review = r /\ DOMAIN c.rows = {r} /\ c.rows[r] = reviews[r]
    BY DEF NoCtx
  <2>a. reads(q, "decide", c)
    BY <1>1
  <2> HIDE DEF c
  <2>b. UNCHANGED reviews
    BY <2>a DEF reads, committed
  <2>c. ctx'[q] = c /\ pc'[q] = "decide" /\ txn'[q] = txn[q]
    BY <2>a, Others
  <2>2. ctx'[q] = c /\ pc'[q] = "decide" /\ UNCHANGED reviews /\ txn'[q] = txn[q]
    BY <2>b, <2>c
  <2>3. r \in ReviewIds \ DOMAIN txn'[q].rows /\ isRow(reviews[r])
    BY <1>1, <2>2, EmptyHands DEF Rows, isRow, RTypeOK, InTransaction
  <2>4. View(q)'[r] = reviews[r]
    BY <2>2, <2>3, NextView
  <2> QED BY <2>1, <2>2, <2>3, <2>4 DEF Recalled, Since, Rereads, isRow
<1>2. CASE moderate_fetch(q)
  BY <1>1, <1>2, FetchOutcomes, EndRecalls DEF moderate_fetch
<1>3. CASE moderate_decide(q) /\ reads(q, "render", ctx[q])
  <2>1. ctx'[q] = ctx[q] /\ pc'[q] = "render" /\ UNCHANGED reviews /\ txn'[q] = txn[q]
    BY <1>3, Others DEF reads, committed
  <2>2. View(q)' = View(q)
    BY <2>1 DEF View
  <2> QED BY <1>3, <2>1, <2>2 DEF Recalled, Rereads, moderate_decide
<1>4. CASE moderate_decide(q) /\ Decides(q)
  <2> DEFINE r == ctx[q].review
  <2>1. /\ ctx'[q] = ctx[q] /\ pc'[q] = "emit" /\ UNCHANGED reviews
        /\ DOMAIN txn'[q].rows = {r} /\ txn'[q].rows[r] = saved(q, reviews[r])
        /\ DOMAIN txn[q].rows = {} /\ r \in ReviewIds /\ isRow(reviews[r])
        /\ input[q].kind \in Moderations /\ input[q] \in Asked
    BY <1>4, EmptyHands DEF Decides, committed, RTypeOK
  <2>2. saved(q, reviews[r]) \in Review /\ saved(q, reviews[r]).target = reviews[r].target
    BY <2>1, RowFields, SavedRow
  <2>3. ASSUME NEW s \in DOMAIN ctx[q].rows
        PROVE  Since(View(q)[s], View(q)'[s])
    <3>1. s \in ReviewIds
      BY DEF RTypeOK, Memory, Partial
    <3>2. View(q)[s] = reviews[s]
      BY <2>1, <3>1, ViewRow
    <3>3. View(q)'[s] = IF s = r THEN saved(q, reviews[r]) ELSE reviews[s]
      BY <2>1, <3>1, NextView
    <3>4. View(q)[s] # Unwritten
      BY DEF Recalled, Since
    <3> QED BY <2>1, <2>2, <3>2, <3>3, <3>4, RowAssumption DEF Since, isRow
  <2>4. \A s \in DOMAIN ctx'[q].rows :
          isRow(ctx'[q].rows[s]) /\ Since(ctx'[q].rows[s], View(q)'[s])
    BY <2>1, <2>3, OwnRows
  <2> QED BY <2>1, <2>4 DEF Recalled, Rereads, isRow
<1>5. CASE moderate_decide(q)
  <2>1. \/ (\E answer : finish(q, answer)) \/ redeliver(q)
        \/ reads(q, "render", ctx[q])
        \/ pc'[q] \in InTransaction
    BY <1>5, Others DEF moderate_decide, InTransaction
  <2> QED BY <1>3, <1>4, <1>5, <2>1, EndRecalls, DecideEffect
<1>6. CASE render(q)
  BY <1>6, EndRecalls DEF render
<1> QED BY <1>2, <1>5, <1>6

LEMMA RespondRecalls ==
  ASSUME RTypeOK, RTypeOK', NEW q \in Requests, Recalled(q), respond_check(q) \/ respond_reply(q)
  PROVE  Recalled(q)'
<1>1. ASSUME NEW r \in Rows(reviews), reads(q, "reply", [NoCtx EXCEPT !.review = r])
      PROVE  Recalled(q)'
  <2> DEFINE c == [NoCtx EXCEPT !.review = r]
  <2>2. c.review = r /\ DOMAIN c.rows = {}
    BY DEF NoCtx, Nothing
  <2> HIDE DEF c
  <2>1. ctx'[q] = c /\ UNCHANGED reviews /\ pc'[q] = "reply"
    BY <1>1, Others DEF reads, committed, c
  <2> QED BY <2>1, <2>2 DEF Recalled, Rereads, Rows
<1>2. CASE respond_check(q)
  BY <1>1, <1>2, RespondOutcomes, EndRecalls
<1>3. CASE /\ isRow(reviews[ctx[q].review]) /\ goto(q, "render")
           /\ UNCHANGED <<reviews, fact, told, users, runtime, input, ctx, txn, outcome>>
  <2>1. View(q)' = View(q)
    BY <1>3 DEF View
  <2>2. pc'[q] = "render"
    BY <1>3 DEF goto, RTypeOK
  <2> QED BY <1>3, <2>1, <2>2 DEF Recalled, Rereads, isRow
<1> QED BY <1>2, <1>3, EndRecalls DEF respond_reply

LEMMA ListRecalls ==
  ASSUME RTypeOK, RTypeOK', NEW q \in Requests, Recalled(q),
         erase_list(q) \/ erase_collect(q) \/ merge_list(q)
  PROVE  Recalled(q)'
<1>1. pc'[q] \in InTransaction \/ (\E answer : finish(q, answer)) \/ redeliver(q)
  BY Others DEF erase_list, erase_collect, merge_list, InTransaction
<1>2. input'[q] = input[q]
  BY RestingSteps DEF OthersStay
<1>3. CASE /\ UNCHANGED reviews /\ txn'[q] = NoTxn /\ pc'[q] \in {"collect", "drop"}
           /\ \A r \in DOMAIN ctx'[q].rows : r \in Rows(reviews) /\ ctx'[q].rows[r] = reviews[r]
  <2>1. \A r \in ReviewIds : View(q)'[r] = reviews[r]
    BY <1>3, NextView, EmptyHands
  <2> QED BY <1>3, <2>1 DEF Recalled, Since, Rereads, Rows, isRow
<1>4. CASE /\ UNCHANGED reviews /\ txn'[q] = txn[q] /\ pc'[q] = "delete_responses"
           /\ ctx'[q].rows = ctx[q].rows
  <2>1. View(q)' = View(q)
    BY <1>4 DEF View
  <2> QED BY <1>4, <2>1 DEF Recalled, Rereads
<1>5. CASE Looks(q)
  BY <1>3, <1>4, <1>5 DEF Looks, committed, Authored
<1> QED BY <1>1, <1>5, LookEffect, EndRecalls

(***************************************************************************)
(* A merge comes to each duplicate once.                                   *)
(***************************************************************************)
MergeOrder(q) ==
  input[q].kind = "merge" =>
    /\ pc[q] \in {"drop", "delete_responses", "delete_reviews", "emit"} =>
         ctx[q].todo \cap DOMAIN txn[q].rows = {}
    /\ pc[q] \in {"delete_responses", "delete_reviews", "emit"} =>
         ctx[q].review \notin ctx[q].todo /\ ctx[q].gone \subseteq {ctx[q].review}
    /\ pc[q] \in {"delete_responses", "delete_reviews"} =>
         ctx[q].review \notin DOMAIN txn[q].rows

MergeInv == \A q \in Requests : MergeOrder(q)

LEMMA StepMergeOrder ==
  ASSUME RTypeOK, NEW q \in Requests, MergeOrder(q), Step(q)
  PROVE  MergeOrder(q)'
<1> SUFFICES ASSUME input'[q].kind = "merge",
                    pc'[q] \in {"drop", "delete_responses", "delete_reviews", "emit"}
             PROVE  MergeOrder(q)'
  BY DEF MergeOrder
<1>1. input[q].kind = "merge" /\ pc'[q] \in InTransaction /\ ctx'[q].todo \subseteq ctx'[q].todo
  BY StepEffect DEF OthersStay, InTransaction
<1>2. ~Inserts(q) /\ ~Decides(q)
  BY <1>1 DEF Inserts, Decides, Moderations
<1>3. CASE Looks(q)
  BY <1>1, <1>3, EmptyHands DEF Looks, MergeOrder, at
<1>4. CASE Silences(q)
  <2>1. /\ ctx'[q] = ctx[q] /\ txn'[q].rows = txn[q].rows
        /\ pc[q] = "delete_responses" /\ pc'[q] = "delete_reviews"
    BY <1>1, <1>4 DEF Silences, at
  <2> QED BY <1>1, <2>1 DEF MergeOrder
<1>5. CASE Deletes(q)
  <2>1. /\ ctx'[q] = ctx[q] /\ pc[q] = "delete_reviews" /\ pc'[q] \in {"emit", "drop"}
        /\ DOMAIN txn'[q].rows \subseteq DOMAIN txn[q].rows \cup ctx[q].gone
    BY <1>1, <1>5, AfterLabel DEF Deletes
  <2> QED BY <1>1, <2>1 DEF MergeOrder
<1>6. CASE Turns(q)
  <2>1. PICK r \in ctx[q].todo : ctx'[q] = Turned(q, r)
    BY <1>6 DEF Turns
  <2>2. pc[q] = "drop" /\ txn'[q] = txn[q] /\ pc'[q] \in {"delete_responses", "drop"}
    BY <1>6 DEF Turns, at
  <2> QED BY <1>1, <2>1, <2>2, TurnedType DEF MergeOrder
<1>7. CASE Unflags(q)
  <2>1. PICK r \in ctx[q].todo :
          ctx'[q] = Turned(q, r) /\ DOMAIN txn'[q].rows = DOMAIN txn[q].rows \cup {r}
    BY <1>7 DEF Unflags
  <2>2. pc[q] = "drop" /\ pc'[q] = "drop"
    BY <1>7 DEF Unflags, at
  <2>3. ctx'[q].todo = ctx[q].todo \ {r}
    BY <2>1, TurnedType
  <2> QED BY <1>1, <2>1, <2>2, <2>3 DEF MergeOrder
<1>8. ~Moves(q)
  BY DEF Moves
<1>9. CASE Emits(q)
  <2>1. /\ ctx'[q] = ctx[q] /\ pc[q] = "emit" /\ pc'[q] \in {"emit", "drop"}
        /\ txn'[q].rows = txn[q].rows
    BY <1>1, <1>9, AfterLabel DEF Emits
  <2> QED BY <1>1, <2>1 DEF MergeOrder
<1> QED BY <1>1, <1>2, <1>3, <1>4, <1>5, <1>6, <1>7, <1>8, <1>9, OpenStep

LEMMA MergeOrderStays ==
  ASSUME RTypeOK, MergeInv, [RNext]_allVars
  PROVE  MergeInv'
<1>1. ASSUME NEW q \in Requests, Step(q), NEW p \in Requests PROVE MergeOrder(p)'
  <2>1. CASE p # q
    <3>1. /\ txn'[p] = txn[p] /\ input'[p] = input[p] /\ ctx'[p] = ctx[p] /\ pc'[p] = pc[p]
      BY <1>1, <2>1, StepEffect DEF OthersStay
    <3> QED BY <3>1 DEF MergeInv, MergeOrder
  <2> QED BY <1>1, <2>1, StepMergeOrder DEF MergeInv
<1>2. ASSUME Surroundings, NEW p \in Requests PROVE MergeOrder(p)'
  <2>1. UNCHANGED <<pc, input, ctx, txn>>
    BY <1>2 DEF Surroundings, allVars, account_lands, host_registers, requestVars
  <2> QED BY <2>1 DEF MergeInv, MergeOrder
<1>3. ASSUME NEW q \in Requests, arrive(q), NEW p \in Requests PROVE MergeOrder(p)'
  <2>1. UNCHANGED <<ctx, txn>> /\ pc'[q] = "check"
        /\ (p # q => pc'[p] = pc[p] /\ input'[p] = input[p])
    BY <1>3 DEF arrive, goto, RTypeOK
  <2> QED BY <2>1 DEF MergeInv, MergeOrder
<1> QED BY <1>1, <1>2, <1>3, Cases DEF MergeInv

LEMMA InsideRecalls ==
  ASSUME Locking, RTypeOK', NEW q \in Requests, Recalled(q), MergeOrder(q), OthersStay(q),
         \/ Silences(q) \/ Turns(q) \/ Emits(q) \/ Deletes(q) \/ Unflags(q) \/ Moves(q)
  PROVE  Recalled(q)'
<1>1. /\ RTypeOK /\ UNCHANGED reviews /\ input'[q] = input[q]
      /\ Memory(ctx[q]) /\ input[q] \in Asked
  BY DeletingKinds
     DEF Locking, RTypeOK, Silences, Turns, Emits, Deletes, Unflags, Moves, committed,
         OthersStay, at
<1>2. /\ ctx'[q].rows = ctx[q].rows
      /\ pc'[q] \notin Rereads
      /\ pc'[q] \in {"emit", "commit"} /\ input[q].kind = "moderate" =>
           Emits(q) /\ ctx'[q] = ctx[q]
  <2>1. CASE Turns(q) \/ Unflags(q)
    BY <1>1, <2>1, TurnedType DEF Turns, Unflags, at, Rereads
  <2>2. CASE Silences(q) \/ Deletes(q) \/ Moves(q)
    <3>1. ctx'[q] = ctx[q] /\ input[q].kind # "moderate"
      BY <1>1, <2>2, DeletingKinds DEF Silences, Deletes, Moves, at
    <3> QED BY <2>2, <3>1, AfterLabel DEF Silences, Deletes, Moves, Rereads
  <2>3. CASE Emits(q)
    BY <2>3, AfterLabel DEF Emits, Rereads
  <2> QED BY <2>1, <2>2, <2>3
<1>3. reviews[ctx[q].review] # Unwritten \/ ~(Emits(q) /\ input[q].kind = "moderate")
  BY DEF Recalled, Emits
<1>4. ASSUME NEW r \in DOMAIN ctx[q].rows
      PROVE  Since(View(q)[r], View(q)'[r])
  <2>1. r \in ReviewIds /\ View(q)[r] # Unwritten /\ View(q)[r] \in Review \cup {Erased}
    BY <1>1, <1>4, ViewRow DEF Memory, Partial, Recalled, Since, Table
  <2>2. CASE txn'[q].rows = txn[q].rows
    <3>1. View(q)' = View(q)
      BY <1>1, <2>2 DEF View
    <3> QED BY <2>1, <3>1 DEF Since
  <2>3. CASE Deletes(q)
    <3>1. View(q)'[r] \in {View(q)[r], Erased}
      <4>1. CASE r \in DOMAIN txn'[q].rows
        BY <1>1, <2>1, <2>3, <4>1, ViewRow, NextView DEF Deletes
      <4>2. CASE r \notin DOMAIN txn'[q].rows
        BY <1>1, <2>1, <2>3, <4>2, ViewRow, NextView DEF Deletes
      <4> QED BY <4>1, <4>2
    <3> QED BY <2>1, <3>1, RowAssumption DEF Since, isRow
  <2>4. CASE Unflags(q)
    <3>1. PICK s \in ctx[q].todo :
            /\ isRow(reviews[s])
            /\ DOMAIN txn'[q].rows = DOMAIN txn[q].rows \cup {s}
            /\ txn'[q].rows[s] = unflagged(reviews[s])
            /\ \A x \in DOMAIN txn[q].rows \ {s} : txn'[q].rows[x] = txn[q].rows[x]
      BY <2>4 DEF Unflags
    <3>2. s \notin DOMAIN txn[q].rows /\ s \in ReviewIds
      BY <1>1, <2>4, TurnedType DEF MergeOrder, Unflags, at
    <3>3. CASE r = s
      <4>1. View(q)[r] = reviews[s] /\ View(q)'[r] = unflagged(reviews[s])
        BY <1>1, <3>1, <3>2, <3>3, ViewRow, NextView
      <4>2. unflagged(reviews[s]) \in Review /\ unflagged(reviews[s]).target = reviews[s].target
        BY <1>1, <3>1, <3>2, RowFields, Unflagged
      <4> QED BY <3>1, <4>1, <4>2, RowAssumption DEF Since, isRow
    <3>4. CASE r # s
      <4>1. View(q)'[r] = View(q)[r]
        BY <1>1, <2>1, <3>1, <3>4, ViewRow, NextView
      <4> QED BY <2>1, <4>1 DEF Since
    <3> QED BY <3>3, <3>4
  <2>5. CASE Moves(q)
    <3>1. txn'[q].rows = RowsMoved(q) /\ input[q].survivor \in Users
      BY <2>5 DEF Moves
    <3>2. CASE r \in Moving(q)
      <4>1. /\ r \in DOMAIN RowsMoved(q) /\ RowsMoved(q)[r] \in Review
            /\ RowsMoved(q)[r].target = View(q)[r].target
            /\ View(q)[r] \in Review
        BY <1>1, <3>1, <3>2, MovedRows
      <4>2. View(q)'[r] = RowsMoved(q)[r]
        BY <1>1, <3>1, <4>1, NextView
      <4> QED BY <4>1, <4>2, RowAssumption DEF Since, isRow
    <3>3. CASE r \notin Moving(q)
      <4>0. /\ DOMAIN RowsMoved(q) = DOMAIN txn[q].rows \cup Moving(q)
            /\ \A x \in DOMAIN RowsMoved(q) \ Moving(q) : RowsMoved(q)[x] = txn[q].rows[x]
        BY <1>1, <3>1, MovedRows
      <4>1. r \in DOMAIN txn[q].rows <=> r \in DOMAIN txn'[q].rows
        BY <3>1, <3>3, <4>0
      <4>2. r \in DOMAIN txn[q].rows => txn'[q].rows[r] = txn[q].rows[r]
        BY <3>1, <3>3, <4>0
      <4>3. View(q)'[r] = View(q)[r]
        BY <1>1, <2>1, <4>1, <4>2, ViewRow, NextView
      <4> QED BY <2>1, <4>3 DEF Since
    <3> QED BY <3>2, <3>3
  <2> QED BY <2>2, <2>3, <2>4, <2>5 DEF Silences, Turns, Emits
<1>5. \A r \in DOMAIN ctx'[q].rows :
        isRow(ctx'[q].rows[r]) /\ Since(ctx'[q].rows[r], View(q)'[r])
  BY <1>2, <1>4, OwnRows
<1> QED BY <1>1, <1>2, <1>3, <1>5 DEF Recalled, Rereads

LEMMA CommitRecalls ==
  ASSUME Locking, RTypeOK', NEW q \in Requests, Recalled(q), commit(q)
  PROVE  Recalled(q)'
<1>1. RTypeOK
  BY DEF Locking
<1>2. CASE redeliver(q) \/ finish(q, "ok")
  BY <1>1, <1>2, EndRecalls
<1>3. CASE Commits(q) /\ input[q].kind = "moderate"
  <2>1. /\ pc[q] = "commit" /\ ctx'[q] = ctx[q] /\ pc'[q] = "render" /\ txn'[q] = NoTxn
        /\ reviews' = View(q) /\ ctx[q].review \in ReviewIds
    BY <1>1, <1>3 DEF Commits, RTypeOK
  <2>2. ASSUME NEW r \in ReviewIds PROVE View(q)'[r] = View(q)[r]
    BY <1>1, <2>1, <2>2, NextView, EmptyHands
  <2>3. reviews[ctx[q].review] # Unwritten
    BY <1>3, <2>1 DEF Recalled
  <2>4. Step(q)
    BY DEF Step
  <2>5. reviews'[ctx[q].review] # Unwritten
    BY <2>1, <2>3, <2>4, CommitSince DEF Since
  <2>6. \A r \in DOMAIN ctx[q].rows : r \in ReviewIds
    BY <1>1 DEF RTypeOK, Memory, Partial
  <2> QED BY <2>1, <2>2, <2>5, <2>6 DEF Recalled
<1>4. redeliver(q) \/ finish(q, "ok") \/ input[q].kind = "moderate"
  BY DEF commit
<1> QED BY <1>1, <1>2, <1>3, <1>4, CommitEffect

LEMMA OwnRecalls ==
  ASSUME Locking, RTypeOK', NEW q \in Requests, Recalled(q), MergeOrder(q), Step(q)
  PROVE  Recalled(q)'
<1>1. RTypeOK
  BY DEF Locking
<1>2. CASE create_check(q) \/ create_insert(q) \/ create_recheck(q)
  BY <1>1, <1>2, CreateRecalls
<1>3. CASE moderate_fetch(q) \/ moderate_decide(q) \/ render(q)
  BY <1>1, <1>3, ModerateRecalls
<1>4. CASE respond_check(q) \/ respond_reply(q)
  BY <1>1, <1>4, RespondRecalls
<1>5. CASE erase_list(q) \/ erase_collect(q) \/ merge_list(q)
  BY <1>1, <1>5, ListRecalls
<1>6. CASE \/ delete_responses(q) \/ delete_reviews(q) \/ erase_replies(q) \/ merge_drop(q)
           \/ merge_move_replies(q) \/ emit(q)
  BY <1>1, <1>6, SilenceEffect, DeleteReviewsEffect, DropEffect, EmitEffect, InsideRecalls
<1>7. CASE merge_move(q)
  <2>1. CASE redeliver(q)
    BY <1>1, <2>1, EndRecalls
  <2>2. redeliver(q) \/ \E c, w : writes(q, "move_replies", c, w)
    BY <1>7 DEF merge_move
  <2>3. redeliver(q) \/ pc'[q] \in InTransaction
    BY <1>1, <2>2, Others DEF InTransaction
  <2> QED BY <1>1, <1>7, <2>1, <2>3, MoveEffect, InsideRecalls
<1>8. CASE commit(q)
  BY <1>8, CommitRecalls
<1> QED BY <1>2, <1>3, <1>4, <1>5, <1>6, <1>7, <1>8 DEF Step

LEMMA RecallStays ==
  ASSUME Locking, RTypeOK', RecallInv, MergeInv, [RNext]_allVars
  PROVE  RecallInv'
<1>1. RTypeOK
  BY DEF Locking
<1>2. ASSUME NEW q \in Requests, Step(q), NEW p \in Requests PROVE Recalled(p)'
  BY <1>2, OwnRecalls, OthersRecall DEF RecallInv, MergeInv
<1>3. ASSUME Surroundings \/ \E q \in Requests : arrive(q), NEW p \in Requests
      PROVE  Recalled(p)'
  <2>1. UNCHANGED <<reviews, txn, ctx>> /\ View(p)' = View(p)
    BY <1>1, <1>3, NoWritesElsewhere DEF View
  <2>2. pc'[p] = "check" \/ (pc'[p] = pc[p] /\ input'[p] = input[p])
    BY <1>1, <1>3 DEF Surroundings, arrive, allVars, account_lands, host_registers, requestVars,
                      goto, RTypeOK
  <2> QED BY <2>1, <2>2 DEF RecallInv, Recalled, Rereads
<1> QED BY <1>2, <1>3, Cases DEF RecallInv

LEMMA RecallHolds == RSpec => [](Locking /\ MergeInv /\ RecallInv)
<1>1. RInit => MergeInv /\ RecallInv
  BY EmptyHands DEF RInit, MergeInv, MergeOrder, RecallInv, Recalled, Rereads
<1>2. Locking /\ Locking' /\ MergeInv /\ RecallInv /\ [RNext]_allVars => MergeInv' /\ RecallInv'
  BY MergeOrderStays, RecallStays DEF Locking
<1> QED BY <1>1, <1>2, LockingHolds, PTL DEF RSpec

(***************************************************************************)
(* Which statement ends a request as a server error.                       *)
(***************************************************************************)
LEMMA CallbackRaises ==
  ASSUME NEW t \in Targets, NEW policy \in Policy, NEW u, NEW o \in OwnerKeys
  PROVE  /\ \A a \in check_can_review(policy, u, t) :
              a \in BOOLEAN \/ (a = Raises /\ policy.can_review /\ "can_review" \in HostRaises[t])
         /\ Raises \in check_can_moderate(policy, u, t) =>
              policy.can_moderate /\ "can_moderate" \in HostRaises[t]
         /\ Raises \in check_can_respond(policy, u, t, o) =>
              policy.can_respond /\ "can_respond" \in HostRaises[t]
         /\ Raises \in resolve_owner_key(policy, t) =>
              policy.owner_key_for /\ "owner_key_for" \in HostRaises[t]
BY HostAssumption
   DEF check_can_review, check_can_moderate, check_can_respond, resolve_owner_key, called,
       is_owner

\* A request that did not end as a server error before ends so by this step.
Fails(q) == outcome'[q] = "server_error" /\ outcome[q] # "server_error"

LEMMA FailsByFinish ==
  ASSUME RTypeOK, NEW q \in Requests, Fails(q)
  PROVE  /\ \A answer : finish(q, answer) => answer = "server_error"
         /\ ~redeliver(q) /\ outcome' # outcome
         /\ \A label, memory : ~reads(q, label, memory)
         /\ \A label, memory, w : ~writes(q, label, memory, w)
BY Others DEF Fails, redeliver, reads, writes

LEMMA CreateFails ==
  ASSUME RTypeOK, NEW q \in Requests, Fails(q), create_check(q)
  PROVE  HostFails(input[q])
<1> DEFINE i == input[q]
           policy == policyOf(i.target)
<1>1. i \in Asked /\ i.kind = "create" /\ i.target \in Targets
  BY AskedFields DEF create_check, at, RTypeOK
<1>2. isRegistered(i.target)
  BY FailsByFinish DEF create_check
<1>3. ~(policy.one_per_author /\ has_review(i.target, i.author))
  BY <1>2, FailsByFinish DEF create_check
<1>4. PICK allowed \in check_can_review(policy, i.author, i.target),
           owner_key \in resolve_owner_key(policy, i.target) :
        allowed = Raises \/ (allowed /\ owner_key = Raises)
  BY <1>2, <1>3, FailsByFinish DEF create_check
<1>5. policy \in Policy
  BY <1>1, <1>2, PolicyResolved DEF RTypeOK
<1>6. PICK o \in OwnerKeys : TRUE
  BY HostAssumption
<1>7. \/ policy.can_review /\ "can_review" \in HostRaises[i.target]
      \/ policy.owner_key_for /\ "owner_key_for" \in HostRaises[i.target]
  <2> HIDE DEF policy
  <2>1. \/ allowed \in BOOLEAN
        \/ allowed = Raises /\ policy.can_review /\ "can_review" \in HostRaises[i.target]
    BY <1>1, <1>5, <1>6, CallbackRaises
  <2>2. ASSUME allowed \in BOOLEAN PROVE owner_key = Raises
    <3>1. allowed # Raises
      BY <2>2, HostAssumption
    <3> QED BY <1>4, <3>1
  <2>3. Raises \in resolve_owner_key(policy, i.target) =>
          policy.owner_key_for /\ "owner_key_for" \in HostRaises[i.target]
    BY <1>1, <1>5, <1>6, CallbackRaises
  <2>4. owner_key \in resolve_owner_key(policy, i.target)
    BY <1>4 DEF policy
  <2> QED BY <2>1, <2>2, <2>3, <2>4
<1>8. mayRaise(i.target) \cap {"can_review", "owner_key_for"} # {}
  BY <1>2, <1>7 DEF mayRaise
<1> QED BY <1>1, <1>8 DEF HostFails

LEMMA FetchFails ==
  ASSUME RTypeOK, NEW q \in Requests, Fails(q), moderate_fetch(q)
  PROVE  HostFails(input[q])
<1> DEFINE i == input[q]
<1>1. PICK r \in Rows(reviews) :
        LET t == reviews[r].target
            gated == i.kind = "moderate"
        IN  \/ gated /\ ~isRegistered(t)
            \/ /\ ~gated \/ isRegistered(t)
               /\ Raises \in IF gated THEN check_can_moderate(policyOf(t), i.actor, t) ELSE {TRUE}
  BY FailsByFinish DEF moderate_fetch
<1> DEFINE t == reviews[r].target
<1>2. t \in Targets
  BY RowFields DEF Rows
<1>3. Raises # TRUE
  BY HostAssumption
<1>4. i.kind = "moderate"
  BY <1>1, <1>3
<1>5. ASSUME isRegistered(t) PROVE "can_moderate" \in mayRaise(t)
  <2>1. policyOf(t) \in Policy /\ Raises \in check_can_moderate(policyOf(t), i.actor, t)
    BY <1>1, <1>2, <1>4, <1>5, PolicyResolved DEF RTypeOK
  <2>2. PICK o \in OwnerKeys : TRUE
    BY HostAssumption
  <2>3. policyOf(t).can_moderate /\ "can_moderate" \in HostRaises[t]
    BY <1>2, <2>1, <2>2, CallbackRaises
  <2> QED BY <1>5, <2>3 DEF mayRaise
<1> QED BY <1>4, <1>5 DEF HostFails

LEMMA RespondFails ==
  ASSUME RTypeOK, NEW q \in Requests, Fails(q), respond_check(q)
  PROVE  HostFails(input[q])
<1> DEFINE i == input[q]
<1>1. PICK r \in Rows(reviews) :
        LET t == reviews[r].target
        IN  isRegistered(t) => Raises \in check_can_respond(policyOf(t), i.author, t,
                                                          reviews[r].owner_key)
  BY FailsByFinish DEF respond_check
<1> DEFINE t == reviews[r].target
<1>2. t \in Targets /\ reviews[r].owner_key \in OwnerKeys
  BY RowFields DEF Rows, Review
<1>3. i.kind = "respond"
  BY DEF respond_check, at
<1>4. ASSUME isRegistered(t) PROVE "can_respond" \in mayRaise(t)
  <2>1. policyOf(t) \in Policy
    BY <1>2, <1>4, PolicyResolved DEF RTypeOK
  <2>2. policyOf(t).can_respond /\ "can_respond" \in HostRaises[t]
    BY <1>1, <1>2, <1>4, <2>1, CallbackRaises
  <2> QED BY <1>4, <2>2 DEF mayRaise
<1> QED BY <1>3, <1>4 DEF HostFails

LEMMA WhatFails ==
  ASSUME RTypeOK, NEW q \in Requests, Fails(q), Step(q)
  PROVE  \/ pc[q] = "check" /\ HostFails(input[q])
         \/ /\ at(q, "create", "recheck")
            /\ ~has_review(input[q].target, input[q].author)
         \/ pc[q] \in {"decide", "render"} /\ ~isRow(reviews[ctx[q].review])
         \/ pc[q] = "reply"
<1>0. /\ ~redeliver(q) /\ ~finish(q, "ok") /\ ~finish(q, "duplicate")
      /\ \A label, memory : ~reads(q, label, memory)
      /\ \A label, memory, w : ~writes(q, label, memory, w)
      /\ outcome' # outcome
  BY FailsByFinish
<1>1. CASE create_check(q)
  BY <1>1, CreateFails DEF create_check, at
<1>2. CASE create_insert(q)
  BY <1>0, <1>2, InsertOutcomes
<1>3. CASE create_recheck(q)
  BY <1>0, <1>3 DEF create_recheck
<1>4. CASE moderate_fetch(q)
  BY <1>4, FetchFails DEF moderate_fetch
<1>5. CASE moderate_decide(q) \/ render(q)
  BY <1>0, <1>5 DEF moderate_decide, render
<1>6. CASE respond_check(q)
  BY <1>6, RespondFails DEF respond_check, at
<1>7. CASE respond_reply(q)
  BY <1>7 DEF respond_reply, at
<1>8. ~delete_responses(q) /\ ~delete_reviews(q) /\ ~erase_replies(q) /\ ~merge_move_replies(q)
  BY <1>0 DEF delete_responses, delete_reviews, erase_replies, merge_move_replies
<1>9. ~erase_list(q) /\ ~erase_collect(q) /\ ~merge_list(q)
  BY <1>0 DEF erase_list, erase_collect, merge_list
<1>10. ~merge_drop(q) /\ ~merge_move(q) /\ ~emit(q)
  BY <1>0 DEF merge_drop, merge_move, emit
<1>11. ~commit(q)
  BY <1>0 DEF commit
<1> QED BY <1>1, <1>2, <1>3, <1>4, <1>5, <1>6, <1>7, <1>8, <1>9, <1>10, <1>11 DEF Step

(***************************************************************************)
(* A request that has passed its checks fails as a server error only       *)
(* because the review it is about is gone, or for a create because the one *)
(* it collided with is no longer its author's; before, only because a      *)
(* callback of the host raises or the type was removed (services.py:       *)
(* 547-554, 599-601; views.py:445-447, 478-482).                           *)
(***************************************************************************)
THEOREM ErrorsNeedADeletion == RSpec => FailsOnlyOnItsReview
<1>1. ASSUME Locking, RecallInv, [RNext]_allVars, NEW q \in Requests, Fails(q)
      PROVE  LET row == reviews[ctx[q].review]
             IN  \/ pc[q] = "check" /\ HostFails(input[q])
                 \/ pc[q] = "recheck" /\ isRow(row) /\ row.author # input[q].author
                 \/ pc[q] # "check" /\ row = Erased
                 \/ pc[q] = "reply"
  <2> DEFINE r == ctx[q].review
  <2>1. RTypeOK /\ Recalled(q)
    BY <1>1 DEF Locking, RecallInv
  <2>2. Step(q)
    <3>1. outcome'[q] # outcome[q]
      BY <1>1 DEF Fails
    <3>2. ~Surroundings /\ \A p \in Requests : ~arrive(p)
      BY <2>1, <3>1, NoWritesElsewhere
    <3>3. \A p \in Requests \ {q} : ~Step(p)
      BY <2>1, <3>1, StepEffect DEF OthersStay
    <3> QED BY <1>1, <3>2, <3>3, Cases
  <2>3. pc[q] \in Rereads => r \in ReviewIds /\ reviews[r] # Unwritten
    BY <2>1 DEF Rereads, Recalled, RTypeOK
  <2>4. ASSUME at(q, "create", "recheck"), ~has_review(input[q].target, input[q].author),
               isRow(reviews[r])
        PROVE  reviews[r].author # input[q].author
    <3>1. reviews[r].target = input[q].target /\ r \in ReviewIds
      BY <2>1, <2>3, <2>4 DEF Recalled, at, Rereads
    <3> QED BY <2>4, <3>1 DEF has_review, Authored, Rows, isRow
  <2> QED BY <1>1, <2>1, <2>2, <2>3, <2>4, WhatFails DEF Rereads, at, isRow
<1>2. Locking /\ RecallInv /\ [RNext]_allVars =>
        [\A q \in Requests :
           outcome'[q] = "server_error" /\ outcome[q] # "server_error" =>
             LET row == reviews[ctx[q].review]
             IN  \/ pc[q] = "check" /\ HostFails(input[q])
                 \/ pc[q] = "recheck" /\ isRow(row) /\ row.author # input[q].author
                 \/ pc[q] # "check" /\ row = Erased
                 \/ pc[q] = "reply"]_allVars
  BY <1>1 DEF Fails
<1> QED BY <1>2, RecallHolds, PTL DEF RSpec, FailsOnlyOnItsReview

-------------------------------------------------------------------------------
(***************************************************************************)
(* Fixed policies.  A row of a target that has one review for each author  *)
(* is flagged, in the table and in every open transaction: so the keys     *)
(* above are all there is to it.  A create has the policy of its target in *)
(* memory, and what a merge listed is still about what it was.             *)
(***************************************************************************)
Voiced(row) ==
  isRow(row) /\ upholds_one_per_author(row.target) => row.unique_per_author

VoiceInv ==
  /\ \A r \in ReviewIds : Voiced(reviews[r])
  /\ \A q \in Requests :
       /\ \A r \in DOMAIN txn[q].rows : Voiced(txn[q].rows[r])
       /\ pc[q] = "insert" => ctx[q].policy = policyOf(input[q].target)

LEMMA VoicesAreKeys ==
  ASSUME RTypeOK, KeysHeldOnce, VoiceInv
  PROVE  OneVoice
BY DEF VoiceInv, Voiced, KeysHeldOnce, Clash, OneVoice, Rows, isRow

LEMMA PolicyEntry ==
  ASSUME RTypeOK, NEW q \in Requests, Step(q), pc'[q] = "insert"
  PROVE  ctx'[q].policy = policyOf(input[q].target)
<1>1. /\ \A answer : ~finish(q, answer)
      /\ ~redeliver(q)
      /\ \A label, memory : reads(q, label, memory) => label = "insert"
      /\ \A label, memory, w : ~writes(q, label, memory, w) \/ label = "insert"
      /\ ~goto(q, "render")
  BY Others DEF goto, RTypeOK
<1>2. create_check(q)
  BY <1>1, AfterLabel, ZenonT(60)
     DEF Step, create_insert, create_recheck, moderate_fetch,
         moderate_decide, render, respond_check, respond_reply, delete_responses,
         delete_reviews, erase_list, erase_collect, erase_replies, merge_list,
         merge_drop, merge_move, merge_move_replies, emit, commit
<1>3. PICK o : reads(q, "insert", [NoCtx EXCEPT !.policy = policyOf(input[q].target),
                                                !.owner_key = o])
  BY <1>1, <1>2, CreateOutcomes
<1> DEFINE c == [NoCtx EXCEPT !.policy = policyOf(input[q].target), !.owner_key = o]
<1>4. c.policy = policyOf(input[q].target)
  BY DEF NoCtx
<1> HIDE DEF c
<1>5. ctx'[q] = c
  BY <1>3, Others DEF c
<1> QED BY <1>4, <1>5

\* Every row that a statement writes is flagged where it has to be.
LEMMA WritesVoiced ==
  ASSUME Locking, MergeInv, RecallInv, VoiceInv, NEW q \in Requests, Step(q)
  PROVE  \A r \in DOMAIN txn'[q].rows : Voiced(txn'[q].rows[r])
<1>0. RTypeOK
  BY DEF Locking
<1>1. CASE txn'[q].rows = txn[q].rows \/ txn'[q] = NoTxn
  BY <1>1, EmptyHands DEF VoiceInv
<1>2. CASE Inserts(q)
  <2>1. PICK r \in ReviewIds :
          /\ DOMAIN txn'[q].rows = {r}
          /\ txn'[q].rows[r].target = input[q].target
          /\ txn'[q].rows[r].unique_per_author = ctx[q].policy.one_per_author
    BY <1>2 DEF Inserts
  <2>2. ctx[q].policy = policyOf(input[q].target)
    BY <1>2 DEF Inserts, VoiceInv
  <2> QED BY <2>1, <2>2 DEF Voiced, upholds_one_per_author
<1>3. CASE Decides(q)
  <2> DEFINE r == ctx[q].review
  <2>1. /\ r \in ReviewIds /\ isRow(reviews[r]) /\ DOMAIN txn'[q].rows = {r}
        /\ txn'[q].rows[r] = saved(q, reviews[r])
        /\ input[q].kind \in Moderations /\ input[q] \in Asked
    BY <1>0, <1>3 DEF Decides, RTypeOK
  <2>2. /\ saved(q, reviews[r]).target = reviews[r].target
        /\ saved(q, reviews[r]).unique_per_author = reviews[r].unique_per_author
    BY <1>0, <2>1, RowFields, SavedRow
  <2> QED BY <2>1, <2>2 DEF VoiceInv, Voiced
<1>4. CASE Deletes(q)
  BY <1>4 DEF Deletes, VoiceInv, Voiced, isRow
<1>5. CASE Unflags(q)
  <2>1. PICK s \in ctx[q].todo :
          /\ isRow(reviews[s]) /\ ~upholds_one_per_author(ctx[q].rows[s].target)
          /\ DOMAIN txn'[q].rows = DOMAIN txn[q].rows \cup {s}
          /\ txn'[q].rows[s] = unflagged(reviews[s])
          /\ \A x \in DOMAIN txn[q].rows \ {s} : txn'[q].rows[x] = txn[q].rows[x]
    BY <1>5 DEF Unflags
  <2>2. s \in ReviewIds \ DOMAIN txn[q].rows /\ s \in DOMAIN ctx[q].rows
    BY <1>0, <1>5, TurnedType DEF MergeInv, MergeOrder, Unflags, at
  <2>3. reviews[s].target = ctx[q].rows[s].target
    BY <1>0, <2>1, <2>2, ViewRow DEF RecallInv, Recalled, Since
  <2>4. unflagged(reviews[s]).target = reviews[s].target
    BY <1>0, <2>1, <2>2, RowFields, Unflagged
  <2> QED BY <2>1, <2>3, <2>4 DEF VoiceInv, Voiced
<1>6. CASE Moves(q)
  <2>1. txn'[q].rows = RowsMoved(q) /\ input[q].survivor \in Users
    BY <1>6 DEF Moves
  <2>2. ASSUME NEW r \in Moving(q)
        PROVE  Voiced(RowsMoved(q)[r])
    <3>1. /\ r \in ReviewIds /\ View(q)[r] \in Review
          /\ RowsMoved(q)[r].target = View(q)[r].target
          /\ RowsMoved(q)[r].unique_per_author = View(q)[r].unique_per_author
      BY <1>0, <2>1, <2>2, MovedRows
    <3>2. Voiced(View(q)[r])
      BY <1>0, <3>1, ViewRow DEF VoiceInv
    <3> QED BY <3>1, <3>2, RowAssumption DEF Voiced, isRow
  <2>3. \A r \in DOMAIN RowsMoved(q) \ Moving(q) :
          r \in DOMAIN txn[q].rows /\ RowsMoved(q)[r] = txn[q].rows[r]
    BY <1>0, <2>1, MovedRows
  <2> QED BY <2>1, <2>2, <2>3 DEF VoiceInv
<1> QED BY <1>0, <1>1, <1>2, <1>3, <1>4, <1>5, <1>6, StepEffect
        DEF Rests, Replies, Silences, Turns, Emits, Commits

LEMMA PolicyFixed ==
  ASSUME UNCHANGED runtime
  PROVE  /\ \A t : policyOf(t)' = policyOf(t)
         /\ \A t : upholds_one_per_author(t)' <=> upholds_one_per_author(t)
BY DEF policyOf, upholds_one_per_author, isRegistered

LEMMA StepVoices ==
  ASSUME Locking, MergeInv, RecallInv, VoiceInv, NEW q \in Requests, Step(q)
  PROVE  VoiceInv'
<1>0. RTypeOK
  BY DEF Locking
<1>1. OthersStay(q) /\ runtime' = runtime
  BY <1>0, StepEffect DEF OthersStay
<1>2. \A row : Voiced(row)' <=> Voiced(row)
  BY <1>1, PolicyFixed DEF Voiced
<1>3. ASSUME NEW p \in Requests, pc'[p] = "insert"
      PROVE  ctx'[p].policy = policyOf(input[p].target)'
  <2>1. policyOf(input[p].target)' = policyOf(input'[p].target)
    BY <1>1 DEF policyOf
  <2>2. CASE p = q
    BY <1>0, <1>1, <1>3, <2>1, <2>2, PolicyEntry DEF OthersStay
  <2>3. CASE p # q
    BY <1>1, <1>3, <2>1, <2>3 DEF OthersStay, VoiceInv
  <2> QED BY <2>2, <2>3
<1>4. ASSUME NEW p \in Requests, NEW r \in DOMAIN txn'[p].rows
      PROVE  Voiced(txn[p].rows[r])'
  <2>1. CASE p = q
    BY <1>2, <1>4, <2>1, WritesVoiced DEF Voiced
  <2>2. CASE p # q
    BY <1>1, <1>2, <1>4, <2>2 DEF OthersStay, VoiceInv
  <2> QED BY <2>1, <2>2
<1>5. ASSUME NEW r \in ReviewIds
      PROVE  Voiced(reviews[r])'
  <2>1. reviews'[r] \in {reviews[r]} \cup {txn[q].rows[s] : s \in DOMAIN txn[q].rows \cap {r}}
    <3>1. CASE Commits(q)
      BY <1>0, <3>1, ViewRow DEF Commits
    <3> QED BY <1>0, <3>1, OnlyCommitsWrite
  <2> QED BY <1>2, <2>1 DEF VoiceInv, Voiced
<1> QED BY <1>3, <1>4, <1>5 DEF VoiceInv

LEMMA OtherVoices ==
  ASSUME Registrations = {}, RTypeOK, VoiceInv,
         Surroundings \/ \E q \in Requests : arrive(q)
  PROVE  VoiceInv'
<1>1. UNCHANGED <<reviews, txn, ctx>>
  BY NoWritesElsewhere
<1>2. UNCHANGED runtime
  BY DEF Surroundings, arrive, allVars, account_lands, user_row_lands, host_registers
<1>3. \A p \in Requests : pc'[p] = "insert" => pc[p] = "insert" /\ input'[p] = input[p]
  BY DEF Surroundings, arrive, allVars, account_lands, user_row_lands, host_registers,
         register_target_type, requestVars, goto, RTypeOK
<1>4. \A row : Voiced(row)' <=> Voiced(row)
  BY <1>2, PolicyFixed DEF Voiced
<1>5. \A t : policyOf(t)' = policyOf(t)
  BY <1>2, PolicyFixed
<1> QED BY <1>1, <1>3, <1>4, <1>5 DEF VoiceInv

(***************************************************************************)
(* While the host registers nothing, no author ends with two reviews of a  *)
(* target that has one review for each: the key of rev_one_per_author,     *)
(* which only flagged rows carry, is held by whoever writes first, and a   *)
(* merge takes the flag off nothing the policy still upholds, however long *)
(* ago it listed the duplicates (services.py:509, 547-554;                 *)
(* actions.py:130-136, 160-191).                                           *)
(***************************************************************************)
THEOREM OneVoiceAtOnce ==
  ASSUME Registrations = {}
  PROVE  RSpec => []OneVoice
<1>1. RInit => KeysHeldOnce /\ VoiceInv
  BY RowAssumption, EmptyHands
     DEF RInit, KeysHeldOnce, Clash, isRow, VoiceInv, Voiced
<1>2. RTypeOK /\ RTypeOK' /\ KeysHeldOnce /\ [RNext]_allVars => KeysHeldOnce'
  BY KeysStayHeld
<1>3. Locking /\ MergeInv /\ RecallInv /\ VoiceInv /\ [RNext]_allVars => VoiceInv'
  BY Cases, StepVoices, OtherVoices DEF Locking
<1>4. RTypeOK /\ KeysHeldOnce /\ VoiceInv => OneVoice
  BY VoicesAreKeys
<1>5. Locking => RTypeOK
  BY DEF Locking
<1> QED BY <1>1, <1>2, <1>3, <1>4, <1>5, RecallHolds, PTL DEF RSpec
-------------------------------------------------------------------------------
(***************************************************************************)
(* Which overlaps are harmless.  Open transactions cross at the targets    *)
(* they are both about; away from those, each one sees what it would see   *)
(* alone.  First, what a change of the table shows.                        *)
(***************************************************************************)
\* Two rows a reader of ratings cannot tell apart.
Alike(x, y) ==
  \/ x = y
  \/ /\ isRow(x) /\ isRow(y)
     /\ x.target = y.target /\ x.rating = y.rating /\ x.status = y.status

LEMMA AlikeTables ==
  ASSUME NEW a, NEW b, \A r \in ReviewIds : Alike(a[r], b[r])
  PROVE  /\ \A r \in ReviewIds : r \in VisibleIds(b) <=> r \in VisibleIds(a)
         /\ \A t : Shown(b, t) = Shown(a, t)
<1>1. \A r \in ReviewIds : r \in VisibleIds(b) <=> r \in VisibleIds(a)
  BY DEF Alike, VisibleIds, Rows, isRow
<1>2. ASSUME NEW t PROVE Shown(b, t) = Shown(a, t)
  <2>1. \A r \in ReviewIds :
          /\ ShowsOn(b, r, t) <=> ShowsOn(a, r, t)
          /\ ShowsOn(b, r, t) => b[r].rating = a[r].rating
    BY <1>1 DEF Alike, ShowsOn
  <2> QED BY <2>1, SameShown
<1> QED BY <1>1, <1>2

\* One row is inserted, or has its status changed.
LEMMA OneRowChanges ==
  ASSUME NEW a \in Table, NEW b \in Table, NEW r \in ReviewIds, b[r] \in Review,
         a[r] \in Review => a[r].target = b[r].target,
         \A s \in ReviewIds \ {r} : b[s] = a[s]
  PROVE  /\ \A s \in ReviewIds :
              s \in VisibleIds(b) <=>
                IF s = r THEN b[r].status = "published" ELSE s \in VisibleIds(a)
         /\ \A t : t # b[r].target => Shown(b, t) = Shown(a, t)
         /\ b[r].status # "published" /\ r \notin VisibleIds(a) =>
              \A t : Shown(b, t) = Shown(a, t)
<1>1. \A s \in ReviewIds :
        s \in VisibleIds(b) <=>
          IF s = r THEN b[r].status = "published" ELSE s \in VisibleIds(a)
  BY RowAssumption DEF VisibleIds, VISIBLE_STATUSES, Rows
<1>2. \A s \in VisibleIds(a) : a[s] \in Review
  BY DEF VisibleIds, Rows, Table
<1>3. ASSUME NEW t, t # b[r].target \/ (b[r].status # "published" /\ r \notin VisibleIds(a))
      PROVE  Shown(b, t) = Shown(a, t)
  <2>1. \A s \in ReviewIds : ShowsOn(b, s, t) <=> ShowsOn(a, s, t)
    BY <1>1, <1>2, <1>3 DEF ShowsOn
  <2>2. \A s \in ReviewIds : ShowsOn(b, s, t) => b[s].rating = a[s].rating
    BY <1>1, <1>2, <1>3 DEF ShowsOn
  <2> QED BY <2>1, <2>2, SameShown
<1> QED BY <1>1, <1>3

(***************************************************************************)
(* Where transactions meet.                                                *)
(***************************************************************************)
MeetInv ==
  \A q, p \in Requests : q # p => About(q) \cap About(p) \subseteq crossed[q]

LEMMA AboutRows ==
  ASSUME NEW q \in Requests, pc[q] \in InTransaction, NEW r \in ReviewIds, NEW row,
         isRow(row),
         \/ row = reviews[r]
         \/ \E p \in Requests : r \in DOMAIN txn[p].rows /\ row = txn[p].rows[r],
         r \in Handled(q) \/ row.author = leaver(q)
  PROVE  row.target \in About(q)
<1>1. row \in Versions(r)
  BY DEF Versions
<1>2. row \in Concerned(q, r)
  BY <1>1 DEF Concerned
<1> QED BY <1>2 DEF About

LEMMA MeetStays ==
  ASSUME MeetInv, [RNext]_allVars
  PROVE  /\ MeetInv'
         /\ \A q \in Requests : pc'[q] \in InTransaction => crossed[q] \subseteq crossed'[q]
<1>1. CASE watched
  <2>1. \A q \in Requests :
          crossed'[q] = IF pc'[q] \in InTransaction THEN crossed[q] \cup met(q)' ELSE {}
    BY <1>1 DEF watched
  <2>2. ASSUME NEW q \in Requests, NEW p \in Requests, q # p,
               NEW t \in About(q)' \cap About(p)'
        PROVE  t \in crossed'[q]
    <3>1. pc'[q] \in InTransaction /\ pc'[p] \in InTransaction
      BY <2>2 DEF About
    <3>2. t \in met(q)'
      BY <2>2, <3>1 DEF met
    <3> QED BY <2>1, <3>1, <3>2
  <2> QED BY <2>1, <2>2 DEF MeetInv
<1>2. CASE UNCHANGED allVars
  <2>1. \A q \in Requests : About(q)' = About(q) /\ crossed'[q] = crossed[q]
    BY <1>2 DEF allVars, About, Concerned, Versions, Handled, leaver
  <2> QED BY <2>1 DEF MeetInv
<1> QED BY <1>1, <1>2 DEF RNext, Quiescent

(***************************************************************************)
(* What an open transaction knows.                                         *)
(***************************************************************************)
Removes(q) == input[q].kind \in {"erase", "merge"}

Deleting == {"delete_responses", "delete_reviews"}

\* A create, a moderation and a verdict tell of the one row they hold, an erasure
\* and a merge of those listed; what is told is told before the commit.  A merge
\* comes to a review that nobody erased or that it will find gone.
InOrder(q) ==
  /\ pc[q] \notin {"emit", "delete_replies"} => txn[q].tell = {}
  /\ IF Removes(q)
       THEN txn[q].published = {} /\ txn[q].hidden \subseteq DOMAIN ctx[q].rows
       ELSE /\ txn[q].published \cup txn[q].hidden \subseteq DOMAIN txn[q].rows
            /\ \A r, s \in DOMAIN txn[q].rows : r = s
  /\ input[q].kind = "erase" /\ pc[q] \in Deleting \cup {"collect"} =>
       DOMAIN txn[q].rows = {}
  /\ input[q].kind = "merge" /\ pc[q] \in Deleting =>
       LET r == ctx[q].review
       IN  /\ r \in DOMAIN ctx[q].rows /\ r \notin DOMAIN txn[q].rows
           /\ ctx[q].gone \subseteq {r}
           /\ r \in ctx[q].gone \/ reviews[r] = Erased

\* Review r is not at a target where q met another transaction.
Apart(q, r) == isRow(reviews[r]) => reviews[r].target \notin crossed[q]

\* What q has listed still says of r what the table says.
Mirrors(q, r) ==
  LET held == r \in DOMAIN ctx[q].rows
      visible == r \in VisibleIds(reviews)
  IN  /\ held /\ r \notin DOMAIN txn[q].rows =>
           /\ ctx[q].rows[r].target = reviews[r].target
           /\ visible <=> ctx[q].rows[r].status \in VISIBLE_STATUSES
      /\ pc[q] = "collect" =>
           (held <=> reviews[r].author = input[q].user /\ visible)
      /\ input[q].kind = "erase" /\ pc[q] \in Deleting /\ visible =>
           (held <=> r \in ctx[q].gone)

ListsAlone(q) ==
  \A r \in ReviewIds : isRow(reviews[r]) /\ Apart(q, r) => Mirrors(q, r)

\* What q will tell about the visibility of r is what it leaves.
TellsVisibility(q, r) ==
  r \in VisibleIds(View(q)) <=>
    r \in (VisibleIds(reviews) \cup txn[q].published) \ txn[q].hidden

\* So is the rating it will tell of t; where it tells none, none changes.
TellsRating(q, t) ==
  IF t \in DOMAIN txn[q].fact
    THEN txn[q].fact[t] = aggregate(Shown(View(q), t))
    ELSE Shown(View(q), t) = Shown(reviews, t)

\* A fact of t has still to be computed.
Owes(q, t) == \E r \in txn[q].tell : ctx[q].rows[r].target = t

TellsAlone(q) ==
  /\ \A r \in ReviewIds : (Removes(q) => Apart(q, r)) => TellsVisibility(q, r)
  /\ \A t \in Targets \ crossed[q] : Owes(q, t) \/ TellsRating(q, t)

Alone(q) ==
  pc[q] \in InTransaction =>
    InOrder(q) /\ TellsAlone(q) /\ (Removes(q) => ListsAlone(q))

AloneInv == MeetInv /\ \A q \in Requests : Alone(q)

(***************************************************************************)
(* A statement that changes no rating keeps what is known.                 *)
(***************************************************************************)
LEMMA StillApart ==
  ASSUME NEW q \in Requests, UNCHANGED reviews, crossed[q] \subseteq crossed'[q]
  PROVE  \A r : Apart(q, r)' => Apart(q, r)
BY DEF Apart

LEMMA StillTells ==
  ASSUME RTypeOK, RTypeOK', NEW q \in Requests, TellsAlone(q), UNCHANGED reviews,
         input'[q] = input[q], ctx'[q].rows = ctx[q].rows, SameTold(q),
         crossed[q] \subseteq crossed'[q],
         \A r \in ReviewIds : Alike(View(q)[r], View(q)'[r])
  PROVE  TellsAlone(q)'
<1> DEFINE v == View(q)
           w == View(q)'
<1>1. \A r \in ReviewIds : Alike(v[r], w[r])
  OBVIOUS
<1> HIDE DEF v, w
<1>2. /\ \A r \in ReviewIds : r \in VisibleIds(w) <=> r \in VisibleIds(v)
      /\ \A t : Shown(w, t) = Shown(v, t)
  BY <1>1, AlikeTables
<1>3. /\ txn'[q].fact = txn[q].fact /\ txn'[q].tell = txn[q].tell
      /\ txn'[q].published = txn[q].published /\ txn'[q].hidden = txn[q].hidden
  BY DEF SameTold, SameFacts
<1>4. \A r \in ReviewIds : TellsVisibility(q, r) => TellsVisibility(q, r)'
  BY <1>2, <1>3 DEF TellsVisibility, v, w
<1>5. \A t : TellsRating(q, t) => TellsRating(q, t)'
  BY <1>2, <1>3 DEF TellsRating, v, w
<1>6. \A t : Owes(q, t) => Owes(q, t)'
  BY <1>3 DEF Owes
<1> QED BY <1>4, <1>5, <1>6, StillApart DEF TellsAlone, Removes

LEMMA StillLists ==
  ASSUME NEW q \in Requests, ListsAlone(q), UNCHANGED reviews,
         input'[q] = input[q], ctx'[q].rows = ctx[q].rows,
         DOMAIN txn[q].rows \subseteq DOMAIN txn'[q].rows,
         crossed[q] \subseteq crossed'[q], pc'[q] # "collect",
         input[q].kind = "erase" /\ pc'[q] \in Deleting =>
           pc[q] \in Deleting /\ ctx'[q].gone = ctx[q].gone
  PROVE  ListsAlone(q)'
<1>1. \A r \in ReviewIds : Mirrors(q, r) => Mirrors(q, r)'
  BY DEF Mirrors
<1> QED BY <1>1, StillApart DEF ListsAlone

(***************************************************************************)
(* A request lists what is there.                                          *)
(***************************************************************************)
LEMMA EmptyTells ==
  ASSUME RTypeOK', NEW q \in Requests, txn'[q] = NoTxn
  PROVE  TellsAlone(q)'
<1> DEFINE a == reviews'
           w == View(q)'
<1>1. /\ DOMAIN txn'[q].rows = {} /\ DOMAIN txn'[q].fact = {}
      /\ txn'[q].published = {} /\ txn'[q].hidden = {}
  BY DEF NoTxn, Nothing
<1>2. \A r \in ReviewIds : Alike(a[r], w[r])
  BY <1>1, NextView DEF Alike
<1> HIDE DEF w
<1>3. /\ \A r \in ReviewIds : r \in VisibleIds(w) <=> r \in VisibleIds(a)
      /\ \A t : Shown(w, t) = Shown(a, t)
  BY <1>2, AlikeTables
<1>4. \A r \in ReviewIds : TellsVisibility(q, r)'
  BY <1>1, <1>3 DEF TellsVisibility, w
<1>5. \A t : TellsRating(q, t)'
  BY <1>1, <1>3 DEF TellsRating, w
<1> QED BY <1>4, <1>5 DEF TellsAlone

LEMMA LookAlone ==
  ASSUME RTypeOK, RTypeOK', NEW q \in Requests, Alone(q), Looks(q), OthersStay(q),
         crossed[q] \subseteq crossed'[q]
  PROVE  Alone(q)'
<1>1. UNCHANGED reviews /\ input'[q] = input[q]
  BY DEF Looks, committed, OthersStay
<1>2. /\ NoTxn.published = {} /\ NoTxn.hidden = {} /\ NoTxn.tell = {}
      /\ DOMAIN NoTxn.rows = {}
  BY DEF NoTxn, Nothing
<1>3. CASE /\ at(q, "erase", "check") /\ pc'[q] = "collect" /\ txn'[q] = NoTxn
           /\ ctx'[q].rows =
                [r \in Authored(reviews, input[q].user) \cap VisibleIds(reviews) |-> reviews[r]]
  <2>1. ASSUME NEW r \in ReviewIds, isRow(reviews[r]) PROVE Mirrors(q, r)'
    BY <1>1, <1>3, <2>1 DEF Mirrors, Authored, VisibleIds, Rows, isRow, Deleting
  <2>2. InOrder(q)'
    BY <1>1, <1>2, <1>3 DEF InOrder, Removes, at, Deleting
  <2> QED BY <1>1, <1>3, <2>1, <2>2, EmptyTells DEF Alone, ListsAlone
<1>4. CASE /\ at(q, "erase", "collect") /\ pc'[q] = "delete_responses" /\ txn'[q] = txn[q]
           /\ ctx'[q].rows = ctx[q].rows /\ ctx'[q].gone = Authored(reviews, input[q].user)
  <2>1. InOrder(q) /\ TellsAlone(q) /\ ListsAlone(q)
    BY <1>4 DEF Alone, InTransaction, at, Removes
  <2>2. ASSUME NEW r \in ReviewIds, isRow(reviews[r]), Apart(q, r)' PROVE Mirrors(q, r)'
    <3>1. Mirrors(q, r)
      BY <1>1, <2>1, <2>2, StillApart DEF ListsAlone
    <3> QED BY <1>1, <1>4, <2>2, <3>1 DEF Mirrors, Authored, Rows, isRow, at, Deleting
  <2>3. InOrder(q)'
    BY <1>1, <1>4, <2>1 DEF InOrder, Removes, at, Deleting
  <2>4. View(q)' = View(q)
    BY <1>1, <1>4 DEF View
  <2>5. TellsAlone(q)'
    BY <1>1, <1>4, <2>1, <2>4, StillTells DEF Alike, SameTold, SameFacts
  <2> QED BY <1>1, <2>2, <2>3, <2>5 DEF Alone, ListsAlone
<1>5. CASE /\ at(q, "merge", "check") /\ pc'[q] = "drop" /\ txn'[q] = NoTxn
           /\ ctx'[q].rows = [r \in Authored(reviews, input[q].guest) |-> reviews[r]]
  <2>1. ASSUME NEW r \in ReviewIds, isRow(reviews[r]) PROVE Mirrors(q, r)'
    BY <1>1, <1>5, <2>1 DEF Mirrors, VisibleIds, Rows, isRow, at
  <2>2. InOrder(q)'
    BY <1>1, <1>2, <1>5 DEF InOrder, Removes, at, Deleting
  <2> QED BY <1>1, <1>5, <2>1, <2>2, EmptyTells DEF Alone, ListsAlone
<1> QED BY <1>3, <1>4, <1>5 DEF Looks

LEMMA SilenceAlone ==
  ASSUME RTypeOK, RTypeOK', NEW q \in Requests, Alone(q), Silences(q), OthersStay(q),
         crossed[q] \subseteq crossed'[q]
  PROVE  Alone(q)'
<1>1. /\ UNCHANGED reviews /\ input'[q] = input[q] /\ ctx'[q] = ctx[q]
      /\ txn'[q].rows = txn[q].rows /\ SameTold(q)
  BY DEF Silences, committed, OthersStay
<1>2. \/ pc[q] = "delete_responses" /\ pc'[q] = "delete_reviews"
      \/ /\ pc[q] = "delete_replies" /\ input[q].kind = "erase"
         /\ pc'[q] \in {"emit", "commit"} /\ (pc'[q] = "emit" <=> txn[q].tell # {})
      \/ pc[q] = "move_replies" /\ pc'[q] = "commit" /\ input[q].kind = "merge"
  BY AfterLabel DEF Silences, at
<1>3. InOrder(q) /\ TellsAlone(q) /\ (Removes(q) => ListsAlone(q))
  BY <1>2 DEF Alone, InTransaction
<1>4. InOrder(q)'
  BY <1>1, <1>2, <1>3 DEF InOrder, Removes, SameTold, SameFacts, Deleting
<1>5. View(q)' = View(q)
  BY <1>1 DEF View
<1>6. TellsAlone(q)'
  BY <1>1, <1>3, <1>5, StillTells DEF Alike
<1>7. Removes(q) => ListsAlone(q)'
  BY <1>1, <1>2, <1>3, StillLists DEF Deleting
<1> QED BY <1>1, <1>4, <1>6, <1>7 DEF Alone, Removes

LEMMA TurnAlone ==
  ASSUME Locking, RTypeOK', NEW q \in Requests, Alone(q), MergeOrder(q), Recalled(q),
         Turns(q) \/ Unflags(q), OthersStay(q), crossed[q] \subseteq crossed'[q]
  PROVE  Alone(q)'
<1>0. RTypeOK
  BY DEF Locking
<1>1. /\ UNCHANGED reviews /\ input'[q] = input[q] /\ pc[q] = "drop"
      /\ input[q].kind = "merge" /\ SameTold(q)
      /\ pc'[q] \in {"delete_responses", "drop"}
  BY DEF Turns, Unflags, committed, OthersStay, at, SameTold, SameFacts
<1>2. InOrder(q) /\ TellsAlone(q) /\ ListsAlone(q)
  BY <1>1 DEF Alone, InTransaction, Removes
<1>3. PICK r \in ctx[q].todo :
        /\ ctx'[q] = Turned(q, r)
        /\ \/ txn'[q] = txn[q]
           \/ /\ pc'[q] = "drop" /\ isRow(reviews[r])
              /\ DOMAIN txn'[q].rows = DOMAIN txn[q].rows \cup {r}
              /\ txn'[q].rows[r] = unflagged(reviews[r])
              /\ \A s \in DOMAIN txn[q].rows \ {r} : txn'[q].rows[s] = txn[q].rows[s]
  BY DEF Turns, Unflags
<1>4. /\ r \in DOMAIN ctx[q].rows /\ r \in ReviewIds /\ r \notin DOMAIN txn[q].rows
      /\ ctx'[q].rows = ctx[q].rows /\ ctx'[q].review = r
      /\ ctx'[q].gone = {r} \cap Rows(reviews)
  BY <1>0, <1>1, TurnedType, <1>3 DEF MergeOrder
<1>5. r \in ctx'[q].gone \/ reviews[r] = Erased
  <2>1. View(q)[r] = reviews[r] /\ View(q)[r] # Unwritten
    BY <1>0, <1>4, ViewRow DEF Recalled, Since
  <2> QED BY <1>4, <2>1 DEF Rows
<1>6. InOrder(q)'
  BY <1>1, <1>2, <1>3, <1>4, <1>5 DEF InOrder, Removes, SameTold, SameFacts, Deleting
<1>7. DOMAIN txn[q].rows \subseteq DOMAIN txn'[q].rows
  BY <1>3
<1>8. ListsAlone(q)'
  BY <1>1, <1>2, <1>4, <1>7, StillLists
<1>9. ASSUME NEW s \in ReviewIds PROVE Alike(View(q)[s], View(q)'[s])
  <2>1. CASE txn'[q] = txn[q]
    <3>1. View(q)' = View(q)
      BY <1>1, <2>1 DEF View
    <3> QED BY <3>1 DEF Alike
  <2>2. CASE txn'[q] # txn[q] /\ s = r
    <3>1. /\ View(q)[s] = reviews[r] /\ View(q)'[s] = unflagged(reviews[r])
          /\ isRow(reviews[r])
      BY <1>0, <1>3, <1>4, <2>2, ViewRow, NextView
    <3>2. reviews[r] \in Review
      BY <1>0, <1>4, <3>1, RowFields
    <3> QED BY <3>1, <3>2, Unflagged, RowAssumption DEF Alike, isRow
  <2>3. CASE txn'[q] # txn[q] /\ s # r /\ s \in DOMAIN txn[q].rows
    <3>1. s \in DOMAIN txn'[q].rows /\ txn'[q].rows[s] = txn[q].rows[s]
      BY <1>3, <2>3
    <3> QED BY <1>0, <2>3, <3>1, ViewRow, NextView DEF Alike
  <2>4. CASE txn'[q] # txn[q] /\ s # r /\ s \notin DOMAIN txn[q].rows
    <3>1. s \notin DOMAIN txn'[q].rows
      BY <1>3, <2>4
    <3> QED BY <1>0, <1>1, <2>4, <3>1, ViewRow, NextView DEF Alike
  <2> QED BY <2>1, <2>2, <2>3, <2>4
<1>10. TellsAlone(q)'
  BY <1>0, <1>1, <1>2, <1>4, <1>9, StillTells
<1> QED BY <1>6, <1>8, <1>10 DEF Alone

LEMMA MoveAlone ==
  ASSUME RTypeOK, RTypeOK', NEW q \in Requests, Alone(q), Moves(q), OthersStay(q),
         crossed[q] \subseteq crossed'[q]
  PROVE  Alone(q)'
<1>1. /\ UNCHANGED reviews /\ pc[q] = "drop" /\ pc'[q] = "move_replies"
      /\ input[q].kind = "merge" /\ input'[q] = input[q] /\ ctx'[q] = ctx[q]
      /\ input[q].survivor \in Users /\ txn'[q].rows = RowsMoved(q) /\ SameTold(q)
  BY DEF Moves, at, committed, OthersStay
<1>2. InOrder(q) /\ TellsAlone(q) /\ ListsAlone(q)
  BY <1>1 DEF Alone, InTransaction, Removes
<1>3. InOrder(q)'
  BY <1>1, <1>2 DEF InOrder, Removes, SameTold, SameFacts, Deleting
<1>4. DOMAIN txn[q].rows \subseteq DOMAIN txn'[q].rows
  BY <1>1, MovedRows
<1>5. ListsAlone(q)'
  BY <1>1, <1>2, <1>4, StillLists
<1>6. ASSUME NEW r \in ReviewIds PROVE Alike(View(q)[r], View(q)'[r])
  <2>1. CASE r \in Moving(q)
    <3>1. /\ View(q)[r] \in Review /\ RowsMoved(q)[r] \in Review
          /\ r \in DOMAIN RowsMoved(q)
          /\ RowsMoved(q)[r].target = View(q)[r].target
          /\ RowsMoved(q)[r].rating = View(q)[r].rating
          /\ RowsMoved(q)[r].status = View(q)[r].status
      BY <1>1, <2>1, MovedRows
    <3>2. View(q)'[r] = RowsMoved(q)[r]
      BY <1>1, <3>1, NextView
    <3> QED BY <3>1, <3>2, RowAssumption DEF isRow, Alike
  <2>2. CASE r \in DOMAIN txn[q].rows \ Moving(q)
    <3>1. r \in DOMAIN RowsMoved(q) /\ RowsMoved(q)[r] = txn[q].rows[r]
      BY <1>1, <2>2, MovedRows
    <3>2. View(q)'[r] = RowsMoved(q)[r] /\ View(q)[r] = txn[q].rows[r]
      BY <1>1, <2>2, <3>1, NextView, ViewRow
    <3> QED BY <3>1, <3>2 DEF Alike
  <2>3. CASE r \notin DOMAIN txn[q].rows /\ r \notin Moving(q)
    <3>1. r \notin DOMAIN RowsMoved(q)
      BY <1>1, <2>3, MovedRows
    <3>2. View(q)'[r] = reviews[r]
      BY <1>1, <3>1, NextView
    <3>3. View(q)[r] = reviews[r]
      BY <2>3, ViewRow
    <3> QED BY <3>2, <3>3 DEF Alike
  <2> QED BY <2>1, <2>2, <2>3
<1>7. TellsAlone(q)'
  BY <1>1, <1>2, <1>6, StillTells
<1> QED BY <1>3, <1>5, <1>7 DEF Alone

(***************************************************************************)
(* A request writes, and will tell what it wrote.                          *)
(***************************************************************************)
LEMMA OneRowAlone ==
  ASSUME RTypeOK, RTypeOK', NEW q \in Requests, UNCHANGED reviews, ~Removes(q)',
         NEW r \in ReviewIds, DOMAIN txn'[q].rows = {r}, txn'[q].rows[r] \in Review,
         reviews[r] \in Review => reviews[r].target = txn'[q].rows[r].target,
         txn'[q].fact = Nothing,
         txn'[q].published = IF txn'[q].rows[r].status = "published" THEN {r} ELSE {},
         txn'[q].hidden =
           IF txn'[q].rows[r].status = "hidden" /\ r \in txn'[q].tell THEN {r} ELSE {},
         \/ txn'[q].tell = {r} /\ ctx'[q].rows[r].target = txn'[q].rows[r].target
         \/ txn'[q].tell = {} /\ r \notin VisibleIds(reviews)
              /\ txn'[q].rows[r].status # "published",
         r \in txn'[q].tell => txn'[q].rows[r].status \in {"published", "hidden"},
         pc'[q] = IF txn'[q].tell # {} THEN "emit" ELSE "commit"
  PROVE  Alone(q)'
<1> DEFINE a == reviews
           b == View(q)'
           row == txn'[q].rows[r]
<1>1. /\ a \in Table /\ b \in Table /\ b[r] = row
      /\ \A s \in ReviewIds \ {r} : b[s] = a[s]
  BY NextView DEF RTypeOK, TypeOK
<1> HIDE DEF b
<1>2. /\ \A s \in ReviewIds :
           s \in VisibleIds(b) <=>
             IF s = r THEN row.status = "published" ELSE s \in VisibleIds(a)
      /\ \A t : t # row.target => Shown(b, t) = Shown(a, t)
      /\ row.status # "published" /\ r \notin VisibleIds(a) => \A t : Shown(b, t) = Shown(a, t)
  BY <1>1, OneRowChanges
<1>3. DOMAIN txn'[q].fact = {}
  BY DEF Nothing
<1>4. \A s \in ReviewIds : TellsVisibility(q, s)'
  BY <1>2 DEF TellsVisibility, b
<1>5. ASSUME NEW t \in Targets PROVE Owes(q, t)' \/ TellsRating(q, t)'
  <2>1. CASE t = row.target /\ txn'[q].tell = {r}
    BY <2>1 DEF Owes
  <2>2. CASE t # row.target \/ txn'[q].tell # {r}
    <3>1. Shown(b, t) = Shown(a, t)
      BY <1>2, <2>2
    <3> QED BY <1>3, <3>1 DEF TellsRating, b
  <2> QED BY <2>1, <2>2
<1>6. input'[q].kind \notin {"erase", "merge"}
  BY DEF Removes
<1>7. InOrder(q)'
  BY <1>6 DEF InOrder, Removes
<1> QED BY <1>4, <1>5, <1>7 DEF Alone, TellsAlone

LEMMA InsertAlone ==
  ASSUME RTypeOK, RTypeOK', NEW q \in Requests, Inserts(q), OthersStay(q)
  PROVE  Alone(q)'
<1>1. PICK r \in ReviewIds :
        /\ reviews[r] = Unwritten /\ DOMAIN txn'[q].rows = {r}
        /\ txn'[q].rows[r] \in Review /\ ctx'[q].rows = txn'[q].rows
        /\ txn'[q].rows[r].status \in {"pending", "published"}
        /\ txn'[q].tell = IF txn'[q].rows[r].status = "published" THEN {r} ELSE {}
        /\ txn'[q].published = txn'[q].tell /\ txn'[q].hidden = {}
        /\ txn'[q].fact = Nothing
        /\ pc'[q] = IF txn'[q].tell # {} THEN "emit" ELSE "commit"
  BY DEF Inserts
<1>2. UNCHANGED reviews /\ ~Removes(q)'
  BY DEF Inserts, committed, OthersStay, Removes
<1>3. r \notin VisibleIds(reviews) /\ reviews[r] \notin Review
  BY <1>1, RowAssumption DEF VisibleIds, Rows
<1> QED BY <1>1, <1>2, <1>3, OneRowAlone

LEMMA DecideAlone ==
  ASSUME RTypeOK, RTypeOK', NEW q \in Requests, Recalled(q), Decides(q), OthersStay(q)
  PROVE  Alone(q)'
<1> DEFINE r == ctx[q].review
           row == txn'[q].rows[r]
<1>1. /\ r \in ReviewIds /\ isRow(reviews[r]) /\ DOMAIN txn'[q].rows = {r}
      /\ row \in Review /\ row = saved(q, reviews[r])
      /\ row.status \in {"published", "hidden"}
      /\ txn'[q].tell = {r} /\ txn'[q].fact = Nothing
      /\ txn'[q].hidden = (IF row.status = "hidden" THEN {r} ELSE {})
      /\ txn'[q].published = (IF row.status = "published" THEN {r} ELSE {})
      /\ pc'[q] = "emit"
  BY DEF Decides
<1>2. UNCHANGED reviews /\ ~Removes(q)'
  BY DEF Decides, committed, OthersStay, Removes, Moderations
<1>3. reviews[r] \in Review /\ row.target = reviews[r].target
  <2>1. input[q] \in Asked /\ input[q].kind \in Moderations
    BY DEF Decides, RTypeOK
  <2> QED BY <1>1, <2>1, RowFields, SavedRow
<1>4. ctx'[q].rows[r].target = reviews[r].target
  <2>1. /\ txn[q] = NoTxn /\ ctx'[q] = ctx[q] /\ r \in DOMAIN ctx[q].rows
    BY DEF Decides
  <2>2. View(q)[r] = reviews[r]
    BY <1>1, <2>1, ViewRow, EmptyHands
  <2> QED BY <1>1, <2>1, <2>2 DEF Recalled, Since
<1> HIDE DEF r
<1> QED BY <1>1, <1>2, <1>3, <1>4, OneRowAlone

(***************************************************************************)
(* The reviews a delete takes away of those away from any other            *)
(* transaction are the ones that will be told.                             *)
(***************************************************************************)
LEMMA DeletesListed ==
  ASSUME Locking, RTypeOK', NEW q \in Requests, InOrder(q), ListsAlone(q), Deletes(q),
         NEW r \in ReviewIds, Apart(q, r)
  PROVE  LET there == r \in VisibleIds(reviews) /\ r \notin DOMAIN txn[q].rows
             gone == r \in ctx[q].gone /\ isRow(reviews[r])
         IN  /\ there => /\ gone <=> r \in leaving(q)
                         /\ gone => ctx[q].rows[r].target = reviews[r].target
             /\ gone => r \notin DOMAIN txn[q].rows
             /\ r \in leaving(q) /\ r \in DOMAIN txn[q].rows => input[q].kind = "erase"
<1>1. pc[q] = "delete_reviews" /\ input[q].kind \in {"erase", "merge"} /\ RTypeOK
  BY DeletingKinds DEF Deletes, Locking
<1>2. isRow(reviews[r]) => Mirrors(q, r)
  BY DEF ListsAlone
<1>3. CASE input[q].kind = "erase"
  <2>1. DOMAIN txn[q].rows = {}
    BY <1>1, <1>3 DEF InOrder, Deleting
  <2>2. r \in VisibleIds(reviews) => isRow(reviews[r])
    BY DEF VisibleIds, Rows, isRow
  <2> QED BY <1>1, <1>2, <1>3, <2>1, <2>2 DEF Mirrors, leaving, Deleting
<1>4. CASE input[q].kind = "merge"
  <2>1. /\ ctx[q].review \in DOMAIN ctx[q].rows /\ ctx[q].review \notin DOMAIN txn[q].rows
        /\ ctx[q].gone \subseteq {ctx[q].review}
        /\ ctx[q].review \in ctx[q].gone \/ reviews[ctx[q].review] = Erased
    BY <1>1, <1>4 DEF InOrder, Deleting
  <2>2. r \in VisibleIds(reviews) => isRow(reviews[r]) /\ reviews[r] # Erased
    BY DEF VisibleIds, Rows, isRow
  <2> QED BY <1>1, <1>2, <1>4, <2>1, <2>2 DEF Mirrors, leaving
<1> QED BY <1>1, <1>3, <1>4

LEMMA DeleteAlone ==
  ASSUME Locking, RTypeOK', NEW q \in Requests, Alone(q), Deletes(q), OthersStay(q),
         crossed[q] \subseteq crossed'[q]
  PROVE  Alone(q)'
<1> DEFINE a == reviews
           v == View(q)
           w == View(q)'
           gone == {r \in ctx[q].gone : isRow(reviews[r])}
<1>0. RTypeOK
  BY DEF Locking
<1>1. /\ pc[q] = "delete_reviews" /\ UNCHANGED reviews /\ input'[q] = input[q]
      /\ ctx'[q] = ctx[q] /\ input[q].kind \in {"erase", "merge"}
      /\ pc'[q] = (IF input[q].kind = "erase" THEN "delete_replies" ELSE after(q, leaving(q)))
      /\ DOMAIN txn'[q].rows = DOMAIN txn[q].rows \cup gone
      /\ \A r \in DOMAIN txn'[q].rows :
           txn'[q].rows[r] = IF r \in gone THEN Erased ELSE txn[q].rows[r]
      /\ txn'[q].published = txn[q].published /\ txn'[q].fact = txn[q].fact
      /\ txn'[q].tell = leaving(q) /\ txn'[q].hidden = txn[q].hidden \cup leaving(q)
  BY <1>0, DeletingKinds DEF Deletes, committed, OthersStay, SameFacts
<1>2. /\ InOrder(q) /\ TellsAlone(q) /\ ListsAlone(q) /\ txn[q].tell = {}
      /\ txn[q].published = {}
  BY <1>1 DEF Alone, InTransaction, Removes, InOrder
<1>3. leaving(q) \subseteq DOMAIN ctx[q].rows /\ leaving(q) \subseteq ReviewIds
  BY <1>0 DEF leaving, RTypeOK, Memory, Partial
<1>4. InOrder(q)'
  <2>1. pc'[q] \notin {"emit", "delete_replies"} => leaving(q) = {}
    BY <1>1, AfterLabel
  <2>2. pc'[q] \notin Deleting \cup {"collect"}
    BY <1>1, AfterLabel DEF Deleting
  <2> QED BY <1>1, <1>2, <1>3, <2>1, <2>2 DEF InOrder, Removes
<1>5. ListsAlone(q)'
  <2>1. pc'[q] \notin Deleting \cup {"collect"}
    BY <1>1, AfterLabel DEF Deleting
  <2>2. DOMAIN txn[q].rows \subseteq DOMAIN txn'[q].rows
    BY <1>1
  <2> QED BY <1>1, <1>2, <2>1, <2>2, StillLists
<1>6. ASSUME NEW r \in ReviewIds
      PROVE  w[r] = IF r \in gone THEN Erased ELSE v[r]
  <2>1. CASE r \in DOMAIN txn'[q].rows
    BY <1>0, <1>1, <2>1, ViewRow, NextView
  <2>2. CASE r \notin DOMAIN txn'[q].rows
    BY <1>0, <1>1, <2>2, ViewRow, NextView
  <2> QED BY <2>1, <2>2
<1>7. ASSUME NEW r \in ReviewIds, r \notin DOMAIN txn[q].rows PROVE v[r] = a[r]
  BY <1>0, <1>7, ViewRow
<1> HIDE DEF v, w
<1>8. \A r \in ReviewIds : r \in VisibleIds(w) <=> r \in VisibleIds(v) /\ r \notin gone
  BY <1>6 DEF VisibleIds, Rows
<1>9. ASSUME NEW r \in ReviewIds, Apart(q, r)
      PROVE  /\ r \in gone => r \notin DOMAIN txn[q].rows
             /\ r \in VisibleIds(a) /\ r \notin DOMAIN txn[q].rows =>
                  /\ r \in gone <=> r \in leaving(q)
                  /\ r \in gone => ctx[q].rows[r].target = a[r].target
             /\ r \in leaving(q) /\ r \in DOMAIN txn[q].rows => input[q].kind = "erase"
  BY <1>2, <1>9, DeletesListed
<1>10. ASSUME NEW r \in ReviewIds, Apart(q, r)' PROVE TellsVisibility(q, r)'
  <2>1. Apart(q, r)
    BY <1>1, <1>10, StillApart
  <2>2. r \in VisibleIds(v) <=> r \in VisibleIds(a) /\ r \notin txn[q].hidden
    BY <1>1, <1>2, <2>1 DEF TellsAlone, TellsVisibility, v, Removes
  <2>3. CASE r \in DOMAIN txn[q].rows
    <3>1. r \notin gone
      BY <1>9, <2>1, <2>3
    <3>2. r \notin leaving(q)
      <4>1. input[q].kind = "erase" => DOMAIN txn[q].rows = {}
        BY <1>1, <1>2 DEF InOrder, Deleting
      <4> QED BY <1>9, <2>1, <2>3, <4>1
    <3> QED BY <1>1, <1>2, <1>8, <2>2, <3>1, <3>2 DEF TellsVisibility, w
  <2>4. CASE r \notin DOMAIN txn[q].rows
    <3>1. r \in VisibleIds(v) <=> r \in VisibleIds(a)
      BY <1>7, <2>4 DEF VisibleIds, Rows
    <3> QED BY <1>1, <1>2, <1>8, <1>9, <2>1, <2>2, <2>4, <3>1 DEF TellsVisibility, w
  <2> QED BY <2>3, <2>4
<1>11. ASSUME NEW t \in Targets \ crossed'[q], ~Owes(q, t)' PROVE TellsRating(q, t)'
  <2>1. ASSUME NEW r \in ReviewIds, ShowsOn(v, r, t) PROVE r \notin gone
    <3> SUFFICES ASSUME r \in gone PROVE FALSE
      OBVIOUS
    <3>1. isRow(a[r])
      OBVIOUS
    <3>2. CASE r \in DOMAIN txn[q].rows
      <4>1. input[q].kind = "merge" => r = ctx[q].review /\ ctx[q].review \notin DOMAIN txn[q].rows
        BY <1>1, <1>2 DEF InOrder, Deleting
      <4>2. input[q].kind = "erase" => DOMAIN txn[q].rows = {}
        BY <1>1, <1>2 DEF InOrder, Deleting
      <4> QED BY <1>1, <3>2, <4>1, <4>2
    <3>3. CASE r \notin DOMAIN txn[q].rows
      <4>1. v[r] = a[r] /\ r \in VisibleIds(a) /\ a[r].target = t
        BY <1>7, <2>1, <3>3 DEF ShowsOn, VisibleIds, Rows
      <4>2. Apart(q, r)
        BY <1>1, <1>11, <4>1 DEF Apart
      <4>3. r \in leaving(q) /\ ctx[q].rows[r].target = t
        BY <1>9, <3>3, <4>1, <4>2
      <4> QED BY <1>1, <1>11, <4>3 DEF Owes
    <3> QED BY <3>2, <3>3
  <2>2. ASSUME NEW r \in ReviewIds
        PROVE  /\ ShowsOn(w, r, t) <=> ShowsOn(v, r, t)
               /\ ShowsOn(w, r, t) => w[r].rating = v[r].rating
    BY <1>6, <1>8, <2>1 DEF ShowsOn
  <2>3. Shown(w, t) = Shown(v, t)
    BY <2>2, SameShown
  <2>4. TellsRating(q, t)
    BY <1>1, <1>2, <1>11 DEF TellsAlone, Owes
  <2> QED BY <1>1, <2>3, <2>4 DEF TellsRating, v, w
<1> QED BY <1>1, <1>4, <1>5, <1>10, <1>11 DEF Alone, TellsAlone, Removes

LEMMA EmitAlone ==
  ASSUME RTypeOK, RTypeOK', NEW q \in Requests, Alone(q), Emits(q), OthersStay(q),
         crossed[q] \subseteq crossed'[q]
  PROVE  Alone(q)'
<1>1. /\ UNCHANGED reviews /\ pc[q] = "emit" /\ input'[q] = input[q]
      /\ ctx'[q] = ctx[q] /\ txn'[q].rows = txn[q].rows
      /\ txn'[q].published = txn[q].published /\ txn'[q].hidden = txn[q].hidden
  BY DEF Emits, committed, OthersStay
<1>2. PICK r \in txn[q].tell :
        /\ txn'[q].tell = txn[q].tell \ {r} /\ txn'[q].fact = Counting(q, r)
        /\ pc'[q] = after(q, txn'[q].tell)
  BY DEF Emits
<1>3. InOrder(q) /\ TellsAlone(q) /\ (Removes(q) => ListsAlone(q))
  BY <1>1 DEF Alone, InTransaction
<1>4. pc'[q] \in {"emit", "drop", "commit"} /\ (pc'[q] = "emit" <=> txn'[q].tell # {})
  BY <1>2, AfterLabel
<1>5. InOrder(q)'
  BY <1>1, <1>3, <1>4 DEF InOrder, Removes, Deleting
<1>6. Removes(q) => ListsAlone(q)'
  BY <1>1, <1>3, <1>4, StillLists DEF Deleting
<1>7. View(q)' = View(q)
  BY <1>1 DEF View
<1>8. \A s \in ReviewIds : TellsVisibility(q, s) => TellsVisibility(q, s)'
  BY <1>1, <1>7 DEF TellsVisibility
<1>9. ASSUME NEW t \in Targets \ crossed'[q], ~Owes(q, t)' PROVE TellsRating(q, t)'
  <2> DEFINE at_r == ctx[q].rows[r].target
  <2>1. /\ DOMAIN Counting(q, r) = DOMAIN txn[q].fact \cup {at_r}
        /\ \A s \in DOMAIN Counting(q, r) :
             Counting(q, r)[s] =
               IF s = at_r THEN aggregate(Shown(View(q), at_r)) ELSE txn[q].fact[s]
    BY DEF Counting, joined, get, counted
  <2>2. CASE t = at_r
    BY <1>2, <1>7, <2>1, <2>2 DEF TellsRating
  <2>3. CASE t # at_r
    <3>1. ~Owes(q, t)
      BY <1>1, <1>2, <1>9, <2>3 DEF Owes
    <3>2. TellsRating(q, t)
      BY <1>3, <1>9, <3>1 DEF TellsAlone
    <3> QED BY <1>1, <1>2, <1>7, <2>1, <2>3, <3>2 DEF TellsRating
  <2> QED BY <2>2, <2>3
<1> QED BY <1>1, <1>3, <1>5, <1>6, <1>8, <1>9, StillApart DEF Alone, TellsAlone, Removes

(***************************************************************************)
(* Another transaction commits: away from where the two have met, it       *)
(* changes no row that q is about.                                         *)
(***************************************************************************)
LEMMA CommitElsewhere ==
  ASSUME Locking, MeetInv, NEW q \in Requests, NEW p \in Requests \ {q},
         pc[q] \in InTransaction, Commits(p)
  PROVE  /\ \A r \in ReviewIds \ DOMAIN txn[p].rows : reviews'[r] = reviews[r]
         /\ \A r \in DOMAIN txn[p].rows :
              /\ r \in ReviewIds /\ r \notin DOMAIN txn[q].rows
              /\ \A row \in {reviews[r], reviews'[r]} :
                   isRow(row) /\ row.target \notin crossed[q] =>
                     row.target \notin About(q) /\ r \notin Handled(q) /\ row.author # leaver(q)
<1>1. reviews' = View(p) /\ pc[p] \in InTransaction /\ RTypeOK /\ RowsHeldOnce
  BY DEF Commits, InTransaction, Locking, HeldOnce
<1>2. /\ \A r \in ReviewIds \ DOMAIN txn[p].rows : reviews'[r] = reviews[r]
      /\ \A r \in DOMAIN txn[p].rows : r \in ReviewIds /\ reviews'[r] = txn[p].rows[r]
  BY <1>1, ViewRow
<1>3. ASSUME NEW r \in DOMAIN txn[p].rows, NEW row \in {reviews[r], reviews'[r]},
             isRow(row), row.target \notin crossed[q]
      PROVE  row.target \notin About(q) /\ r \notin Handled(q) /\ row.author # leaver(q)
  <2>1. r \in ReviewIds /\ (row = reviews[r] \/ row = txn[p].rows[r])
    BY <1>2, <1>3
  <2>2. r \in Handled(p)
    BY <1>3 DEF Handled
  <2>3. row.target \in About(p)
    BY <1>1, <1>3, <2>1, <2>2, AboutRows
  <2>4. row.target \notin About(q)
    BY <1>3, <2>3 DEF MeetInv
  <2> QED BY <1>3, <2>1, <2>4, AboutRows
<1>4. \A r \in DOMAIN txn[p].rows : r \notin DOMAIN txn[q].rows
  BY <1>1 DEF RowsHeldOnce
<1> QED BY <1>2, <1>3, <1>4

LEMMA CommitLists ==
  ASSUME Locking, MeetInv, NEW q \in Requests, NEW p \in Requests \ {q},
         Commits(p), OthersStay(p), pc[q] \in InTransaction, ListsAlone(q),
         crossed[q] \subseteq crossed'[q]
  PROVE  ListsAlone(q)'
<1>1. /\ txn'[q] = txn[q] /\ ctx'[q] = ctx[q] /\ input'[q] = input[q] /\ pc'[q] = pc[q]
  BY DEF OthersStay
<1>2. pc[q] = "collect" => leaver(q) = input[q].user
  BY DeletingKinds DEF leaver, Locking
<1>3. ASSUME NEW r \in ReviewIds, isRow(reviews'[r]), Apart(q, r)'
      PROVE  Mirrors(q, r)'
  <2>1. reviews'[r].target \notin crossed[q]
    BY <1>3 DEF Apart
  <2>2. CASE reviews'[r] = reviews[r]
    <3>1. Mirrors(q, r)
      BY <1>3, <2>1, <2>2 DEF ListsAlone, Apart
    <3> QED BY <1>1, <2>2, <3>1 DEF Mirrors, VisibleIds, Rows
  <2>3. CASE reviews'[r] # reviews[r]
    <3>1. r \notin Handled(q) /\ reviews'[r].author # leaver(q)
      BY <1>3, <2>1, <2>3, CommitElsewhere
    <3>2. r \notin DOMAIN ctx[q].rows /\ r \notin ctx[q].gone
      BY <3>1 DEF Handled
    <3> QED BY <1>1, <1>2, <3>1, <3>2 DEF Mirrors
  <2> QED BY <2>2, <2>3
<1> QED BY <1>3 DEF ListsAlone

LEMMA CommitVisibility ==
  ASSUME Locking, MeetInv, NEW q \in Requests, NEW p \in Requests \ {q}, RTypeOK',
         Commits(p), OthersStay(p), pc[q] \in InTransaction, InOrder(q), TellsAlone(q),
         crossed[q] \subseteq crossed'[q],
         NEW r \in ReviewIds, (Removes(q) => Apart(q, r)')
  PROVE  TellsVisibility(q, r)'
<1> DEFINE a == reviews
           b == reviews'
           v == View(q)
           w == View(q)'
<1>1. /\ txn'[q] = txn[q] /\ ctx'[q] = ctx[q] /\ RTypeOK
  BY DEF OthersStay, Locking
<1>2. \A s \in ReviewIds \ DOMAIN txn[p].rows : b[s] = a[s]
  BY CommitElsewhere
<1>3. r \in DOMAIN txn[p].rows =>
        /\ r \notin DOMAIN txn[q].rows
        /\ isRow(b[r]) /\ b[r].target \notin crossed[q] => r \notin Handled(q)
  BY CommitElsewhere
<1>4. /\ r \in DOMAIN txn[q].rows => v[r] = txn[q].rows[r] /\ w[r] = txn[q].rows[r]
      /\ r \notin DOMAIN txn[q].rows => v[r] = a[r] /\ w[r] = b[r]
  BY <1>1, ViewRow, NextView
<1> HIDE DEF v, w
<1>5. CASE r \in DOMAIN txn[p].rows
  <2>1. r \in VisibleIds(w) <=> r \in VisibleIds(b)
    BY <1>3, <1>4, <1>5 DEF VisibleIds, Rows
  <2>2. CASE ~Removes(q)
    <3>1. r \notin txn[q].published /\ r \notin txn[q].hidden
      BY <1>3, <1>5, <2>2 DEF InOrder
    <3> QED BY <1>1, <2>1, <3>1 DEF TellsVisibility, w
  <2>3. CASE Removes(q) /\ isRow(b[r])
    <3>1. b[r].target \notin crossed[q]
      BY <2>3 DEF Apart
    <3>2. r \notin txn[q].published /\ r \notin txn[q].hidden
      BY <1>3, <1>5, <2>3, <3>1 DEF InOrder, Handled
    <3> QED BY <1>1, <2>1, <3>2 DEF TellsVisibility, w
  <2>4. CASE Removes(q) /\ ~isRow(b[r])
    <3>1. r \notin VisibleIds(b) /\ txn[q].published = {}
      BY <2>4 DEF VisibleIds, Rows, isRow, InOrder
    <3> QED BY <1>1, <2>1, <3>1 DEF TellsVisibility, w
  <2> QED BY <2>2, <2>3, <2>4
<1>6. CASE r \notin DOMAIN txn[p].rows
  <2>1. b[r] = a[r] /\ w[r] = v[r]
    BY <1>2, <1>4, <1>6
  <2>2. /\ r \in VisibleIds(w) <=> r \in VisibleIds(v)
        /\ r \in VisibleIds(b) <=> r \in VisibleIds(a)
    BY <2>1 DEF VisibleIds, Rows
  <2>3. Apart(q, r)' => Apart(q, r)
    BY <2>1 DEF Apart
  <2>4. TellsVisibility(q, r)
    BY <2>3 DEF TellsAlone
  <2> QED BY <1>1, <2>2, <2>4 DEF TellsVisibility, v, w
<1> QED BY <1>5, <1>6

LEMMA CommitRating ==
  ASSUME Locking, MeetInv, NEW q \in Requests, NEW p \in Requests \ {q}, RTypeOK',
         Commits(p), OthersStay(p), pc[q] \in InTransaction,
         NEW t \in Targets, t \notin crossed[q], TellsRating(q, t)
  PROVE  TellsRating(q, t)'
<1> DEFINE a == reviews
           b == reviews'
           v == View(q)
           w == View(q)'
<1>1. /\ txn'[q] = txn[q] /\ RTypeOK
  BY DEF OthersStay, Locking
<1>2. /\ \A r \in ReviewIds \ DOMAIN txn[p].rows : b[r] = a[r]
      /\ \A r \in DOMAIN txn[p].rows :
           /\ r \in ReviewIds /\ r \notin DOMAIN txn[q].rows
           /\ \A row \in {a[r], b[r]} :
                isRow(row) /\ row.target \notin crossed[q] => row.target \notin About(q)
  BY CommitElsewhere
<1>3. /\ \A r \in DOMAIN txn[q].rows :
           r \in ReviewIds /\ v[r] = txn[q].rows[r] /\ w[r] = txn[q].rows[r]
      /\ \A r \in ReviewIds \ DOMAIN txn[q].rows : v[r] = a[r] /\ w[r] = b[r]
  BY <1>1, ViewRow, NextView
<1> HIDE DEF v, w
<1>4. CASE t \in About(q)
  <2>1. ASSUME NEW r \in DOMAIN txn[p].rows
        PROVE  ~ShowsOn(a, r, t) /\ ~ShowsOn(b, r, t)
    BY <1>2, <1>4, <2>1 DEF ShowsOn, VisibleIds, Rows, isRow
  <2>2. ASSUME NEW r \in ReviewIds
        PROVE  /\ ShowsOn(a, r, t) <=> ShowsOn(b, r, t)
               /\ ShowsOn(a, r, t) => a[r].rating = b[r].rating
    BY <1>2, <2>1, <2>2 DEF ShowsOn, VisibleIds, Rows
  <2>3. ASSUME NEW r \in ReviewIds
        PROVE  /\ ShowsOn(v, r, t) <=> ShowsOn(w, r, t)
               /\ ShowsOn(v, r, t) => v[r].rating = w[r].rating
    <3>1. CASE r \in DOMAIN txn[q].rows
      <4>1. v[r] = w[r]
        BY <1>3, <3>1
      <4> QED BY <4>1 DEF ShowsOn, VisibleIds, Rows
    <3>2. CASE r \notin DOMAIN txn[q].rows
      <4>1. v[r] = a[r] /\ w[r] = b[r]
        BY <1>3, <3>2
      <4> QED BY <2>2, <4>1 DEF ShowsOn, VisibleIds, Rows
    <3> QED BY <3>1, <3>2
  <2>4. Shown(a, t) = Shown(b, t)
    BY <2>2, SameShown
  <2>5. Shown(v, t) = Shown(w, t)
    BY <2>3, SameShown
  <2> QED BY <1>1, <2>4, <2>5 DEF TellsRating, v, w
<1>5. CASE t \notin About(q)
  <2>1. t \notin DOMAIN txn[q].fact
    BY <1>5 DEF About
  <2>2. ASSUME NEW r \in DOMAIN txn[q].rows
        PROVE  ~ShowsOn(w, r, t) /\ ~ShowsOn(b, r, t)
    <3>1. r \in ReviewIds /\ r \in Handled(q) /\ b[r] = a[r] /\ w[r] = txn[q].rows[r]
      BY <1>2, <1>3, <2>2 DEF Handled
    <3>2. \A row \in {a[r], txn[q].rows[r]} : isRow(row) => row.target # t
      BY <1>5, <2>2, <3>1, AboutRows
    <3> QED BY <3>1, <3>2 DEF ShowsOn, VisibleIds, Rows, isRow
  <2>3. ASSUME NEW r \in ReviewIds
        PROVE  /\ ShowsOn(w, r, t) <=> ShowsOn(b, r, t)
               /\ ShowsOn(w, r, t) => w[r].rating = b[r].rating
    BY <1>3, <2>2, <2>3 DEF ShowsOn, VisibleIds, Rows
  <2>4. Shown(w, t) = Shown(b, t)
    BY <2>3, SameShown
  <2> QED BY <1>1, <2>1, <2>4 DEF TellsRating, w
<1> QED BY <1>4, <1>5

LEMMA CommitAlone ==
  ASSUME Locking, MeetInv, RecallInv, NEW q \in Requests, NEW p \in Requests \ {q}, RTypeOK',
         Step(p), Commits(p), OthersStay(p), Alone(q), crossed[q] \subseteq crossed'[q]
  PROVE  Alone(q)'
<1> SUFFICES ASSUME pc'[q] \in InTransaction PROVE Alone(q)'
  BY DEF Alone
<1>1. /\ txn'[q] = txn[q] /\ ctx'[q] = ctx[q] /\ input'[q] = input[q] /\ pc'[q] = pc[q]
  BY DEF OthersStay
<1>2. InOrder(q) /\ TellsAlone(q) /\ (Removes(q) => ListsAlone(q))
  BY <1>1 DEF Alone
<1>3. ASSUME input[q].kind = "merge", pc[q] \in Deleting,
             reviews[ctx[q].review] = Erased
      PROVE  reviews'[ctx[q].review] = Erased
  <2> DEFINE r == ctx[q].review
  <2>1. r \in DOMAIN ctx[q].rows /\ r \in ReviewIds
    BY <1>2, <1>3 DEF InOrder, Locking, RTypeOK, Memory, Partial
  <2>2. reviews[r] # Unwritten /\ ~isRow(reviews[r])
    BY <1>3, RowAssumption DEF isRow
  <2> HIDE DEF r
  <2>3. Since(reviews[r], reviews'[r])
    BY <2>1, <2>2, CommitSince
  <2>4. ~isRow(reviews'[r]) /\ reviews'[r] # Unwritten
    BY <2>2, <2>3 DEF Since
  <2> QED BY <2>4 DEF isRow, r
<1>4. InOrder(q)'
  BY <1>1, <1>2, <1>3 DEF InOrder, Removes
<1>5. \A r \in ReviewIds : (Removes(q)' => Apart(q, r)') => TellsVisibility(q, r)'
  BY <1>1, <1>2, CommitVisibility DEF Removes
<1>6. \A t \in Targets \ crossed'[q] : Owes(q, t)' \/ TellsRating(q, t)'
  BY <1>1, <1>2, CommitRating DEF TellsAlone, Owes
<1>7. Removes(q)' => ListsAlone(q)'
  BY <1>1, <1>2, CommitLists DEF Removes
<1> QED BY <1>4, <1>5, <1>6, <1>7 DEF Alone, TellsAlone

LEMMA UntouchedAlone ==
  ASSUME NEW q \in Requests, Alone(q), UNCHANGED reviews,
         pc'[q] = pc[q], ctx'[q] = ctx[q], txn'[q] = txn[q], input'[q] = input[q],
         crossed[q] \subseteq crossed'[q]
  PROVE  Alone(q)'
<1>1. View(q)' = View(q)
  BY DEF View
<1>2. \A r \in ReviewIds : /\ Mirrors(q, r)' = Mirrors(q, r)
                           /\ TellsVisibility(q, r)' = TellsVisibility(q, r)
  BY <1>1 DEF Mirrors, TellsVisibility
<1>3. \A t : TellsRating(q, t)' = TellsRating(q, t) /\ Owes(q, t)' = Owes(q, t)
  BY <1>1 DEF TellsRating, Owes
<1>4. ListsAlone(q) => ListsAlone(q)'
  BY <1>2, StillApart DEF ListsAlone
<1>5. TellsAlone(q) => TellsAlone(q)'
  BY <1>2, <1>3, StillApart DEF TellsAlone, Removes
<1>6. InOrder(q) => InOrder(q)'
  BY DEF InOrder, Removes
<1> QED BY <1>4, <1>5, <1>6 DEF Alone, Removes

LEMMA ClosedIsAlone ==
  ASSUME NEW q \in Requests, pc'[q] \notin InTransaction
  PROVE  Alone(q)'
BY DEF Alone

LEMMA StepAlone ==
  ASSUME Locking, RTypeOK', MergeInv, RecallInv, AloneInv, NEW q \in Requests, Step(q),
         \A p \in Requests : pc'[p] \in InTransaction => crossed[p] \subseteq crossed'[p]
  PROVE  \A p \in Requests : Alone(p)'
<1>1. OthersStay(q) /\ RTypeOK
  BY StepEffect DEF Locking
<1>2. /\ MeetInv /\ Alone(q) /\ MergeOrder(q) /\ Recalled(q)
      /\ \A p \in Requests : Alone(p)
  BY DEF AloneInv, MergeInv, RecallInv
<1>3. Alone(q)'
  <2>1. CASE pc'[q] \notin InTransaction
    BY <2>1, ClosedIsAlone
  <2>2. CASE pc'[q] \in InTransaction
    BY <1>1, <1>2, <2>2, OpenStep, LookAlone, InsertAlone, DecideAlone, SilenceAlone,
       DeleteAlone, TurnAlone, MoveAlone, EmitAlone
  <2> QED BY <2>1, <2>2
<1>4. ASSUME NEW p \in Requests \ {q} PROVE Alone(p)'
  <2>1. CASE pc'[p] \notin InTransaction
    BY <2>1, ClosedIsAlone
  <2>2. CASE pc'[p] \in InTransaction /\ UNCHANGED reviews
    BY <1>1, <1>2, <2>2, UntouchedAlone DEF OthersStay
  <2>3. CASE pc'[p] \in InTransaction /\ Commits(q)
    BY <1>1, <1>2, <2>3, CommitAlone
  <2> QED BY <1>1, <2>1, <2>2, <2>3, OnlyCommitsWrite
<1> QED BY <1>3, <1>4

LEMMA OthersAlone ==
  ASSUME RTypeOK, \A p \in Requests : Alone(p),
         Surroundings \/ \E q \in Requests : arrive(q),
         \A p \in Requests : pc'[p] \in InTransaction => crossed[p] \subseteq crossed'[p]
  PROVE  \A p \in Requests : Alone(p)'
<1>1. UNCHANGED <<reviews, txn, ctx>>
  BY NoWritesElsewhere
<1>2. ASSUME NEW p \in Requests PROVE Alone(p)'
  <2>1. \/ pc'[p] = pc[p] /\ input'[p] = input[p]
        \/ pc'[p] = "check"
    BY DEF Surroundings, arrive, allVars, account_lands, user_row_lands, host_registers,
           register_target_type, requestVars, goto, RTypeOK
  <2>2. CASE pc'[p] \notin InTransaction
    BY <2>2, ClosedIsAlone
  <2>3. CASE pc'[p] \in InTransaction
    BY <1>1, <2>1, <2>3, UntouchedAlone DEF InTransaction
  <2> QED BY <2>2, <2>3
<1> QED BY <1>2

LEMMA AloneStays ==
  ASSUME Locking, RTypeOK', MergeInv, RecallInv, AloneInv, [RNext]_allVars
  PROVE  AloneInv'
<1>1. /\ MeetInv'
      /\ \A q \in Requests : pc'[q] \in InTransaction => crossed[q] \subseteq crossed'[q]
  BY MeetStays DEF AloneInv
<1>2. \A q \in Requests : Alone(q)'
  BY <1>1, Cases, StepAlone, OthersAlone DEF AloneInv, Locking
<1> QED BY <1>1, <1>2 DEF AloneInv

LEMMA AloneHolds == RSpec => [](Locking /\ AloneInv)
<1>1. RInit => AloneInv
  <2> SUFFICES ASSUME RInit PROVE AloneInv
    OBVIOUS
  <2>1. \A q \in Requests : pc[q] \notin InTransaction
    BY DEF RInit, InTransaction
  <2>2. \A q \in Requests : About(q) = {}
    BY <2>1 DEF About
  <2> QED BY <2>1, <2>2 DEF AloneInv, MeetInv, Alone
<1>2. Locking /\ Locking' /\ MergeInv /\ RecallInv /\ AloneInv /\ [RNext]_allVars => AloneInv'
  BY AloneStays DEF Locking
<1> QED BY <1>1, <1>2, RecallHolds, PTL DEF RSpec

LEMMA CommitLeaves ==
  ASSUME AloneInv, NEW q \in Requests, pc[q] = "commit"
  PROVE  /\ \A r \in ReviewIds : (Removes(q) => Apart(q, r)) => TellsVisibility(q, r)
         /\ \A t \in Targets \ crossed[q] : TellsRating(q, t)
<1>1. InOrder(q) /\ TellsAlone(q)
  BY DEF AloneInv, Alone, InTransaction
<1>2. \A t : ~Owes(q, t)
  BY <1>1 DEF InOrder, Owes
<1> QED BY <1>1, <1>2 DEF TellsAlone

(***************************************************************************)
(* A transaction that met no other about a target leaves the host the      *)
(* rating the target then has, whatever runs beside it: the facts of two   *)
(* overlapping writes part from the table only where both are about one    *)
(* target (services.py:456-475).                                           *)
(***************************************************************************)
THEOREM ApartIsHarmless == RSpec => ToldAloneIsRight
<1>1. ASSUME Locking, AloneInv, NEW q \in Requests, NEW t \in Targets,
             commit(q), ~dangling(q), t \notin crossed[q]
      PROVE  IF t \in DOMAIN txn[q].fact
               THEN fact'[t] = aggregate(Shown(reviews', t))
               ELSE fact'[t] = fact[t] /\ Shown(reviews', t) = Shown(reviews, t)
  <2>1. /\ reviews' = View(q) /\ fact' = overlay(fact, txn[q].fact) /\ pc[q] = "commit"
    BY <1>1 DEF commit
  <2>2. DOMAIN fact = Targets /\ TellsRating(q, t)
    BY <1>1, <2>1, CommitLeaves DEF Locking, RTypeOK
  <2>3. fact'[t] = get(txn[q].fact, t, fact[t])
    BY <1>1, <2>1, <2>2 DEF overlay
  <2> QED BY <2>1, <2>2, <2>3 DEF get, TellsRating
<1>2. Locking /\ AloneInv => [\A q \in Requests, t \in Targets :
        commit(q) /\ ~dangling(q) /\ t \notin crossed[q] =>
          IF t \in DOMAIN txn[q].fact
            THEN fact'[t] = aggregate(Shown(reviews', t))
            ELSE fact'[t] = fact[t] /\ Shown(reviews', t) = Shown(reviews, t)]_allVars
  BY <1>1
<1> QED BY <1>2, AloneHolds, PTL DEF RSpec, ToldAloneIsRight

(***************************************************************************)
(* Creates, moderations and verdicts may overlap as they like, and what    *)
(* consumers are told is visible stays so; an erasure or a merge parts the *)
(* two only for a review of a target where it met another transaction      *)
(* (gdpr.py:44-64, actions.py:149-201).                                    *)
(***************************************************************************)
THEOREM VisibilityOutlivesOverlap == RSpec => VisibilityStaysTold
<1>1. ASSUME AloneInv, NEW q \in Requests, NEW r \in ReviewIds,
             commit(q), ~dangling(q),
             input[q].kind \in {"erase", "merge"} /\ isRow(reviews[r]) =>
               reviews[r].target \notin crossed[q],
             r \in told <=> r \in VisibleIds(reviews)
      PROVE  r \in told' <=> r \in VisibleIds(reviews')
  <2>1. /\ reviews' = View(q) /\ pc[q] = "commit"
        /\ told' = (told \cup txn[q].published) \ txn[q].hidden
    BY <1>1 DEF commit
  <2>2. Removes(q) => Apart(q, r)
    BY <1>1 DEF Removes, Apart
  <2>3. TellsVisibility(q, r)
    BY <1>1, <2>1, <2>2, CommitLeaves
  <2> QED BY <1>1, <2>1, <2>3 DEF TellsVisibility
<1>2. AloneInv => [\A q \in Requests, r \in ReviewIds :
        /\ commit(q) /\ ~dangling(q)
        /\ input[q].kind \in {"erase", "merge"} /\ isRow(reviews[r]) =>
             reviews[r].target \notin crossed[q]
        /\ r \in told <=> r \in VisibleIds(reviews)
        => (r \in told' <=> r \in VisibleIds(reviews'))]_allVars
  BY <1>1
<1> QED BY <1>2, AloneHolds, PTL DEF RSpec, VisibilityStaysTold

\* Who has come asks for one of the inputs.
AsksForInputs == \A q \in Requests : pc[q] # "idle" => input[q] \in Inputs

LEMMA AsksStay ==
  ASSUME RTypeOK, AsksForInputs, [RNext]_allVars
  PROVE  AsksForInputs'
<1>1. ASSUME NEW q \in Requests, arrive(q) PROVE AsksForInputs'
  <2>1. PICK i \in Inputs : input' = [input EXCEPT ![q] = i]
    BY <1>1 DEF arrive
  <2>2. \A p \in Requests \ {q} : pc'[p] = pc[p]
    BY <1>1 DEF arrive, goto, RTypeOK
  <2> QED BY <2>1, <2>2 DEF AsksForInputs, RTypeOK
<1>2. ASSUME NEW q \in Requests, Step(q) PROVE AsksForInputs'
  <2>1. OthersStay(q)
    BY <1>2, StepEffect
  <2>2. pc[q] # "idle"
    BY <1>2 DEF Step, at, create_check, create_insert, create_recheck, moderate_fetch,
         moderate_decide, render, respond_check, respond_reply, delete_responses,
         delete_reviews, erase_list, erase_collect, erase_replies, merge_list, merge_drop,
         merge_move, merge_move_replies, emit, commit
  <2> QED BY <2>1, <2>2 DEF OthersStay, AsksForInputs
<1>3. CASE Surroundings
  BY <1>3 DEF Surroundings, AsksForInputs, allVars, account_lands, host_registers, requestVars
<1> QED BY <1>1, <1>2, <1>3, Cases

(***************************************************************************)
(* In particular, where nobody is erased or merged, consumers know which   *)
(* reviews are visible, however the requests overlap and whatever the      *)
(* ratings they are told.                                                  *)
(***************************************************************************)
THEOREM VisibilityWithoutDepartures ==
  ASSUME \A i \in Inputs : i.kind \notin {"erase", "merge"}
  PROVE  RSpec => []FactsTellVisibility
<1>1. RInit => AsksForInputs /\ FactsTellVisibility
  BY RowAssumption DEF RInit, AsksForInputs, FactsTellVisibility, VisibleIds, Rows
<1>2. Locking /\ AsksForInputs /\ [RNext]_allVars => AsksForInputs'
  BY AsksStay DEF Locking
<1>3. Locking /\ AloneInv /\ AsksForInputs /\ FactsTellVisibility /\ [RNext]_allVars
        => FactsTellVisibility'
  <2> SUFFICES ASSUME RTypeOK, AloneInv, AsksForInputs, FactsTellVisibility, [RNext]_allVars
               PROVE  FactsTellVisibility'
    BY DEF Locking
  <2>1. CASE UNCHANGED <<reviews, told>>
    BY <2>1 DEF FactsTellVisibility
  <2>2. ASSUME NEW q \in Requests, Commits(q) PROVE FactsTellVisibility'
    <3>1. /\ pc[q] = "commit" /\ reviews' = View(q)
          /\ told' = (told \cup txn[q].published) \ txn[q].hidden
      BY <2>2 DEF Commits
    <3>2. ~Removes(q)
      BY <3>1 DEF AsksForInputs, Removes
    <3>3. \A r \in ReviewIds : r \in VisibleIds(View(q)) <=> r \in told'
      BY <3>1, <3>2, CommitLeaves DEF TellsVisibility, FactsTellVisibility
    <3>4. told \subseteq ReviewIds /\ txn[q].published \subseteq ReviewIds
      BY DEF RTypeOK, Uncommitted, FactsTellVisibility, VisibleIds, Rows
    <3>5. VisibleIds(View(q)) \subseteq ReviewIds
      BY DEF VisibleIds, Rows
    <3> QED BY <3>1, <3>3, <3>4, <3>5 DEF FactsTellVisibility
  <2> QED BY <2>1, <2>2, OnlyCommitsWrite, Cases, NoWritesElsewhere
<1> QED BY <1>1, <1>2, <1>3, AloneHolds, PTL DEF RSpec

(***************************************************************************)
(* The rating the host has of a target, once right, stays right until two  *)
(* open transactions meet about the target; the next commit of one that    *)
(* meets no other makes it right again (ApartIsHarmless).                  *)
(***************************************************************************)
RatingKnown(t) == fact[t] = aggregate(Shown(reviews, t))

RatingsStayKnown ==
  [][\A t \in Targets :
       RatingKnown(t) /\ (\A q \in Requests : t \notin crossed[q]) => RatingKnown(t)']_allVars

LEMMA CommitKnown ==
  ASSUME RTypeOK, AloneInv, NEW q \in Requests, Commits(q), NEW t \in Targets,
         RatingKnown(t), t \notin crossed[q]
  PROVE  RatingKnown(t)'
<1>1. pc[q] = "commit" /\ reviews' = View(q) /\ fact' = overlay(fact, txn[q].fact)
  BY DEF Commits
<1>2. TellsRating(q, t)
  BY <1>1, CommitLeaves
<1>3. DOMAIN fact = Targets
  BY DEF RTypeOK
<1>4. fact'[t] = get(txn[q].fact, t, fact[t])
  BY <1>1, <1>3 DEF overlay
<1> QED BY <1>1, <1>2, <1>4 DEF get, TellsRating, RatingKnown

THEOREM UncrossedStaysKnown == RSpec => RatingsStayKnown
<1>1. ASSUME Locking, AloneInv, [RNext]_allVars, NEW t \in Targets, RatingKnown(t),
             \A q \in Requests : t \notin crossed[q]
      PROVE  RatingKnown(t)'
  <2>1. CASE UNCHANGED <<reviews, fact>>
    BY <1>1, <2>1 DEF RatingKnown
  <2>2. RTypeOK
    BY <1>1 DEF Locking
  <2> QED BY <1>1, <2>1, <2>2, CommitKnown, OnlyCommitsWrite, Cases, NoWritesElsewhere
<1>2. Locking /\ AloneInv /\ [RNext]_allVars =>
        \A t \in Targets :
          RatingKnown(t) /\ (\A q \in Requests : t \notin crossed[q]) => RatingKnown(t)'
  BY <1>1
<1> QED BY <1>2, AloneHolds, PTL DEF RSpec, RatingsStayKnown

-------------------------------------------------------------------------------
(***************************************************************************)
(* The ledger, while no two transactions have been open at once.  How one  *)
(* table follows from another when a transaction commits.                  *)
(***************************************************************************)
SameRating(a, b, r) == a[r].target = b[r].target /\ a[r].rating = b[r].rating

\* The reviews R leave the ratings; of those, some may be deleted.
Leave(a, b, R) ==
  /\ VisibleIds(b) = VisibleIds(a) \ R
  /\ \A r \in VisibleIds(b) : SameRating(a, b, r)
  /\ ErasedIds(a) \subseteq ErasedIds(b)
  /\ ErasedIds(b) \subseteq ErasedIds(a) \cup R

\* The review r enters the rating of its target.
Appears(a, b, r) ==
  /\ r \notin VisibleIds(a) /\ a[r] # Erased
  /\ b[r].target \in Targets /\ b[r].rating \in RATING_MIN..RATING_MAX
  /\ VisibleIds(b) = VisibleIds(a) \cup {r}
  /\ \A s \in VisibleIds(a) : SameRating(a, b, s)
  /\ ErasedIds(b) = ErasedIds(a)

LEMMA LeavingShows ==
  ASSUME NEW a, NEW b, NEW R, Leave(a, b, R), NEW t
  PROVE  Shown(b, t) = {v \in Shown(a, t) : v[1] \notin R}
<1>1. \A r \in ReviewIds : ShowsOn(b, r, t) <=> ShowsOn(a, r, t) /\ r \notin R
  BY DEF Leave, ShowsOn, SameRating
<1>2. \A r \in ReviewIds : ShowsOn(b, r, t) => b[r].rating = a[r].rating
  BY DEF Leave, ShowsOn, SameRating
<1>3. ASSUME NEW v \in Shown(b, t) PROVE v \in Shown(a, t) /\ v[1] \notin R
  BY <1>1, <1>2, <1>3, ShownPairs
<1>4. ASSUME NEW v \in Shown(a, t), v[1] \notin R PROVE v \in Shown(b, t)
  BY <1>1, <1>2, <1>4, ShownPairs
<1> QED BY <1>3, <1>4

LEMMA LeavingIsLedger ==
  ASSUME FactsInv, FactsInv', NEW R \in SUBSET ReviewIds, Leave(reviews, reviews', R)
  PROVE  Ledger!Next
<1>1. told' = told \ R
  BY DEF Leave, FactsInv, FactsTellVisibility
<1>2. \A t \in Targets : Shown(reviews', t) = {v \in Shown(reviews, t) : v[1] \notin R}
  BY LeavingShows
<1>3. Ledger!Withdraw(R)
  BY <1>1, <1>2, WithdrawStep DEF Leave
<1> QED BY <1>3 DEF Ledger!Next

LEMMA AppearingIsLedger ==
  ASSUME FactsInv, FactsInv', NEW r \in ReviewIds, Appears(reviews, reviews', r)
  PROVE  Ledger!Next
<1>1. Ledger!Publish(r, reviews'[r].target)
  BY Publication DEF Appears, SameRating
<1> QED BY <1>1 DEF Ledger!Next, Appears

\* One row is inserted, or has its status changed.
LEMMA OneRowMoves ==
  ASSUME NEW a \in Table, NEW b \in Table, NEW r \in ReviewIds, b[r] \in Review,
         a[r] # Erased, a[r] \in Review => SameRating(a, b, r),
         \A s \in ReviewIds \ {r} : b[s] = a[s]
  PROVE  (\E R \in SUBSET ReviewIds : Leave(a, b, R)) \/ Appears(a, b, r)
<1>1. VisibleIds(b) = IF b[r].status = "published"
                        THEN VisibleIds(a) \cup {r} ELSE VisibleIds(a) \ {r}
  BY RowAssumption DEF VisibleIds, VISIBLE_STATUSES, Rows
<1>2. ErasedIds(b) = ErasedIds(a)
  BY RowAssumption DEF ErasedIds
<1>3. \A s \in VisibleIds(a) : SameRating(a, b, s)
  BY DEF SameRating, VisibleIds, Rows, Table
<1>4. CASE b[r].status = "published" /\ r \notin VisibleIds(a)
  BY <1>1, <1>2, <1>3, <1>4 DEF Appears, Review
<1>5. CASE b[r].status = "published" /\ r \in VisibleIds(a)
  <2>1. Leave(a, b, {})
    BY <1>1, <1>2, <1>3, <1>5 DEF Leave
  <2> QED BY <2>1
<1>6. CASE b[r].status # "published"
  <2>1. Leave(a, b, {r})
    BY <1>1, <1>2, <1>3, <1>6 DEF Leave
  <2> QED BY <2>1
<1> QED BY <1>4, <1>5, <1>6

\* Rows are deleted; of the others, no column changes that a rating shows.
LEMMA RowsAreDeleted ==
  ASSUME NEW a \in Table, NEW b \in Table, NEW R \in SUBSET ReviewIds,
         \A r \in R : a[r] \in Review /\ b[r] = Erased,
         \A r \in ReviewIds \ R : Alike(a[r], b[r])
  PROVE  Leave(a, b, R)
<1>1. VisibleIds(b) = VisibleIds(a) \ R
  BY RowAssumption DEF VisibleIds, Rows, Alike, isRow
<1>2. \A r \in VisibleIds(b) : SameRating(a, b, r)
  BY <1>1 DEF SameRating, VisibleIds, Rows, Alike
<1>3. ErasedIds(b) = ErasedIds(a) \cup R
  BY RowAssumption DEF ErasedIds, Alike, isRow
<1> QED BY <1>1, <1>2, <1>3 DEF Leave

(***************************************************************************)
(* A commit publishes one review, or withdraws some.                       *)
(***************************************************************************)
LEMMA CommitShape ==
  ASSUME Locking, RTypeOK', AloneInv, NEW q \in Requests, Commits(q)
  PROVE  \/ \E R \in SUBSET ReviewIds : Leave(reviews, reviews', R)
         \/ \E r \in ReviewIds : Appears(reviews, reviews', r)
<1> DEFINE a == reviews
           b == reviews'
<1>1. /\ RTypeOK /\ a \in Table /\ b \in Table /\ b = View(q)
      /\ pc[q] = "commit" /\ InOrder(q)
  BY DEF Locking, RTypeOK, TypeOK, Commits, AloneInv, Alone, InTransaction
<1>2. /\ \A r \in DOMAIN txn[q].rows :
           /\ r \in ReviewIds /\ b[r] = txn[q].rows[r] /\ b[r] \in Review \cup {Erased}
           /\ Becoming(input[q], a[r], b[r])
      /\ \A r \in ReviewIds \ DOMAIN txn[q].rows : b[r] = a[r]
  BY <1>1, ViewRow, KeptRow DEF Locking, UpdateInv
<1> HIDE DEF a, b
<1>3. CASE DOMAIN txn[q].rows = {}
  <2>1. \A r \in ReviewIds : Alike(a[r], b[r])
    BY <1>2, <1>3 DEF Alike
  <2>2. Leave(a, b, {})
    BY <1>1, <2>1, RowsAreDeleted
  <2> QED BY <2>2 DEF a, b
<1>4. ASSUME NEW r \in DOMAIN txn[q].rows, ~Removes(q)
      PROVE  (\E R \in SUBSET ReviewIds : Leave(a, b, R)) \/ Appears(a, b, r)
  <2>1. DOMAIN txn[q].rows = {r}
    BY <1>1, <1>4 DEF InOrder
  <2>2. r \in ReviewIds /\ Becoming(input[q], a[r], b[r]) /\ b[r] \in Review \cup {Erased}
    BY <1>2, <1>4
  <2>3. input[q].kind \notin {"erase", "merge"}
    BY <1>4 DEF Removes
  <2>4. CASE input[q].kind = "create"
    <3>1. a[r] = Unwritten /\ b[r] \in Review
      BY <2>2, <2>4 DEF Becoming, Moderations
    <3> QED BY <1>1, <1>2, <2>1, <2>2, <3>1, OneRowMoves, RowAssumption
  <2>5. CASE input[q].kind \in Moderations
    <3>1. a[r] \in Review /\ b[r] = [a[r] EXCEPT !.status = status_asked(input[q])]
      BY <2>2, <2>5 DEF Becoming, Moderations
    <3>2. b[r].target = a[r].target /\ b[r].rating = a[r].rating
      BY <3>1 DEF Review
    <3>3. status_asked(input[q]) \in Statuses
      BY DEF status_asked, Statuses
    <3>4. b[r] \in Review
      BY <3>1, <3>3 DEF Review
    <3> QED BY <1>1, <1>2, <2>1, <2>2, <3>1, <3>2, <3>4, OneRowMoves, RowAssumption
         DEF SameRating
  <2> QED BY <2>2, <2>3, <2>4, <2>5 DEF Becoming, Moderations
<1>5. CASE Removes(q)
  <2> DEFINE R == {r \in DOMAIN txn[q].rows : b[r] = Erased}
  <2>1. ASSUME NEW r \in DOMAIN txn[q].rows
        PROVE  a[r] \in Review /\ (b[r] # Erased => Alike(a[r], b[r]))
    <3>1. Becoming(input[q], a[r], b[r])
      BY <1>2, <2>1
    <3>2. CASE input[q].kind = "erase"
      BY <3>1, <3>2 DEF Becoming, Moderations
    <3>3. CASE input[q].kind = "merge"
      <4>1. a[r] \in Review
        BY <3>1, <3>3 DEF Becoming, Moderations
      <4>2. ASSUME b[r] # Erased PROVE Alike(a[r], b[r])
        <5>1. PICK flag, author :
                b[r] = [a[r] EXCEPT !.author = author, !.unique_per_author = flag]
          BY <3>1, <3>3, <4>2 DEF Becoming, Moderations
        <5>2. /\ b[r].target = a[r].target /\ b[r].rating = a[r].rating
              /\ b[r].status = a[r].status
          BY <4>1, <5>1 DEF Review
        <5>3. b[r] \in Review
          BY <1>2, <2>1, <4>2
        <5> QED BY <4>1, <5>2, <5>3, RowAssumption DEF Alike, isRow
      <4> QED BY <4>1, <4>2
    <3> QED BY <1>5, <3>2, <3>3 DEF Removes
  <2>2. R \in SUBSET ReviewIds /\ \A r \in R : a[r] \in Review /\ b[r] = Erased
    BY <1>2, <2>1
  <2>3. ASSUME NEW r \in ReviewIds \ R PROVE Alike(a[r], b[r])
    BY <1>2, <2>1, <2>3 DEF Alike
  <2>4. Leave(a, b, R)
    BY <1>1, <2>2, <2>3, RowsAreDeleted
  <2> QED BY <2>2, <2>4 DEF a, b
<1> QED BY <1>2, <1>3, <1>4, <1>5 DEF a, b

\* So far no two transactions have been open at once.
LoneInv == ~overlapped => ~overlap /\ FactsInv /\ \A q \in Requests : crossed[q] = {}

LEMMA CommitKeepsLedger ==
  ASSUME Locking, RTypeOK', AloneInv, FactsInv, NEW q \in Requests, crossed[q] = {}, Commits(q)
  PROVE  FactsInv' /\ Ledger!Next
<1>1. /\ pc[q] = "commit" /\ reviews' = View(q) /\ fact' = overlay(fact, txn[q].fact)
      /\ told' = (told \cup txn[q].published) \ txn[q].hidden
  BY DEF Commits
<1>2. /\ \A r \in ReviewIds : TellsVisibility(q, r)
      /\ \A t \in Targets : TellsRating(q, t)
  BY <1>1, CommitLeaves DEF Apart
<1>3. FactsTellVisibility'
  <2>1. \A r \in ReviewIds : r \in VisibleIds(reviews') <=> r \in told'
    BY <1>1, <1>2 DEF TellsVisibility, FactsInv, FactsTellVisibility
  <2>2. told \subseteq ReviewIds /\ txn[q].published \subseteq ReviewIds
    BY DEF Locking, RTypeOK, Uncommitted, FactsInv, FactsTellVisibility, VisibleIds, Rows
  <2>3. VisibleIds(reviews') \subseteq ReviewIds
    BY DEF VisibleIds, Rows
  <2> QED BY <1>1, <2>1, <2>2, <2>3 DEF FactsTellVisibility
<1>4. FactsMatchAggregate'
  <2>1. /\ DOMAIN fact = Targets
        /\ fact = [t \in Targets |-> aggregate(Shown(reviews, t))]
    BY DEF FactsInv, FactsMatchAggregate
  <2>2. ASSUME NEW t \in Targets
        PROVE  fact'[t] = aggregate(Shown(reviews', t))
    BY <1>1, <1>2, <2>1, <2>2 DEF overlay, get, TellsRating
  <2>3. fact' = [t \in Targets |-> fact'[t]]
    BY <1>1, <2>1 DEF overlay
  <2> QED BY <2>2, <2>3 DEF FactsMatchAggregate
<1>5. FactsInv'
  BY <1>3, <1>4 DEF FactsInv
<1> QED BY <1>5, CommitShape, LeavingIsLedger, AppearingIsLedger

LEMMA Watching ==
  ASSUME [RNext]_allVars, LoneInv, ~overlapped'
  PROVE  /\ ~overlapped /\ ~overlap' /\ FactsInv
         /\ \A q \in Requests : crossed[q] = {} /\ crossed'[q] = {}
<1>1. CASE watched
  <2>1. ~overlapped /\ ~overlap'
    BY <1>1 DEF watched
  <2>2. \A q \in Requests : pc'[q] \in InTransaction => met(q)' = {}
    <3> SUFFICES ASSUME NEW q \in Requests, pc'[q] \in InTransaction,
                        NEW p \in Requests \ {q}
                 PROVE  pc'[p] \notin InTransaction
      BY DEF met
    <3> QED BY <2>1 DEF overlap
  <2> QED BY <1>1, <2>1, <2>2 DEF watched, LoneInv
<1>2. CASE UNCHANGED allVars
  BY <1>2 DEF allVars, overlap, LoneInv
<1> QED BY <1>1, <1>2 DEF RNext, Quiescent

(***************************************************************************)
(* As long as no two transactions have been open at once, every commit is  *)
(* a step of the rating ledger, whatever was read before the transaction   *)
(* began and however the requests take turns: the facts computed inside it *)
(* are the ratings it leaves (services.py:456-475, 599-604; gdpr.py:44-64; *)
(* actions.py:149-201).                                                    *)
(***************************************************************************)
THEOREM OneWriterKeepsLedger == RSpec => LedgerUntilOverlap
<1>1. RInit => LoneInv
  <2> SUFFICES ASSUME RInit PROVE LoneInv
    OBVIOUS
  <2>1. Rows(reviews) = {} /\ VisibleIds(reviews) = {}
    BY RowAssumption DEF RInit, Rows, VisibleIds
  <2>2. \A t \in Targets : Shown(reviews, t) = {}
    BY <2>1 DEF Shown
  <2>3. FactsInv
    BY <2>1, <2>2 DEF RInit, FactsInv, FactsMatchAggregate, FactsTellVisibility, NoRating
  <2>4. ~overlap /\ \A q \in Requests : crossed[q] = {}
    BY DEF RInit, overlap, InTransaction
  <2> QED BY <2>3, <2>4 DEF LoneInv
<1>2. Locking /\ Locking' /\ AloneInv /\ LoneInv /\ [RNext]_allVars =>
        LoneInv' /\ (~overlapped' => [Ledger!Next]_(Ledger!ledger))
  <2> SUFFICES ASSUME Locking, RTypeOK', AloneInv, LoneInv, [RNext]_allVars, ~overlapped'
               PROVE  LoneInv' /\ Ledger!Next
    BY DEF LoneInv, Locking
  <2>1. /\ ~overlap' /\ FactsInv /\ RTypeOK /\ TypeOK
        /\ \A q \in Requests : crossed[q] = {} /\ crossed'[q] = {}
    BY Watching DEF Locking, RTypeOK
  <2>2. CASE UNCHANGED <<reviews, fact, told>>
    <3>1. FactsInv'
      BY <2>1, <2>2 DEF FactsInv, FactsMatchAggregate, FactsTellVisibility
    <3> QED BY <2>1, <2>2, <3>1, QuietLedger DEF LoneInv
  <2>3. ASSUME NEW q \in Requests, Commits(q) PROVE LoneInv' /\ Ledger!Next
    BY <2>1, <2>3, CommitKeepsLedger DEF LoneInv
  <2> QED BY <2>1, <2>2, <2>3, OnlyCommitsWrite, Cases, NoWritesElsewhere
<1> QED BY <1>1, <1>2, AloneHolds, PTL DEF RSpec, LedgerUntilOverlap
===============================================================================
