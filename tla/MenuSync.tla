------------------------------ MODULE MenuSync ------------------------------
(***************************************************************************)
(* Recurring synchronisation of canteen menus                              *)
(* (src/lib/canteen-menu-source-sync.ts and what it calls).                *)
(*                                                                         *)
(* Serverless invocations ("workers") started by the cron clock or by an   *)
(* administrator's script claim a source in the database under a           *)
(* time-limited claim token, fetch the provider's menu outside any         *)
(* transaction, and publish it in a second transaction if the claim is     *)
(* still theirs.  A worker may stop at any point.  A database transaction  *)
(* sees the time at which it BEGAN (PostgreSQL's now()), however long it   *)
(* waits for a lock, and reads rows as they are committed when it reads    *)
(* them; it holds the row locks it took until it ends.                     *)
(***************************************************************************)
EXTENDS MenuSchedule

CONSTANTS
  Source,         \* rows of canteen_menu_sources (one for each canteen)
  Scoped,         \* sources whose provider observes one meal period at a time
  Switchable,     \* sources an operator disables and enables
  Worker,         \* invocations that may run at the same time
  Run,            \* ids of canteen_menu_sync_runs, in the order they are drawn
  Menu,           \* non-empty menus a provider may answer with
  EmptyMenu,      \* the menu without items
  Key,            \* publication keys a provider may give an empty menu
  Refresh,        \* refresh evidence a scoped provider may answer with
  ClaimDuration,  \* life of a claim
  PollDuration,   \* a cron call has claimed a source by then, or is stopped
  Retention,      \* terminal runs older than this are pruned
  MaxTime,        \* bound of the clock
  NoOne, NoSource, NoMenu, NoKey  \* SQL nulls

ASSUME SetAssumption ==
  /\ Scoped \subseteq Source
  /\ Switchable \subseteq Source
  /\ Run \subseteq Nat \ {0}
  /\ IsFiniteSet(Run)
  /\ Refresh \subseteq [boundary : Nat \union {Never}, horizon : Nat \union {Never}]
  /\ Refresh # {}
  /\ MaxTime \in Nat
  /\ NoOne \notin Worker
  /\ NoSource \notin Source
  /\ EmptyMenu \notin Menu
  /\ NoMenu \notin Menu \union {EmptyMenu}
  /\ NoKey \notin Key

\* A claim lasts; no reader of the run history looks further back than Retention:
\* neither a call that polls, nor a run that confirms an empty menu.
ASSUME LifetimeAssumption ==
  /\ ClaimDuration \in Nat \ {0}
  /\ PollDuration \in Nat
  /\ Retention \in Nat
  /\ Retention >= WindowLength + PollDuration
  /\ Retention >= EmptyMax + ClaimDuration

NoRun == 0
NoRefresh == [boundary |-> Never, horizon |-> Never]

VARIABLES
  now,          \* the database clock
  enabled,      \* [Source -> BOOLEAN]
  token,        \* [Source -> Run or NoRun], sync_claim_token
  expires,      \* [Source -> time or Never], sync_claim_expires_at
  published,    \* [Source -> Run or NoRun], the run whose snapshot is the menu
  run,          \* [Run -> row of canteen_menu_sync_runs, with its snapshot]
  canteenLock,  \* [Source -> Worker or NoOne], row lock on the source's canteen
  sourceLock,   \* [Source -> Worker or NoOne], row lock on the source
  worker        \* [Worker -> what the invocation holds in memory]

sourceVars == <<enabled, token, expires, published>>
lockVars == <<canteenLock, sourceLock>>
vars == <<now, sourceVars, run, lockVars, worker>>

-----------------------------------------------------------------------------
Terminal == {"applied", "unchanged", "failed"}
Succeeded == {"applied", "unchanged"}
\* Error codes, by what the scheduler does with them.
FailureCode == {"retryable", "review", "empty-pending"}

AbsentRun ==
  [status |-> "absent", source |-> NoSource, by |-> "none", startedAt |-> Never,
   completedAt |-> Never, code |-> "none", menu |-> NoMenu, key |-> NoKey,
   refresh |-> NoRefresh]

IdleWorker ==
  [pc |-> "idle", kind |-> "none", source |-> NoSource, run |-> NoRun,
   at |-> Never, todo |-> {}, menu |-> NoMenu, key |-> NoKey, code |-> "none"]

Init ==
  /\ now = 0
  /\ enabled = [s \in Source |-> TRUE]
  /\ token = [s \in Source |-> NoRun]
  /\ expires = [s \in Source |-> Never]
  /\ published = [s \in Source |-> NoRun]
  /\ run = [r \in Run |-> AbsentRun]
  /\ canteenLock = [s \in Source |-> NoOne]
  /\ sourceLock = [s \in Source |-> NoOne]
  /\ worker = [w \in Worker |-> IdleWorker]

-----------------------------------------------------------------------------
(* Helpers *)

At(w, pc) == worker[w].pc = pc

Unlocked(lock, w) == [s \in Source |-> IF lock[s] = w THEN NoOne ELSE lock[s]]

\* The transaction of w ends, and w's invocation with it.
Finish(w) ==
  /\ worker' = [worker EXCEPT ![w] = IdleWorker]
  /\ canteenLock' = Unlocked(canteenLock, w)
  /\ sourceLock' = Unlocked(sourceLock, w)

\* The transaction of w ends; w goes on as `next`.
EndTransaction(w, next) ==
  /\ worker' = [worker EXCEPT ![w] = next]
  /\ canteenLock' = Unlocked(canteenLock, w)
  /\ sourceLock' = Unlocked(sourceLock, w)

ClaimActive(s, t) == token[s] # NoRun /\ expires[s] > t

\* claimExpired compares with the time the transaction began.
IsCurrentClaim(w) ==
  LET s == worker[w].source
  IN  /\ token[s] = worker[w].run
      /\ expires[s] > worker[w].at
      /\ enabled[s]

Pruned(sources, t) ==
  [r \in Run |->
     IF /\ run[r].source \in sources
        /\ run[r].status \in Terminal
        /\ run[r].completedAt < t - Retention
       THEN [run[r] EXCEPT !.status = "pruned"]
       ELSE run[r]]

-----------------------------------------------------------------------------
(* What readMenuSourceScheduleFacts reads of one source at time t. *)

Later(q, r) ==
  \/ run[q].startedAt > run[r].startedAt
  \/ run[q].startedAt = run[r].startedAt /\ q > r

Latest(runs) == {r \in runs : \A q \in runs \ {r} : Later(r, q)}

RunsInWindow(s, t) ==
  {r \in Run : run[r].source = s /\ WindowAccepts(t, run[r].startedAt)}

SuccessesInWindow(s, t) ==
  {r \in RunsInWindow(s, t) : run[r].status \in Succeeded}

\* The time the source fell due in the window of t: {} when it is not due.
DueAt(s, t) ==
  LET due == IF SuccessesInWindow(s, t) = {} THEN {ClaimsStart(t)}
             ELSE UNION {NextObservationAt(t, run[r].startedAt, s \in Scoped, run[r].refresh)
                           : r \in Latest(SuccessesInWindow(s, t))}
  IN  {d \in due : d <= t}

\* Mutant: a failure at the due time itself is not counted.
FailuresAfter(s, t, due) ==
  {r \in RunsInWindow(s, t) :
     run[r].status = "failed" /\ run[r].code # "superseded" /\ run[r].startedAt > due}

FailuresSince(s, t, due) ==
  {r \in RunsInWindow(s, t) :
     run[r].status = "failed" /\ run[r].code # "superseded" /\ run[r].startedAt >= due}

FactsSince(s, t, due) ==
  LET failures == FailuresSince(s, t, due)
      last == Latest(failures)
  IN  [activeClaim |-> ClaimActive(s, t),
       failureCount |-> Cardinality({r \in failures : run[r].code # "empty-pending"}),
       latestCode |-> IF last = {} THEN "none" ELSE run[CHOOSE r \in last : TRUE].code,
       latestFailedAt |-> IF last = {} THEN Never
                          ELSE run[CHOOSE r \in last : TRUE].completedAt]

Facts(s, t) == {FactsSince(s, t, due) : due \in DueAt(s, t)}

\* The candidates for a poll at time t, and the order in which it tries them.
Candidate(s, t) ==
  {[source |-> s, state |-> Classify(f, t), failureCount |-> f.failureCount]
     : f \in IF enabled[s] /\ WindowAccepts(t, t) THEN Facts(s, t) ELSE {}}

NoLaterThan(c, d) ==
  \/ CandidateRank(c.state) < CandidateRank(d.state)
  \/ /\ CandidateRank(c.state) = CandidateRank(d.state)
     /\ c.failureCount <= d.failureCount

-----------------------------------------------------------------------------
(* Claiming a source whose row the worker has locked, at its time t. *)

\* The run draws the next unused id.
Unused == {r \in Run : run[r].status = "absent"}
Fresh == {r \in Unused : \A q \in Unused : r <= q}

NewRun(s, kind, t) ==
  [AbsentRun EXCEPT !.status = "running", !.source = s, !.by = kind, !.startedAt = t]

\* Mutant: the run of an expired claim is left as it is.
NotSuperseded(s, t) == run

\* The run of an expired claim fails as superseded.
Superseded(s, t) ==
  [r \in Run |->
     IF r = token[s] /\ run[r].status = "running"
       THEN [run[r] EXCEPT !.status = "failed", !.code = "superseded", !.completedAt = t]
       ELSE run[r]]

Claim(w, s, r, t) ==
  /\ run' = [Superseded(s, t) EXCEPT ![r] = NewRun(s, worker[w].kind, t)]
  /\ token' = [token EXCEPT ![s] = r]
  /\ expires' = [expires EXCEPT ![s] = t + ClaimDuration]
  /\ EndTransaction(w, [IdleWorker EXCEPT !.pc = "fetch", !.kind = worker[w].kind,
                                          !.source = s, !.run = r])
  /\ UNCHANGED <<now, enabled, published>>

\* Bound: an invocation starts only when a run id is left for it.
IdsRemain ==
  Cardinality(Unused) > Cardinality({w \in Worker : worker[w].pc \in {"acquire", "poll"}})

(* syncCanteenMenuSource: an administrator's script names the source.      *)
BeginAcquire(w, s) ==
  /\ At(w, "idle")
  /\ IdsRemain
  /\ run' = Pruned({s}, now)
  /\ worker' = [worker EXCEPT ![w] = [IdleWorker EXCEPT !.pc = "acquire",
                  !.kind = "manual", !.source = s, !.at = now]]
  /\ UNCHANGED <<now, sourceVars, lockVars>>

Acquire(w) ==
  LET s == worker[w].source
      t == worker[w].at
  IN  /\ At(w, "acquire")
      /\ sourceLock[s] = NoOne
      /\ \/ /\ ~enabled[s] \/ ClaimActive(s, t)  \* unavailable, already running
            /\ Finish(w)
            /\ UNCHANGED <<now, sourceVars, run>>
         \/ /\ enabled[s] /\ ~ClaimActive(s, t)
            /\ \E r \in Fresh : Claim(w, s, r, t)

(* syncNextDueMenuSource: a cron call lists the candidates, then locks and *)
(* rechecks them one by one, skipping the rows that are locked.            *)
BeginPoll(w) ==
  /\ At(w, "idle")
  /\ IdsRemain
  /\ run' = Pruned(Source, now)
  /\ worker' = [worker EXCEPT ![w] = [IdleWorker EXCEPT !.pc = "poll", !.kind = "cron",
                  !.at = now, !.todo = UNION {Candidate(s, now) : s \in Source}]]
  /\ UNCHANGED <<now, sourceVars, lockVars>>

\* Mutant: what the poll listed is taken for what the locked row says.
TrustList(w, s) == {c \in worker[w].todo : c.source = s}

Recheck(w, s) == Candidate(s, worker[w].at)

\* Mutant: the poll waits for a locked row.
PollWaits(w, c) ==
  LET s == c.source
      claimable == \E d \in Recheck(w, s) : d.state = "claimable"
  IN  /\ At(w, "poll")
      /\ c \in worker[w].todo
      /\ \A d \in worker[w].todo : NoLaterThan(c, d)
      /\ sourceLock[s] = NoOne
      /\ \/ /\ ~claimable
            /\ sourceLock' = [sourceLock EXCEPT ![s] = w]
            /\ worker' = [worker EXCEPT ![w].todo = @ \ {c}]
            /\ UNCHANGED <<now, sourceVars, run, canteenLock>>
         \/ claimable /\ \E r \in Fresh : Claim(w, s, r, worker[w].at)

PollNext(w, c) ==
  LET s == c.source
      t == worker[w].at
      rest == [worker EXCEPT ![w].todo = @ \ {c}]
      claimable == \E d \in Recheck(w, s) : d.state = "claimable"
  IN  /\ At(w, "poll")
      /\ c \in worker[w].todo
      /\ \A d \in worker[w].todo : NoLaterThan(c, d)
      /\ \/ /\ sourceLock[s] # NoOne                       \* SKIP LOCKED
            /\ worker' = rest
            /\ UNCHANGED <<now, sourceVars, run, lockVars>>
         \/ /\ sourceLock[s] = NoOne
            /\ ~claimable
            /\ sourceLock' = [sourceLock EXCEPT ![s] = w]
            /\ worker' = rest
            /\ UNCHANGED <<now, sourceVars, run, canteenLock>>
         \/ /\ sourceLock[s] = NoOne
            /\ claimable
            /\ enabled[s] /\ ~ClaimActive(s, t)
            /\ \E r \in Fresh : Claim(w, s, r, t)
         \/ /\ sourceLock[s] = NoOne
            /\ claimable
            /\ ~enabled[s] \/ ClaimActive(s, t)            \* MENU_SYNC_CLAIM_INCONSISTENT
            /\ EndTransaction(w, [IdleWorker EXCEPT !.pc = "inconsistent"])
            /\ UNCHANGED <<now, sourceVars, run>>

\* No candidate is left: the fallback, or no work, is the answer.
PollEnds(w) ==
  /\ At(w, "poll")
  /\ worker[w].todo = {}
  /\ Finish(w)
  /\ UNCHANGED <<now, sourceVars, run>>

-----------------------------------------------------------------------------
(* executeClaimedMenuSourceSync *)

\* The provider answers with a menu, an empty menu it vouches for, or fails;
\* an empty menu without usable evidence is the failure EMPTY_SNAPSHOT.
Fetch(w) ==
  /\ At(w, "fetch")
  /\ \/ \E m \in Menu :
          worker' = [worker EXCEPT ![w].pc = "commit", ![w].menu = m]
     \/ \E k \in Key :
          worker' = [worker EXCEPT ![w].pc = "confirm", ![w].menu = EmptyMenu, ![w].key = k]
     \/ \E c \in {"retryable", "review"} :
          worker' = [worker EXCEPT ![w].pc = "fail", ![w].code = c]
  /\ UNCHANGED <<now, sourceVars, run, lockVars>>

\* The latest other terminal run saw the same empty publication a while ago.
OtherTerminalRuns(w) ==
  {r \in Run : /\ run[r].source = worker[w].source
               /\ run[r].status \in Terminal
               /\ r # worker[w].run}

\* Mutant: the latest pending empty observation is looked for, not the latest run.
EmptyIsConfirmedByLatestPending(w) ==
  \E p \in Latest({q \in OtherTerminalRuns(w) : run[q].code = "empty-pending"}) :
    /\ run[p].key = worker[w].key
    /\ MealPeriod(run[p].startedAt) = MealPeriod(run[worker[w].run].startedAt)
    /\ run[worker[w].run].startedAt - run[p].startedAt \in EmptyMin .. EmptyMax

EmptyIsConfirmed(w) ==
  \E p \in Latest(OtherTerminalRuns(w)) :
    LET age == run[worker[w].run].startedAt - run[p].startedAt
    IN  /\ run[p].code = "empty-pending"
        /\ run[p].key = worker[w].key
        /\ MealPeriod(run[p].startedAt) = MealPeriod(run[worker[w].run].startedAt)
        /\ age >= EmptyMin
        /\ age <= EmptyMax

\* Read outside any transaction.
ConfirmEmpty(w) ==
  /\ At(w, "confirm")
  /\ IF EmptyIsConfirmed(w)
       THEN worker' = [worker EXCEPT ![w].pc = "commit"]
       ELSE worker' = [worker EXCEPT ![w].pc = "fail", ![w].code = "empty-pending"]
  /\ UNCHANGED <<now, sourceVars, run, lockVars>>

(* commitClaimedRecurringMenuSync: one transaction, canteen before source. *)
BeginCommit(w) ==
  /\ At(w, "commit")
  /\ worker' = [worker EXCEPT ![w].pc = "lock canteen", ![w].at = now]
  /\ UNCHANGED <<now, sourceVars, run, lockVars>>

LockCanteen(w) ==
  LET s == worker[w].source
  IN  /\ At(w, "lock canteen")
      /\ canteenLock[s] = NoOne
      /\ canteenLock' = [canteenLock EXCEPT ![s] = w]
      /\ worker' = [worker EXCEPT ![w].pc = "lock source"]
      /\ UNCHANGED <<now, sourceVars, run, sourceLock>>

\* A claim that is no longer current ends the invocation as superseded.
LockSource(w) ==
  LET s == worker[w].source
  IN  /\ At(w, "lock source")
      /\ sourceLock[s] = NoOne
      /\ \/ /\ IsCurrentClaim(w)
            /\ sourceLock' = [sourceLock EXCEPT ![s] = w]
            /\ worker' = [worker EXCEPT ![w].pc = "publish"]
            /\ UNCHANGED canteenLock
         \/ ~IsCurrentClaim(w) /\ Finish(w)
      /\ UNCHANGED <<now, sourceVars, run>>

\* Mutant: the claim is not given back.
FinalizeKeepingClaim(w, row) ==
  /\ run' = [run EXCEPT ![worker[w].run] = row]
  /\ UNCHANGED <<now, enabled, token, expires>>

\* finalizeLockedClaimedRun: the row updates of a claim that ends as `row`.
Finalize(w, row) ==
  /\ token' = [token EXCEPT ![worker[w].source] = NoRun]
  /\ expires' = [expires EXCEPT ![worker[w].source] = Never]
  /\ run' = [run EXCEPT ![worker[w].run] = row]
  /\ UNCHANGED <<now, enabled>>

FailedRow(w, code) ==
  [run[worker[w].run] EXCEPT
     !.status = "failed", !.code = code, !.completedAt = worker[w].at,
     !.key = IF code = "empty-pending" THEN worker[w].key ELSE NoKey]

SucceededRow(w, refresh) ==
  LET s == worker[w].source
      same == published[s] # NoRun /\ run[published[s]].menu = worker[w].menu
  IN  [run[worker[w].run] EXCEPT
         !.status = IF same THEN "unchanged" ELSE "applied",
         !.completedAt = worker[w].at, !.menu = worker[w].menu,
         !.key = worker[w].key, !.refresh = refresh]

Refreshes(s) == IF s \in Scoped THEN Refresh ELSE {NoRefresh}

Failing(w) == [worker[w] EXCEPT !.pc = "fail", !.code = "retryable"]

Publish(w) ==
  LET s == worker[w].source
      mine == run[worker[w].run].status = "running"
  IN  /\ At(w, "publish")
      /\ \/ /\ mine
            /\ \E f \in Refreshes(s) : Finalize(w, SucceededRow(w, f))
            /\ published' = [published EXCEPT ![s] = worker[w].run]
            /\ Finish(w) \/ EndTransaction(w, Failing(w))  \* the answer to COMMIT is lost
         \/ /\ mine                       \* the projection is blocked: the menu stays
            /\ Finalize(w, FailedRow(w, "review"))
            /\ Finish(w)
            /\ UNCHANGED published
         \/ /\ EndTransaction(w, Failing(w))   \* the transaction throws and rolls back
            /\ UNCHANGED <<now, sourceVars, run>>
         \/ /\ ~mine                      \* the claimed run is not running: throw
            /\ EndTransaction(w, [IdleWorker EXCEPT !.pc = "inconsistent"])
            /\ UNCHANGED <<now, sourceVars, run>>

(* finalizeFailureResult *)
BeginFail(w) ==
  /\ At(w, "fail")
  /\ worker' = [worker EXCEPT ![w].pc = "failing", ![w].at = now]
  /\ UNCHANGED <<now, sourceVars, run, lockVars>>

Fail(w) ==
  LET mine == run[worker[w].run].status = "running"
  IN  /\ At(w, "failing")
      /\ sourceLock[worker[w].source] = NoOne
      /\ \/ ~IsCurrentClaim(w) /\ Finish(w) /\ UNCHANGED <<now, sourceVars, run>>
         \/ /\ IsCurrentClaim(w) /\ mine
            /\ Finalize(w, FailedRow(w, worker[w].code))
            /\ Finish(w)
            /\ UNCHANGED published
         \/ /\ IsCurrentClaim(w) /\ ~mine
            /\ EndTransaction(w, [IdleWorker EXCEPT !.pc = "inconsistent"])
            /\ UNCHANGED <<now, sourceVars, run>>

-----------------------------------------------------------------------------
(* The environment *)

\* The function is stopped: its connection closes and its transaction rolls back.
Stop(w) ==
  /\ ~At(w, "idle")
  /\ Finish(w)
  /\ UNCHANGED <<now, sourceVars, run>>

\* configure-canteen-menu-source.ts enables a source.
ConfigureSource(s) ==
  /\ sourceLock[s] = NoOne
  /\ enabled' = [enabled EXCEPT ![s] = TRUE]
  /\ UNCHANGED <<now, token, expires, published, run, lockVars, worker>>

\* An operator disables a source in the database.
DisableSource(s) ==
  /\ sourceLock[s] = NoOne
  /\ enabled' = [enabled EXCEPT ![s] = FALSE]
  /\ UNCHANGED <<now, token, expires, published, run, lockVars, worker>>

\* The platform stops a cron call that has polled for PollDuration (maxDuration).
Tick ==
  /\ now < MaxTime
  /\ \A w \in Worker : At(w, "poll") => now < worker[w].at + PollDuration
  /\ now' = now + 1
  /\ UNCHANGED <<sourceVars, run, lockVars, worker>>

Step(w) ==
  \/ Acquire(w)
  \/ \E c \in worker[w].todo : PollNext(w, c)
  \/ PollEnds(w)
  \/ Fetch(w)
  \/ ConfirmEmpty(w)
  \/ BeginCommit(w)
  \/ LockCanteen(w)
  \/ LockSource(w)
  \/ Publish(w)
  \/ BeginFail(w)
  \/ Fail(w)

Next ==
  \/ \E w \in Worker : BeginPoll(w) \/ Stop(w) \/ Step(w)
  \/ \E w \in Worker, s \in Source : BeginAcquire(w, s)
  \/ \E s \in Switchable : ConfigureSource(s) \/ DisableSource(s)
  \/ Tick

Spec == Init /\ [][Next]_vars

\* A request that is not stopped goes on; PostgreSQL queues the waiters of a row lock.
Fairness == \A w \in Worker : SF_vars(Step(w))

FairSpec == Spec /\ Fairness

-----------------------------------------------------------------------------
(* Properties *)

Time == Nat \union {Never}
RunRow ==
  [status : {"absent", "running", "pruned"} \union Terminal,
   source : Source \union {NoSource}, by : {"none", "cron", "manual"},
   startedAt : Time, completedAt : Time,
   code : {"none", "superseded"} \union FailureCode,
   menu : Menu \union {EmptyMenu, NoMenu}, key : Key \union {NoKey},
   refresh : Refresh \union {NoRefresh}]

CandidateRow ==
  [source : Source, state : {"claimable", "retry-later", "stop-for-review"},
   failureCount : Nat]

WorkerRow ==
  [pc : {"idle", "acquire", "poll", "fetch", "confirm", "commit", "lock canteen",
         "lock source", "publish", "fail", "failing", "inconsistent"},
   kind : {"none", "cron", "manual"}, source : Source \union {NoSource},
   run : Run \union {NoRun}, at : Time, todo : SUBSET CandidateRow,
   menu : Menu \union {EmptyMenu, NoMenu}, key : Key \union {NoKey},
   code : {"none"} \union FailureCode]

(* Type correctness of the database rows and of the invocations' memory.   *)
TypeOK ==
  /\ now \in Nat
  /\ enabled \in [Source -> BOOLEAN]
  /\ token \in [Source -> Run \union {NoRun}]
  /\ expires \in [Source -> Time]
  /\ published \in [Source -> Run \union {NoRun}]
  /\ run \in [Run -> RunRow]
  /\ canteenLock \in [Source -> Worker \union {NoOne}]
  /\ sourceLock \in [Source -> Worker \union {NoOne}]
  /\ worker \in [Worker -> WorkerRow]

Running(s) == {r \in Run : run[r].source = s /\ run[r].status = "running"}

(* The runs marked "running" are exactly the runs that hold a claim, also  *)
(* after workers stopped, were superseded or outlived their claim: a       *)
(* source never has two running runs, nor one nobody can ever end          *)
(* (canteen_menu_sources.sync_claim_token, canteen_menu_sync_runs.status). *)
ClaimIsTheRunningRun ==
  \A s \in Source :
    /\ Running(s) = IF token[s] = NoRun THEN {} ELSE {token[s]}
    /\ token[s] = NoRun <=> expires[s] = Never

(* An empty menu is published only if the run that started last before it  *)
(* ended with the same empty publication in the same meal period, between  *)
(* EmptyMin and EmptyMax earlier (emptyMenuObservationIsConfirmed reads    *)
(* this history outside the transaction that publishes).                   *)
ConfirmedBy(r, p) ==
  /\ run[p].source = run[r].source
  /\ run[p].code = "empty-pending"
  /\ run[p].key = run[r].key
  /\ MealPeriod(run[p].startedAt) = MealPeriod(run[r].startedAt)
  /\ run[r].startedAt - run[p].startedAt \in EmptyMin .. EmptyMax
  /\ \A q \in Run :
       (q < r /\ run[q].source = run[r].source)
         => ~(run[p].startedAt < run[q].startedAt /\ run[q].startedAt < run[r].startedAt)

EmptyMenuConfirmed ==
  \A r \in Run : run[r].menu = EmptyMenu => \E p \in Run : p # r /\ ConfirmedBy(r, p)

(* However cron calls and administrators' scripts interleave, one window   *)
(* sees at most MaxWindowFailures counted failures of a source's scheduled *)
(* runs, however long they waited for the row, without a success that was  *)
(* claimed between them (MAX_WINDOW_FAILURES).                             *)
SameWindow(q, r) == WindowStart(run[q].startedAt) = WindowStart(run[r].startedAt)

ScheduledFailure(r) == run[r].by = "cron" /\ run[r].code \in {"retryable", "review"}

FailuresUpTo(r) ==
  {q \in Run :
     /\ q <= r
     /\ run[q].source = run[r].source /\ ScheduledFailure(q) /\ SameWindow(q, r)
     /\ ~\E x \in Run : /\ q < x /\ x < r
                        /\ run[x].source = run[r].source
                        /\ run[x].menu # NoMenu}

RetryBudget ==
  \A r \in Run : ScheduledFailure(r) => Cardinality(FailuresUpTo(r)) <= MaxWindowFailures

(* A scheduled run of a catalog source starts only after the pause that    *)
(* the failures of the window before it ask for, whoever ran them: the     *)
(* confirmation age after a pending empty menu, the first retry delay      *)
(* while only one failure has counted, the later delay after more          *)
(* (classifyMenuSourceSchedule).                                           *)
FailuresBefore(r) ==
  {p \in Run : /\ p < r /\ run[p].source = run[r].source /\ SameWindow(p, r)
               /\ run[p].startedAt >= ClaimsStart(run[r].startedAt)
               /\ run[p].code \in FailureCode}

PauseAfter(p, r) ==
  IF run[p].code = "empty-pending" THEN EmptyMin
  ELSE IF \A q \in FailuresBefore(r) : q = p \/ run[q].code = "empty-pending"
    THEN FirstRetryDelay
  ELSE LaterRetryDelay

RetrySpacing ==
  \A r \in Run : run[r].by = "cron" /\ run[r].source \notin Scoped =>
    \A p \in Latest(FailuresBefore(r)) :
      run[r].startedAt >= run[p].completedAt + PauseAfter(p, r)

(* The two errors the code throws when its own checks disagree are never   *)
(* thrown: MENU_SYNC_CLAIM_INCONSISTENT, MENU_SYNC_FINALIZATION_INCONSISTENT. *)
ChecksAgree == \A w \in Worker : ~At(w, "inconsistent")

(* Every invocation ends: no wait for a row lock lasts forever, although   *)
(* publishing holds the canteen while it waits for the source and a poll   *)
(* holds several sources.                                                  *)
InvocationsEnd == \A w \in Worker : ~At(w, "idle") ~> At(w, "idle")

(* Publication as a reader of the menu sees it: MenuPublisher.             *)
Publisher == INSTANCE MenuPublisher WITH
  holder <- token, granted <- {r \in Run : run[r].status # "absent"},
  published <- published

PublishesAsSpecified == Publisher!Spec
=============================================================================
