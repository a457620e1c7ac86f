--------------------------- MODULE MenuSyncProofs ---------------------------
(***************************************************************************)
(* Proofs about MenuSync, for any sources, workers, run ids, delays and    *)
(* window lengths, in three parts:                                         *)
(*   - IInv: types, memory, claims and running runs;                       *)
(*   - the refinement of MenuPublisher: claims are granted in order, and   *)
(*     publish at most once and only while they are held;                  *)
(*   - HInv: the history of runs, and what claims and confirmations that   *)
(*     read it may rely on.                                                *)
(***************************************************************************)
EXTENDS MenuSync, FiniteSetTheorems, TLAPS

Working == {"fetch", "confirm", "commit", "lock canteen", "lock source",
            "publish", "fail", "failing"}

\* A worker knows its source and its run; while it publishes it holds the
\* source's row, and the claim it found current stays its own.
WorkerInv ==
  \A w \in Worker :
    /\ worker[w].pc \in Working \union {"acquire"} => worker[w].source \in Source
    /\ worker[w].pc \in Working => worker[w].run \in Run
    /\ worker[w].pc = "publish" =>
         /\ sourceLock[worker[w].source] = w
         /\ token[worker[w].source] = worker[w].run

\* Ids are drawn in order.
IdsInOrder ==
  \A r, u \in Run : run[r].status # "absent" /\ run[u].status = "absent" => r < u

IInv == TypeOK /\ WorkerInv /\ ClaimIsTheRunningRun /\ ChecksAgree /\ IdsInOrder

-----------------------------------------------------------------------------
(* Candidates are well formed. *)

LEMMA FailuresFinite ==
  ASSUME NEW s, NEW t, NEW due
  PROVE  Cardinality({r \in FailuresSince(s, t, due) : run[r].code # "empty-pending"}) \in Nat
<1>1. {r \in FailuresSince(s, t, due) : run[r].code # "empty-pending"} \in SUBSET Run
  BY DEF FailuresSince, RunsInWindow
<1>2. IsFiniteSet(Run)
  BY SetAssumption
<1>. QED BY <1>1, <1>2, FS_Subset, FS_CardinalityType

LEMMA CandidateType ==
  ASSUME NEW s \in Source, NEW t
  PROVE  Candidate(s, t) \subseteq CandidateRow
<1>1. \A f \in Facts(s, t) : f.failureCount \in Nat
  <2>1. ASSUME NEW due PROVE FactsSince(s, t, due).failureCount \in Nat
    BY FailuresFinite DEF FactsSince
  <2>. QED BY <2>1 DEF Facts
<1>2. \A f : Classify(f, t) \in {"claimable", "retry-later", "stop-for-review"}
  BY DEF Classify
<1>. QED BY <1>1, <1>2 DEF Candidate, CandidateRow

\* A claimable source is enabled and has no active claim: the checks of the
\* scheduler and of claimLockedMenuSource agree.
LEMMA ClaimableIsFree ==
  ASSUME NEW s \in Source, NEW t,
         \E d \in Candidate(s, t) : d.state = "claimable"
  PROVE  enabled[s] /\ ~ClaimActive(s, t)
<1>1. PICK d \in Candidate(s, t) : d.state = "claimable"
  OBVIOUS
<1>2. enabled[s]
  BY <1>1 DEF Candidate
<1>3. PICK f \in Facts(s, t) : d.state = Classify(f, t)
  BY <1>1 DEF Candidate
<1>4. ~f.activeClaim
  BY <1>1, <1>3 DEF Classify
<1>5. f.activeClaim = ClaimActive(s, t)
  <2>1. PICK due \in DueAt(s, t) : f = FactsSince(s, t, due)
    BY <1>3 DEF Facts
  <2>. QED BY <2>1 DEF FactsSince
<1>. QED BY <1>2, <1>4, <1>5

-----------------------------------------------------------------------------
(* The rows an action writes are well formed. *)

LEMMA IdleType == IdleWorker \in WorkerRow
BY DEF IdleWorker, WorkerRow, Time

LEMMA NewRunType ==
  ASSUME NEW s \in Source, NEW kind \in {"none", "cron", "manual"}, NEW t \in Time
  PROVE  NewRun(s, kind, t) \in RunRow
BY DEF NewRun, AbsentRun, RunRow, Time, NoRefresh

LEMMA PrunedType ==
  ASSUME TypeOK, NEW sources, NEW t
  PROVE  Pruned(sources, t) \in [Run -> RunRow]
BY DEF TypeOK, Pruned, RunRow

LEMMA SupersededType ==
  ASSUME TypeOK, NEW s \in Source, NEW t \in Time
  PROVE  Superseded(s, t) \in [Run -> RunRow]
<1> SUFFICES ASSUME NEW r \in Run
             PROVE  Superseded(s, t)[r] \in RunRow
  BY DEF Superseded
<1>1. run[r] \in RunRow
  BY DEF TypeOK
<1>2. [run[r] EXCEPT !.status = "failed", !.code = "superseded", !.completedAt = t] \in RunRow
  BY <1>1 DEF RunRow, Terminal
<1>. QED BY <1>1, <1>2 DEF Superseded

LEMMA FailedUpdate ==
  ASSUME NEW row \in RunRow, NEW c \in {"none"} \union FailureCode, NEW t \in Time,
         NEW k \in Key \union {NoKey}
  PROVE  [row EXCEPT !.status = "failed", !.code = c, !.completedAt = t, !.key = k] \in RunRow
BY DEF RunRow, Terminal

LEMMA SucceededUpdate ==
  ASSUME NEW row \in RunRow, NEW st \in Terminal, NEW t \in Time,
         NEW m \in Menu \union {EmptyMenu, NoMenu}, NEW k \in Key \union {NoKey},
         NEW f \in Refresh \union {NoRefresh}
  PROVE  [row EXCEPT !.status = st, !.completedAt = t, !.menu = m, !.key = k,
                     !.refresh = f] \in RunRow
BY DEF RunRow

LEMMA FailedRowType ==
  ASSUME TypeOK, NEW w \in Worker, worker[w].run \in Run, NEW c \in {"none"} \union FailureCode
  PROVE  FailedRow(w, c) \in RunRow
<1>1. run[worker[w].run] \in RunRow
  BY DEF TypeOK
<1>2. worker[w].at \in Time /\ worker[w].key \in Key \union {NoKey}
  BY DEF TypeOK, WorkerRow
<1> DEFINE k == IF c = "empty-pending" THEN worker[w].key ELSE NoKey
<1>3. k \in Key \union {NoKey}
  BY <1>2
<1> HIDE DEF k
<1>4. [run[worker[w].run] EXCEPT !.status = "failed", !.code = c,
         !.completedAt = worker[w].at, !.key = k] \in RunRow
  BY <1>1, <1>2, <1>3, FailedUpdate
<1>. QED BY <1>4 DEF FailedRow, k

LEMMA SucceededRowType ==
  ASSUME TypeOK, NEW w \in Worker, worker[w].run \in Run,
         NEW f \in Refreshes(worker[w].source)
  PROVE  SucceededRow(w, f) \in RunRow
<1>1. run[worker[w].run] \in RunRow
  BY DEF TypeOK
<1>2. /\ worker[w].at \in Time
      /\ worker[w].key \in Key \union {NoKey}
      /\ worker[w].menu \in Menu \union {EmptyMenu, NoMenu}
  BY DEF TypeOK, WorkerRow
<1>3. f \in Refresh \union {NoRefresh}
  BY DEF Refreshes
<1> DEFINE st == IF published[worker[w].source] # NoRun
                      /\ run[published[worker[w].source]].menu = worker[w].menu
                     THEN "unchanged" ELSE "applied"
<1>4. st \in Terminal
  BY DEF Terminal
<1> HIDE DEF st
<1>5. [run[worker[w].run] EXCEPT !.status = st, !.completedAt = worker[w].at,
         !.menu = worker[w].menu, !.key = worker[w].key, !.refresh = f] \in RunRow
  BY <1>1, <1>2, <1>3, <1>4, SucceededUpdate
<1>. QED BY <1>5 DEF SucceededRow, st

\* What a transaction leaves of the locks.
LEMMA UnlockedType ==
  ASSUME TypeOK, NEW w \in Worker
  PROVE  /\ Unlocked(canteenLock, w) \in [Source -> Worker \union {NoOne}]
         /\ Unlocked(sourceLock, w) \in [Source -> Worker \union {NoOne}]
BY DEF TypeOK, Unlocked

\* A claim that is current names a run.
LEMMA CurrentClaimIsARun ==
  ASSUME TypeOK, ClaimIsTheRunningRun, NEW w \in Worker, worker[w].source \in Source,
         IsCurrentClaim(w)
  PROVE  /\ token[worker[w].source] = worker[w].run
         /\ worker[w].run \in Run
         /\ run[worker[w].run].source = worker[w].source
         /\ run[worker[w].run].status = "running"
<1> DEFINE s == worker[w].source
<1>1. token[s] = worker[w].run /\ expires[s] > worker[w].at
  BY DEF IsCurrentClaim
<1>2. expires[s] # Never
  <2>1. worker[w].at \in Time /\ expires[s] \in Time
    BY DEF TypeOK, WorkerRow
  <2>. QED BY <1>1, <2>1 DEF Time, Never
<1>3. token[s] # NoRun /\ Running(s) = {token[s]}
  BY <1>2 DEF ClaimIsTheRunningRun
<1>4. token[s] \in Run
  BY <1>3 DEF TypeOK
<1>5. token[s] \in Running(s)
  BY <1>3
<1>. QED BY <1>1, <1>4, <1>5 DEF Running

-----------------------------------------------------------------------------
(* The shapes a step can have. *)

\* What a worker may remember next, unless it starts to publish.
GoodNext(row) ==
  /\ row \in WorkerRow
  /\ row.pc \in Working \union {"acquire"} => row.source \in Source
  /\ row.pc \in Working => row.run \in Run
  /\ row.pc # "publish" /\ row.pc # "inconsistent"

LEMMA IdleIsGood == GoodNext(IdleWorker)
BY IdleType DEF GoodNext, IdleWorker, Working

\* The history is pruned or left alone; a worker goes on in memory.
LEMMA MemoryStep ==
  ASSUME IInv, NEW w \in Worker, NEW next, GoodNext(next),
         worker' = [worker EXCEPT ![w] = next],
         run' = run \/ \E sources, t : run' = Pruned(sources, t),
         UNCHANGED <<now, sourceVars, lockVars>>
  PROVE  IInv'
<1> USE DEF sourceVars, lockVars
<1>1. TypeOK'
  BY PrunedType DEF IInv, TypeOK, GoodNext
<1>2. WorkerInv'
  BY DEF IInv, TypeOK, WorkerInv, GoodNext
<1>3. \A r \in Run : /\ run'[r].source = run[r].source
                     /\ run'[r].status = "running" <=> run[r].status = "running"
                     /\ run'[r].status = "absent" <=> run[r].status = "absent"
  BY DEF IInv, TypeOK, RunRow, Pruned, Terminal
<1>4. ClaimIsTheRunningRun'
  <2>1. \A s \in Source : Running(s)' = Running(s)
    BY <1>3 DEF Running
  <2>. QED BY <2>1 DEF IInv, ClaimIsTheRunningRun
<1>5. ChecksAgree'
  BY DEF IInv, TypeOK, ChecksAgree, At, GoodNext
<1>6. IdsInOrder'
  BY <1>3 DEF IInv, IdsInOrder
<1>. QED BY <1>1, <1>2, <1>4, <1>5, <1>6 DEF IInv

\* A transaction ends without having written a row.
LEMMA ReleaseStep ==
  ASSUME IInv, NEW w \in Worker, NEW next, GoodNext(next), EndTransaction(w, next),
         UNCHANGED <<now, sourceVars, run>>
  PROVE  IInv'
<1> USE DEF sourceVars, EndTransaction
<1>1. TypeOK'
  BY UnlockedType DEF IInv, TypeOK, GoodNext
<1>2. WorkerInv'
  <2> SUFFICES ASSUME NEW v \in Worker, v # w, worker[v].pc = "publish"
               PROVE  sourceLock'[worker[v].source] = v
    BY DEF IInv, TypeOK, WorkerInv, GoodNext
  <2>1. sourceLock[worker[v].source] = v /\ worker[v].source \in Source
    BY DEF IInv, WorkerInv, Working
  <2>. QED BY <2>1 DEF Unlocked
<1>3. ClaimIsTheRunningRun'
  BY DEF IInv, ClaimIsTheRunningRun, Running
<1>4. ChecksAgree'
  BY DEF IInv, TypeOK, ChecksAgree, At, GoodNext
<1>5. IdsInOrder'
  BY DEF IInv, IdsInOrder
<1>. QED BY <1>1, <1>2, <1>3, <1>4, <1>5 DEF IInv

\* A free source is claimed for a fresh run.
LEMMA ClaimStep ==
  ASSUME IInv, NEW w \in Worker, NEW s \in Source, NEW r \in Fresh, NEW t \in Time,
         sourceLock[s] = NoOne, Claim(w, s, r, t)
  PROVE  IInv'
<1> DEFINE next == [IdleWorker EXCEPT !.pc = "fetch", !.kind = worker[w].kind,
                                      !.source = s, !.run = r]
<1>1. r \in Run /\ run[r].status = "absent"
  BY DEF Fresh, Unused
<1>0. worker[w].kind \in {"none", "cron", "manual"}
  BY DEF IInv, TypeOK, WorkerRow
<1>2. GoodNext(next)
  BY <1>1, <1>0, IdleType DEF IdleWorker, GoodNext, WorkerRow, Working
<1> HIDE DEF next
<1>3. /\ worker' = [worker EXCEPT ![w] = next]
      /\ sourceLock' = Unlocked(sourceLock, w)
      /\ canteenLock' = Unlocked(canteenLock, w)
      /\ token' = [token EXCEPT ![s] = r]
      /\ expires' = [expires EXCEPT ![s] = t + ClaimDuration]
      /\ run' = [Superseded(s, t) EXCEPT ![r] = NewRun(s, worker[w].kind, t)]
      /\ UNCHANGED <<now, enabled, published>>
  BY DEF Claim, EndTransaction, next
<1>4. t + ClaimDuration \in Nat
  BY LifetimeAssumption DEF Time, Never
<1>5. TypeOK'
  <2>1. run' \in [Run -> RunRow]
    BY <1>1, <1>3, <1>0, SupersededType, NewRunType DEF IInv
  <2>2. worker' \in [Worker -> WorkerRow]
    BY <1>2, <1>3 DEF IInv, TypeOK, GoodNext
  <2>3. /\ token' \in [Source -> Run \union {NoRun}]
        /\ expires' \in [Source -> Time]
    BY <1>1, <1>3, <1>4 DEF IInv, TypeOK, Time
  <2>4. /\ canteenLock' \in [Source -> Worker \union {NoOne}]
        /\ sourceLock' \in [Source -> Worker \union {NoOne}]
    BY <1>3, UnlockedType DEF IInv
  <2>. QED BY <1>3, <2>1, <2>2, <2>3, <2>4 DEF IInv, TypeOK
<1>6. WorkerInv'
  <2> SUFFICES ASSUME NEW v \in Worker, v # w, worker[v].pc = "publish"
               PROVE  /\ sourceLock'[worker[v].source] = v
                      /\ token'[worker[v].source] = worker[v].run
    BY <1>2, <1>3 DEF IInv, TypeOK, WorkerInv, GoodNext
  <2>1. /\ sourceLock[worker[v].source] = v
        /\ token[worker[v].source] = worker[v].run
        /\ worker[v].source \in Source
    BY DEF IInv, WorkerInv, Working
  <2>2. worker[v].source # s
    BY <2>1, SetAssumption
  <2>. QED BY <1>3, <2>1, <2>2 DEF IInv, TypeOK, Unlocked
<1>7. \A q \in Run :
        /\ run'[q].status = "absent" <=> (run[q].status = "absent" /\ q # r)
        /\ run'[q].status = "running" <=>
             (q = r \/ (run[q].status = "running" /\ q # token[s]))
        /\ run'[q].source = IF q = r THEN s ELSE run[q].source
  <2> SUFFICES ASSUME NEW q \in Run
               PROVE  /\ run'[q].status = "absent" <=> (run[q].status = "absent" /\ q # r)
                      /\ run'[q].status = "running" <=>
                           (q = r \/ (run[q].status = "running" /\ q # token[s]))
                      /\ run'[q].source = IF q = r THEN s ELSE run[q].source
    OBVIOUS
  <2>1. CASE q = r
    <3>1. run'[q] = NewRun(s, worker[w].kind, t)
      BY <1>1, <1>3, <2>1 DEF Superseded
    <3>. QED BY <2>1, <3>1 DEF NewRun, AbsentRun
  <2>2. CASE q # r
    <3>1. run'[q] = Superseded(s, t)[q]
      BY <1>1, <1>3, <2>2 DEF Superseded
    <3>2. run[q] \in RunRow
      BY DEF IInv, TypeOK
    <3>. QED BY <2>2, <3>1, <3>2 DEF Superseded, RunRow
  <2>. QED BY <2>1, <2>2
<1>8. ClaimIsTheRunningRun'
  <2> SUFFICES ASSUME NEW z \in Source
               PROVE  /\ Running(z)' = IF token'[z] = NoRun THEN {} ELSE {token'[z]}
                      /\ token'[z] = NoRun <=> expires'[z] = Never
    BY DEF ClaimIsTheRunningRun
  <2>1. r # NoRun /\ t + ClaimDuration # Never
    BY <1>1, <1>4, SetAssumption DEF NoRun, Never
  <2>2. /\ Running(z) = IF token[z] = NoRun THEN {} ELSE {token[z]}
        /\ token[z] = NoRun <=> expires[z] = Never
    BY DEF IInv, ClaimIsTheRunningRun
  <2>3. Running(z)' = {q \in Run : run'[q].source = z /\ run'[q].status = "running"}
    BY DEF Running
  <2>4. CASE z = s
    <3>1. Running(z)' = {r}
      BY <1>1, <1>7, <2>2, <2>3, <2>4 DEF Running
    <3>. QED BY <1>3, <2>1, <2>4, <3>1 DEF IInv, TypeOK
  <2>5. CASE z # s
    <3>1. Running(s) \subseteq {token[s]}
      BY DEF IInv, ClaimIsTheRunningRun
    <3>2. token[s] \in Run => run[token[s]].status # "running" \/ run[token[s]].source = s
      <4>1. token[s] = NoRun \/ token[s] \in Running(s)
        BY DEF IInv, ClaimIsTheRunningRun
      <4>. QED BY <4>1, SetAssumption DEF Running, NoRun
    <3>3. Running(z)' = Running(z)
      BY <1>1, <1>7, <2>3, <2>5, <3>2 DEF Running
    <3>. QED BY <1>3, <2>2, <2>5, <3>3 DEF IInv, TypeOK
  <2>. QED BY <2>4, <2>5
<1>9. ChecksAgree'
  BY <1>2, <1>3 DEF IInv, TypeOK, ChecksAgree, At, GoodNext
<1>10. IdsInOrder'
  <2> SUFFICES ASSUME NEW q \in Run, NEW u \in Run,
                      run'[q].status # "absent", run'[u].status = "absent"
               PROVE  q < u
    BY DEF IdsInOrder
  <2>1. run[u].status = "absent" /\ u # r
    BY <1>7
  <2>2. CASE q = r
    <3>1. u \in Unused
      BY <2>1 DEF Unused
    <3>2. r <= u
      BY <3>1 DEF Fresh
    <3>3. r \in Nat /\ u \in Nat
      BY <1>1, SetAssumption
    <3>. QED BY <2>1, <2>2, <3>2, <3>3
  <2>3. CASE q # r
    BY <1>7, <2>1, <2>3 DEF IInv, IdsInOrder
  <2>. QED BY <2>2, <2>3
<1>. QED BY <1>5, <1>6, <1>8, <1>9, <1>10 DEF IInv

\* The claim a worker holds ends as `row`.
LEMMA FinalizeStep ==
  ASSUME IInv, NEW w \in Worker, NEW s \in Source, s = worker[w].source,
         token[s] = worker[w].run, worker[w].run \in Run,
         run[worker[w].run].status = "running", run[worker[w].run].source = s,
         sourceLock[s] \in {NoOne, w},
         NEW row \in RunRow, row.status \in Terminal, row.source = s,
         NEW next, GoodNext(next), Finalize(w, row), EndTransaction(w, next),
         published' \in [Source -> Run \union {NoRun}]
  PROVE  IInv'
<1> DEFINE r == worker[w].run
<1>1. /\ worker' = [worker EXCEPT ![w] = next]
      /\ sourceLock' = Unlocked(sourceLock, w)
      /\ canteenLock' = Unlocked(canteenLock, w)
      /\ token' = [token EXCEPT ![s] = NoRun]
      /\ expires' = [expires EXCEPT ![s] = Never]
      /\ run' = [run EXCEPT ![r] = row]
      /\ UNCHANGED <<now, enabled>>
  BY DEF Finalize, EndTransaction
<1>2. TypeOK'
  <2>1. /\ run' \in [Run -> RunRow]
        /\ worker' \in [Worker -> WorkerRow]
        /\ token' \in [Source -> Run \union {NoRun}]
        /\ expires' \in [Source -> Time]
    BY <1>1 DEF IInv, TypeOK, GoodNext, Time
  <2>. QED BY <1>1, <2>1, UnlockedType DEF IInv, TypeOK
<1>3. WorkerInv'
  <2> SUFFICES ASSUME NEW v \in Worker, v # w, worker[v].pc = "publish"
               PROVE  /\ sourceLock'[worker[v].source] = v
                      /\ token'[worker[v].source] = worker[v].run
    BY <1>1 DEF IInv, TypeOK, WorkerInv, GoodNext
  <2>1. /\ sourceLock[worker[v].source] = v
        /\ token[worker[v].source] = worker[v].run
        /\ worker[v].source \in Source
    BY DEF IInv, WorkerInv, Working
  <2>2. worker[v].source # s
    BY <2>1, SetAssumption
  <2>. QED BY <1>1, <2>1, <2>2 DEF IInv, TypeOK, Unlocked
<1>4. \A q \in Run : run'[q] = IF q = r THEN row ELSE run[q]
  BY <1>1 DEF IInv, TypeOK
<1>5. row.status # "running" /\ row.status # "absent"
  BY DEF Terminal
<1>6. ClaimIsTheRunningRun'
  <2> SUFFICES ASSUME NEW z \in Source
               PROVE  /\ Running(z)' = IF token'[z] = NoRun THEN {} ELSE {token'[z]}
                      /\ token'[z] = NoRun <=> expires'[z] = Never
    BY DEF ClaimIsTheRunningRun
  <2>1. /\ Running(z) = IF token[z] = NoRun THEN {} ELSE {token[z]}
        /\ token[z] = NoRun <=> expires[z] = Never
    BY DEF IInv, ClaimIsTheRunningRun
  <2>2. Running(z)' = {q \in Run : run'[q].source = z /\ run'[q].status = "running"}
    BY DEF Running
  <2>3. CASE z = s
    <3>1. Running(z)' = {}
      BY <1>4, <1>5, <2>1, <2>2, <2>3 DEF Running
    <3>. QED BY <1>1, <2>3, <3>1 DEF IInv, TypeOK
  <2>4. CASE z # s
    <3>1. Running(z)' = Running(z)
      BY <1>4, <2>2, <2>4 DEF Running
    <3>. QED BY <1>1, <2>1, <2>4, <3>1 DEF IInv, TypeOK
  <2>. QED BY <2>3, <2>4
<1>7. ChecksAgree'
  BY <1>1 DEF IInv, TypeOK, ChecksAgree, At, GoodNext
<1>8. IdsInOrder'
  BY <1>4, <1>5 DEF IInv, IdsInOrder
<1>. QED BY <1>2, <1>3, <1>6, <1>7, <1>8 DEF IInv

-----------------------------------------------------------------------------
(* One lemma per action. *)

LEMMA BeginAcquireStep ==
  ASSUME IInv, NEW w \in Worker, NEW s \in Source, BeginAcquire(w, s)
  PROVE  IInv'
<1> DEFINE next == [IdleWorker EXCEPT !.pc = "acquire", !.kind = "manual", !.source = s,
                                      !.at = now]
<1>1. GoodNext(next)
  BY IdleType DEF IInv, TypeOK, IdleWorker, GoodNext, WorkerRow, Working, Time
<1>. QED BY <1>1, MemoryStep DEF BeginAcquire

LEMMA BeginPollStep ==
  ASSUME IInv, NEW w \in Worker, BeginPoll(w)
  PROVE  IInv'
<1> DEFINE todo == UNION {Candidate(s, now) : s \in Source}
           next == [IdleWorker EXCEPT !.pc = "poll", !.kind = "cron", !.at = now,
                                      !.todo = todo]
<1>1. todo \in SUBSET CandidateRow
  BY CandidateType
<1> HIDE DEF todo
<1>2. GoodNext(next)
  BY <1>1, IdleType DEF IInv, TypeOK, IdleWorker, GoodNext, WorkerRow, Working, Time
<1>. QED BY <1>2, MemoryStep DEF BeginPoll, todo

LEMMA AcquireStep ==
  ASSUME IInv, NEW w \in Worker, Acquire(w)
  PROVE  IInv'
<1> DEFINE s == worker[w].source
<1>1. s \in Source /\ worker[w].at \in Time
  BY DEF IInv, TypeOK, WorkerInv, WorkerRow, Acquire, At
<1>2. CASE Finish(w) /\ UNCHANGED <<now, sourceVars, run>>
  BY <1>2, IdleIsGood, ReleaseStep DEF Finish, EndTransaction
<1>3. CASE \E r \in Fresh : Claim(w, s, r, worker[w].at)
  BY <1>1, <1>3, ClaimStep DEF Acquire
<1>. QED BY <1>2, <1>3 DEF Acquire

LEMMA FetchStep ==
  ASSUME IInv, NEW w \in Worker, Fetch(w)
  PROVE  IInv'
<1>1. /\ worker[w] \in WorkerRow
      /\ worker[w].source \in Source
      /\ worker[w].run \in Run
  BY DEF IInv, TypeOK, WorkerInv, Fetch, At, Working
<1>2. ASSUME NEW m \in Menu,
             worker' = [worker EXCEPT ![w].pc = "commit", ![w].menu = m]
      PROVE  IInv'
  <2> DEFINE next == [worker[w] EXCEPT !.pc = "commit", !.menu = m]
  <2>1. GoodNext(next)
    BY <1>1 DEF GoodNext, WorkerRow, Working
  <2>2. worker' = [worker EXCEPT ![w] = next]
    BY <1>2 DEF IInv, TypeOK
  <2>. QED BY <2>1, <2>2, MemoryStep DEF Fetch
<1>3. ASSUME NEW k \in Key,
             worker' = [worker EXCEPT ![w].pc = "confirm", ![w].menu = EmptyMenu,
                                      ![w].key = k]
      PROVE  IInv'
  <2> DEFINE next == [worker[w] EXCEPT !.pc = "confirm", !.menu = EmptyMenu, !.key = k]
  <2>1. GoodNext(next)
    BY <1>1 DEF GoodNext, WorkerRow, Working
  <2>2. worker' = [worker EXCEPT ![w] = next]
    BY <1>3 DEF IInv, TypeOK
  <2>. QED BY <2>1, <2>2, MemoryStep DEF Fetch
<1>4. ASSUME NEW c \in {"retryable", "review"},
             worker' = [worker EXCEPT ![w].pc = "fail", ![w].code = c]
      PROVE  IInv'
  <2> DEFINE next == [worker[w] EXCEPT !.pc = "fail", !.code = c]
  <2>1. GoodNext(next)
    BY <1>1 DEF GoodNext, WorkerRow, Working, FailureCode
  <2>2. worker' = [worker EXCEPT ![w] = next]
    BY <1>4 DEF IInv, TypeOK
  <2>. QED BY <2>1, <2>2, MemoryStep DEF Fetch
<1>. QED BY <1>2, <1>3, <1>4 DEF Fetch

LEMMA ConfirmEmptyStep ==
  ASSUME IInv, NEW w \in Worker, ConfirmEmpty(w)
  PROVE  IInv'
<1>1. /\ worker[w] \in WorkerRow
      /\ worker[w].source \in Source
      /\ worker[w].run \in Run
  BY DEF IInv, TypeOK, WorkerInv, ConfirmEmpty, At, Working
<1> DEFINE yes == [worker[w] EXCEPT !.pc = "commit"]
           no == [worker[w] EXCEPT !.pc = "fail", !.code = "empty-pending"]
<1>2. GoodNext(yes) /\ GoodNext(no)
  BY <1>1 DEF GoodNext, WorkerRow, Working, FailureCode
<1>3. worker' = [worker EXCEPT ![w] = yes] \/ worker' = [worker EXCEPT ![w] = no]
  BY DEF ConfirmEmpty, IInv, TypeOK
<1> HIDE DEF yes, no
<1>. QED BY <1>2, <1>3, MemoryStep DEF ConfirmEmpty

LEMMA BeginCommitStep ==
  ASSUME IInv, NEW w \in Worker, BeginCommit(w)
  PROVE  IInv'
<1>1. /\ worker[w] \in WorkerRow
      /\ worker[w].source \in Source
      /\ worker[w].run \in Run
      /\ now \in Time
  BY DEF IInv, TypeOK, WorkerInv, BeginCommit, At, Working, Time
<1> DEFINE next == [worker[w] EXCEPT !.pc = "lock canteen", !.at = now]
<1>2. GoodNext(next)
  BY <1>1 DEF GoodNext, WorkerRow, Working
<1>3. worker' = [worker EXCEPT ![w] = next]
  BY DEF BeginCommit, IInv, TypeOK
<1>. QED BY <1>2, <1>3, MemoryStep DEF BeginCommit

LEMMA BeginFailStep ==
  ASSUME IInv, NEW w \in Worker, BeginFail(w)
  PROVE  IInv'
<1>1. /\ worker[w] \in WorkerRow
      /\ worker[w].source \in Source
      /\ worker[w].run \in Run
      /\ now \in Time
  BY DEF IInv, TypeOK, WorkerInv, BeginFail, At, Working, Time
<1> DEFINE next == [worker[w] EXCEPT !.pc = "failing", !.at = now]
<1>2. GoodNext(next)
  BY <1>1 DEF GoodNext, WorkerRow, Working
<1>3. worker' = [worker EXCEPT ![w] = next]
  BY DEF BeginFail, IInv, TypeOK
<1>. QED BY <1>2, <1>3, MemoryStep DEF BeginFail

LEMMA LockCanteenStep ==
  ASSUME IInv, NEW w \in Worker, LockCanteen(w)
  PROVE  IInv'
<1>1. /\ worker[w] \in WorkerRow
      /\ worker[w].source \in Source
      /\ worker[w].run \in Run
  BY DEF IInv, TypeOK, WorkerInv, LockCanteen, At, Working
<1> DEFINE next == [worker[w] EXCEPT !.pc = "lock source"]
<1>2. GoodNext(next)
  BY <1>1 DEF GoodNext, WorkerRow, Working
<1>3. /\ worker' = [worker EXCEPT ![w] = next]
      /\ canteenLock' \in [Source -> Worker \union {NoOne}]
  BY DEF LockCanteen, IInv, TypeOK
<1> HIDE DEF next
<1>4. UNCHANGED <<now, sourceVars, run, sourceLock>>
  BY DEF LockCanteen
<1>5. TypeOK'
  BY <1>2, <1>3, <1>4 DEF IInv, TypeOK, GoodNext, sourceVars
<1>6. WorkerInv'
  BY <1>2, <1>3, <1>4 DEF IInv, TypeOK, WorkerInv, GoodNext, sourceVars
<1>7. ClaimIsTheRunningRun' /\ IdsInOrder'
  BY <1>4 DEF IInv, ClaimIsTheRunningRun, Running, IdsInOrder, sourceVars
<1>8. ChecksAgree'
  BY <1>2, <1>3 DEF IInv, TypeOK, ChecksAgree, At, GoodNext
<1>. QED BY <1>5, <1>6, <1>7, <1>8 DEF IInv

LEMMA LockSourceStep ==
  ASSUME IInv, NEW w \in Worker, LockSource(w)
  PROVE  IInv'
<1> DEFINE s == worker[w].source
           next == [worker[w] EXCEPT !.pc = "publish"]
<1>1. worker[w] \in WorkerRow /\ s \in Source /\ worker[w].run \in Run
  BY DEF IInv, TypeOK, WorkerInv, LockSource, At, Working
<1>2. CASE Finish(w) /\ UNCHANGED <<now, sourceVars, run>>
  BY <1>2, IdleIsGood, ReleaseStep DEF Finish, EndTransaction
<1>3. CASE /\ IsCurrentClaim(w)
           /\ sourceLock' = [sourceLock EXCEPT ![s] = w]
           /\ worker' = [worker EXCEPT ![w].pc = "publish"]
           /\ UNCHANGED <<now, sourceVars, run, canteenLock>>
  <2>1. next \in WorkerRow
    BY <1>1 DEF WorkerRow
  <2>2. worker' = [worker EXCEPT ![w] = next]
    BY <1>3 DEF IInv, TypeOK
  <2>3. next.pc = "publish" /\ next.source = s /\ next.run = worker[w].run
    BY <1>1 DEF WorkerRow
  <2> HIDE DEF next
  <2>4. TypeOK'
    BY <1>1, <1>3, <2>1, <2>2 DEF IInv, TypeOK, sourceVars
  <2>5. WorkerInv'
    <3> SUFFICES ASSUME NEW v \in Worker
                 PROVE  /\ worker'[v].pc \in Working \union {"acquire"}
                             => worker'[v].source \in Source
                        /\ worker'[v].pc \in Working => worker'[v].run \in Run
                        /\ worker'[v].pc = "publish" =>
                             /\ sourceLock'[worker'[v].source] = v
                             /\ token'[worker'[v].source] = worker'[v].run
      BY DEF WorkerInv
    <3>1. CASE v = w
      <4>1. worker'[v] = next
        BY <2>2, <3>1 DEF IInv, TypeOK
      <4>2. token[s] = worker[w].run
        BY <1>3 DEF IsCurrentClaim
      <4>. QED BY <1>1, <1>3, <2>3, <3>1, <4>1, <4>2 DEF IInv, TypeOK, sourceVars
    <3>2. CASE v # w
      <4>1. worker'[v] = worker[v]
        BY <2>2, <3>2 DEF IInv, TypeOK
      <4>2. worker[v].pc = "publish" => worker[v].source # s
        BY <3>2, SetAssumption DEF LockSource, IInv, WorkerInv
      <4>. QED BY <1>1, <1>3, <4>1, <4>2 DEF IInv, TypeOK, WorkerInv, sourceVars, Working
    <3>. QED BY <3>1, <3>2
  <2>6. ClaimIsTheRunningRun' /\ IdsInOrder'
    BY <1>3 DEF IInv, ClaimIsTheRunningRun, Running, IdsInOrder, sourceVars
  <2>7. ChecksAgree'
    BY <2>2, <2>3 DEF IInv, TypeOK, ChecksAgree, At
  <2>. QED BY <2>4, <2>5, <2>6, <2>7 DEF IInv
<1>. QED BY <1>2, <1>3 DEF LockSource

LEMMA PublishStep ==
  ASSUME IInv, NEW w \in Worker, Publish(w)
  PROVE  IInv'
<1> DEFINE s == worker[w].source
           mine == run[worker[w].run].status = "running"
<1>1. /\ worker[w] \in WorkerRow /\ s \in Source /\ worker[w].run \in Run
      /\ sourceLock[s] = w /\ token[s] = worker[w].run
  BY DEF IInv, TypeOK, WorkerInv, Publish, At, Working
<1>2. mine /\ run[worker[w].run].source = s
  <2>1. worker[w].run # NoRun
    BY <1>1, SetAssumption DEF NoRun
  <2>2. worker[w].run \in Running(s)
    BY <1>1, <2>1 DEF IInv, ClaimIsTheRunningRun
  <2>. QED BY <2>2 DEF Running
<1>3. GoodNext(Failing(w))
  BY <1>1 DEF Failing, GoodNext, WorkerRow, Working, FailureCode
<1>4. CASE /\ \E f \in Refreshes(s) : Finalize(w, SucceededRow(w, f))
           /\ published' = [published EXCEPT ![s] = worker[w].run]
           /\ Finish(w) \/ EndTransaction(w, Failing(w))
  <2>1. PICK f \in Refreshes(s) : Finalize(w, SucceededRow(w, f))
    BY <1>4
  <2>2. PICK next : GoodNext(next) /\ EndTransaction(w, next)
    BY <1>3, <1>4, IdleIsGood DEF Finish, EndTransaction
  <2>3. published' \in [Source -> Run \union {NoRun}]
    BY <1>1, <1>4 DEF IInv, TypeOK
  <2>4. SucceededRow(w, f) \in RunRow
    BY <1>1, SucceededRowType DEF IInv
  <2>5. SucceededRow(w, f).status \in Terminal /\ SucceededRow(w, f).source = s
    <3>1. run[worker[w].run] \in RunRow
      BY <1>1 DEF IInv, TypeOK
    <3>. QED BY <1>2, <3>1 DEF SucceededRow, RunRow, Terminal
  <2>. QED BY <1>1, <1>2, <2>1, <2>2, <2>3, <2>4, <2>5, FinalizeStep
<1>5. CASE /\ Finalize(w, FailedRow(w, "review"))
           /\ Finish(w)
           /\ UNCHANGED published
  <2>1. FailedRow(w, "review") \in RunRow
    BY <1>1, FailedRowType DEF IInv, FailureCode
  <2>2. FailedRow(w, "review").status \in Terminal /\ FailedRow(w, "review").source = s
    <3>1. run[worker[w].run] \in RunRow
      BY <1>1 DEF IInv, TypeOK
    <3>. QED BY <1>2, <3>1 DEF FailedRow, RunRow, Terminal
  <2>3. EndTransaction(w, IdleWorker)
    BY <1>5 DEF Finish, EndTransaction
  <2>4. published' \in [Source -> Run \union {NoRun}]
    BY <1>5 DEF IInv, TypeOK
  <2>. QED BY <1>1, <1>2, <1>5, <2>1, <2>2, <2>3, <2>4, IdleIsGood, FinalizeStep
<1>6. CASE EndTransaction(w, Failing(w)) /\ UNCHANGED <<now, sourceVars, run>>
  BY <1>3, <1>6, ReleaseStep
<1>. QED BY <1>2, <1>4, <1>5, <1>6 DEF Publish

LEMMA FailStep ==
  ASSUME IInv, NEW w \in Worker, Fail(w)
  PROVE  IInv'
<1> DEFINE s == worker[w].source
<1>1. worker[w] \in WorkerRow /\ s \in Source /\ worker[w].run \in Run
  BY DEF IInv, TypeOK, WorkerInv, Fail, At, Working
<1>2. CASE Finish(w) /\ UNCHANGED <<now, sourceVars, run>>
  BY <1>2, IdleIsGood, ReleaseStep DEF Finish, EndTransaction
<1>3. CASE IsCurrentClaim(w) /\ ~(Finish(w) /\ UNCHANGED <<now, sourceVars, run>>)
  <2>1. /\ token[s] = worker[w].run
        /\ run[worker[w].run].source = s
        /\ run[worker[w].run].status = "running"
    BY <1>1, <1>3, CurrentClaimIsARun DEF IInv
  <2>2. /\ Finalize(w, FailedRow(w, worker[w].code))
        /\ Finish(w)
        /\ UNCHANGED published
        /\ sourceLock[s] = NoOne
    BY <1>3, <2>1 DEF Fail
  <2> DEFINE row == FailedRow(w, worker[w].code)
  <2>3. row \in RunRow
    BY <1>1, FailedRowType DEF IInv, WorkerRow
  <2>4. row.status \in Terminal /\ row.source = s
    <3>1. run[worker[w].run] \in RunRow
      BY <1>1 DEF IInv, TypeOK
    <3>. QED BY <2>1, <3>1 DEF FailedRow, RunRow, Terminal
  <2>5. EndTransaction(w, IdleWorker)
    BY <2>2 DEF Finish, EndTransaction
  <2>6. published' \in [Source -> Run \union {NoRun}]
    BY <2>2 DEF IInv, TypeOK
  <2> HIDE DEF row
  <2>7. Finalize(w, row)
    BY <2>2 DEF row
  <2>. QED BY <1>1, <2>1, <2>2, <2>3, <2>4, <2>5, <2>6, <2>7, IdleIsGood, FinalizeStep
<1>. QED BY <1>2, <1>3 DEF Fail

LEMMA PollNextStep ==
  ASSUME IInv, NEW w \in Worker, NEW c \in worker[w].todo, PollNext(w, c)
  PROVE  IInv'
<1> DEFINE s == c.source
           next == [worker[w] EXCEPT !.todo = @ \ {c}]
<1>1. /\ worker[w] \in WorkerRow /\ worker[w].pc = "poll" /\ worker[w].at \in Time
      /\ s \in Source
  BY DEF IInv, TypeOK, WorkerRow, CandidateRow, PollNext, At
<1>2. GoodNext(next)
  BY <1>1 DEF GoodNext, WorkerRow, Working
<1>3. [worker EXCEPT ![w].todo = @ \ {c}] = [worker EXCEPT ![w] = next]
  BY DEF IInv, TypeOK
<1>4. CASE /\ worker' = [worker EXCEPT ![w].todo = @ \ {c}]
           /\ UNCHANGED <<now, sourceVars, run, lockVars>>
  BY <1>2, <1>3, <1>4, MemoryStep
<1>5. CASE /\ sourceLock[s] = NoOne
           /\ sourceLock' = [sourceLock EXCEPT ![s] = w]
           /\ worker' = [worker EXCEPT ![w].todo = @ \ {c}]
           /\ UNCHANGED <<now, sourceVars, run, canteenLock>>
  <2> HIDE DEF next
  <2>1. TypeOK'
    BY <1>1, <1>2, <1>3, <1>5 DEF IInv, TypeOK, GoodNext, sourceVars
  <2>2. WorkerInv'
    <3> SUFFICES ASSUME NEW v \in Worker, v # w, worker[v].pc = "publish"
                 PROVE  sourceLock'[worker[v].source] = v
      BY <1>2, <1>3, <1>5 DEF IInv, TypeOK, WorkerInv, GoodNext, sourceVars
    <3>1. sourceLock[worker[v].source] = v /\ worker[v].source \in Source
      BY DEF IInv, WorkerInv, Working
    <3>. QED BY <1>5, <3>1, SetAssumption DEF IInv, TypeOK
  <2>3. ClaimIsTheRunningRun' /\ IdsInOrder'
    BY <1>5 DEF IInv, ClaimIsTheRunningRun, Running, IdsInOrder, sourceVars
  <2>4. ChecksAgree'
    BY <1>2, <1>3, <1>5 DEF IInv, TypeOK, ChecksAgree, At, GoodNext
  <2>. QED BY <2>1, <2>2, <2>3, <2>4 DEF IInv
<1>6. CASE sourceLock[s] = NoOne /\ \E r \in Fresh : Claim(w, s, r, worker[w].at)
  BY <1>1, <1>6, ClaimStep
<1>7. (\E d \in Recheck(w, s) : d.state = "claimable")
        => enabled[s] /\ ~ClaimActive(s, worker[w].at)
  BY <1>1, ClaimableIsFree DEF Recheck
<1>. QED BY <1>4, <1>5, <1>6, <1>7 DEF PollNext

LEMMA PollEndsStep ==
  ASSUME IInv, NEW w \in Worker, PollEnds(w) \/ Stop(w)
  PROVE  IInv'
BY IdleIsGood, ReleaseStep DEF PollEnds, Stop, Finish, EndTransaction

LEMMA EnvironmentStep ==
  ASSUME IInv,
         \/ Tick
         \/ \E s \in Switchable : ConfigureSource(s) \/ DisableSource(s)
         \/ UNCHANGED vars
  PROVE  IInv'
<1> USE DEF vars, sourceVars, lockVars, Tick, ConfigureSource, DisableSource
<1>1. TypeOK'
  <2>1. now' \in Nat
    BY DEF IInv, TypeOK
  <2>2. enabled' \in [Source -> BOOLEAN]
    BY Zenon, SetAssumption DEF IInv, TypeOK
  <2>. QED BY <2>1, <2>2 DEF IInv, TypeOK
<1>2. WorkerInv' /\ ChecksAgree'
  BY DEF IInv, WorkerInv, ChecksAgree, At
<1>3. ClaimIsTheRunningRun' /\ IdsInOrder'
  BY DEF IInv, ClaimIsTheRunningRun, Running, IdsInOrder
<1>. QED BY <1>1, <1>2, <1>3 DEF IInv

-----------------------------------------------------------------------------
(* IInv is inductive. *)

LEMMA InitIInv == Init => IInv
<1> SUFFICES ASSUME Init PROVE IInv
  OBVIOUS
<1>1. AbsentRun \in RunRow
  BY DEF AbsentRun, RunRow, Time, NoRefresh
<1>2. TypeOK
  BY <1>1, IdleType DEF Init, TypeOK, Time
<1>3. \A r \in Run : run[r].status = "absent"
  BY DEF Init, AbsentRun
<1>4. ClaimIsTheRunningRun /\ IdsInOrder
  BY <1>3 DEF Init, ClaimIsTheRunningRun, Running, IdsInOrder
<1>5. WorkerInv /\ ChecksAgree
  BY DEF Init, WorkerInv, ChecksAgree, At, IdleWorker, Working
<1>. QED BY <1>2, <1>4, <1>5 DEF IInv

LEMMA NextIInv == IInv /\ [Next]_vars => IInv'
<1> SUFFICES ASSUME IInv, [Next]_vars PROVE IInv'
  OBVIOUS
<1>1. ASSUME NEW w \in Worker, Step(w) PROVE IInv'
  BY <1>1, AcquireStep, PollNextStep, PollEndsStep, FetchStep, ConfirmEmptyStep,
     BeginCommitStep, LockCanteenStep, LockSourceStep, PublishStep, BeginFailStep,
     FailStep DEF Step
<1>2. ASSUME NEW w \in Worker, BeginPoll(w) \/ Stop(w) PROVE IInv'
  BY <1>2, BeginPollStep, PollEndsStep
<1>3. ASSUME NEW w \in Worker, NEW s \in Source, BeginAcquire(w, s) PROVE IInv'
  BY <1>3, BeginAcquireStep
<1>. QED BY <1>1, <1>2, <1>3, EnvironmentStep DEF Next

THEOREM Invariance == Spec => []IInv
<1>. QED BY InitIInv, NextIInv, PTL DEF Spec

(* Rows and memory keep their types, for any sources, workers and delays.  *)
THEOREM TypeCorrect == Spec => []TypeOK
<1>1. IInv => TypeOK
  BY DEF IInv
<1>. QED BY <1>1, Invariance, PTL

(* The running runs are exactly the runs that hold a claim.                *)
THEOREM ClaimsAreRunningRuns == Spec => []ClaimIsTheRunningRun
<1>1. IInv => ClaimIsTheRunningRun
  BY DEF IInv
<1>. QED BY <1>1, Invariance, PTL

(* MENU_SYNC_CLAIM_INCONSISTENT and MENU_SYNC_FINALIZATION_INCONSISTENT    *)
(* cannot be thrown.                                                       *)
THEOREM ChecksAlwaysAgree == Spec => []ChecksAgree
<1>1. IInv => ChecksAgree
  BY DEF IInv
<1>. QED BY <1>1, Invariance, PTL

-----------------------------------------------------------------------------
(* Every step is a step of MenuPublisher, or none. *)

Granted == {r \in Run : run[r].status # "absent"}

\* What no step but a claim, a publication or a failure changes.
Stutter == Granted' = Granted /\ token' = token /\ published' = published

PublisherStep == Publisher!Next \/ Stutter

LEMMA PrunedGrants ==
  ASSUME IInv, \E sources, t : run' = Pruned(sources, t)
  PROVE  Granted' = Granted
<1>1. \A r \in Run : run'[r].status = "absent" <=> run[r].status = "absent"
  BY DEF IInv, TypeOK, RunRow, Pruned, Terminal
<1>. QED BY <1>1 DEF Granted

LEMMA ClaimGrants ==
  ASSUME IInv, NEW w \in Worker, NEW s \in Source, NEW r \in Fresh, NEW t,
         Claim(w, s, r, t)
  PROVE  PublisherStep
<1>1. r \in Run /\ run[r].status = "absent"
  BY DEF Fresh, Unused
<1>2. \A g \in Granted : g < r
  BY <1>1 DEF Granted, IInv, IdsInOrder
<1>3. \A q \in Run : run'[q].status # "absent" <=> (run[q].status # "absent" \/ q = r)
  <2> SUFFICES ASSUME NEW q \in Run
               PROVE  run'[q].status # "absent" <=> (run[q].status # "absent" \/ q = r)
    OBVIOUS
  <2>1. CASE q = r
    <3>1. run'[q] = NewRun(s, worker[w].kind, t)
      BY <1>1, <2>1 DEF Claim, Superseded
    <3>. QED BY <2>1, <3>1 DEF NewRun, AbsentRun
  <2>2. CASE q # r
    <3>1. run'[q] = Superseded(s, t)[q]
      BY <1>1, <2>2 DEF Claim, Superseded
    <3>2. run[q] \in RunRow
      BY DEF IInv, TypeOK
    <3>. QED BY <2>2, <3>1, <3>2 DEF Superseded, RunRow
  <2>. QED BY <2>1, <2>2
<1>4. Granted' = Granted \union {r}
  BY <1>1, <1>3 DEF Granted
<1>5. Publisher!Grant(s, r)
  BY <1>1, <1>2, <1>4 DEF Publisher!Grant, Granted, Claim
<1>. QED BY <1>1, <1>5 DEF PublisherStep, Publisher!Next

\* The run that ends was granted before.
LEMMA FinalizeGrants ==
  ASSUME IInv, NEW w \in Worker, NEW row, Finalize(w, row), worker[w].run \in Run,
         run[worker[w].run].status = "running", row.status \in Terminal
  PROVE  Granted' = Granted
<1>1. \A q \in Run : run'[q].status # "absent" <=> run[q].status # "absent"
  BY DEF IInv, TypeOK, Finalize, Terminal
<1>. QED BY <1>1 DEF Granted

LEMMA FinalizeReleases ==
  ASSUME IInv, NEW w \in Worker, NEW row, Finalize(w, row), UNCHANGED published,
         worker[w].run \in Run, worker[w].source \in Source,
         token[worker[w].source] = worker[w].run,
         run[worker[w].run].status = "running", row.status \in Terminal
  PROVE  PublisherStep
<1>1. token[worker[w].source] # 0
  BY SetAssumption
<1>2. Publisher!Release(worker[w].source)
  BY <1>1, FinalizeGrants
     DEF Finalize, Granted, NoRun, Publisher!Release, Publisher!NoClaim
<1>. QED BY <1>2 DEF PublisherStep, Publisher!Next

LEMMA PublishMaps ==
  ASSUME IInv, NEW w \in Worker, Publish(w)
  PROVE  PublisherStep
<1> DEFINE s == worker[w].source
<1>1. /\ worker[w] \in WorkerRow /\ s \in Source /\ worker[w].run \in Run
      /\ token[s] = worker[w].run
  BY DEF IInv, TypeOK, WorkerInv, Publish, At, Working
<1>2. run[worker[w].run].status = "running" /\ run[worker[w].run] \in RunRow
  <2>1. worker[w].run # NoRun
    BY <1>1, SetAssumption DEF NoRun
  <2>2. worker[w].run \in Running(s)
    BY <1>1, <2>1 DEF IInv, ClaimIsTheRunningRun
  <2>. QED BY <2>2 DEF Running, IInv, TypeOK
<1>3. CASE /\ \E f \in Refreshes(s) : Finalize(w, SucceededRow(w, f))
           /\ published' = [published EXCEPT ![s] = worker[w].run]
  <2>1. PICK f \in Refreshes(s) : Finalize(w, SucceededRow(w, f))
    BY <1>3
  <2>2. SucceededRow(w, f).status \in Terminal
    BY <1>2 DEF SucceededRow, RunRow, Terminal
  <2>3. Granted' = Granted
    BY <1>1, <1>2, <2>1, <2>2, FinalizeGrants
  <2>4. token[s] # 0
    BY <1>1, SetAssumption
  <2>5. Publisher!Publish(s)
    BY <1>1, <1>3, <2>1, <2>3, <2>4
       DEF Finalize, Granted, NoRun, Publisher!Publish, Publisher!NoClaim
  <2>. QED BY <1>1, <2>5 DEF PublisherStep, Publisher!Next
<1>4. CASE Finalize(w, FailedRow(w, "review")) /\ UNCHANGED published
  <2>1. FailedRow(w, "review").status \in Terminal
    BY <1>2 DEF FailedRow, RunRow, Terminal
  <2>. QED BY <1>1, <1>2, <1>4, <2>1, FinalizeReleases
<1>5. CASE UNCHANGED <<now, sourceVars, run>>
  BY <1>5 DEF PublisherStep, Stutter, sourceVars, Granted
<1>. QED BY <1>3, <1>4, <1>5 DEF Publish

LEMMA FailMaps ==
  ASSUME IInv, NEW w \in Worker, Fail(w)
  PROVE  PublisherStep
<1> DEFINE s == worker[w].source
<1>1. worker[w] \in WorkerRow /\ s \in Source /\ worker[w].run \in Run
  BY DEF IInv, TypeOK, WorkerInv, Fail, At, Working
<1>2. CASE UNCHANGED <<now, sourceVars, run>>
  BY <1>2 DEF PublisherStep, Stutter, sourceVars, Granted
<1>3. CASE /\ IsCurrentClaim(w)
           /\ Finalize(w, FailedRow(w, worker[w].code))
           /\ UNCHANGED published
  <2>1. token[s] = worker[w].run /\ run[worker[w].run].status = "running"
    BY <1>1, <1>3, CurrentClaimIsARun DEF IInv
  <2>2. run[worker[w].run] \in RunRow
    BY <1>1 DEF IInv, TypeOK
  <2>3. FailedRow(w, worker[w].code).status \in Terminal
    BY <2>2 DEF FailedRow, RunRow, Terminal
  <2>. QED BY <1>1, <1>3, <2>1, <2>3, FinalizeReleases
<1>. QED BY <1>2, <1>3 DEF Fail

LEMMA StepMaps ==
  ASSUME IInv, NEW w \in Worker, Step(w)
  PROVE  PublisherStep
<1>1. CASE Acquire(w)
  <2>1. worker[w].source \in Source
    BY <1>1 DEF IInv, WorkerInv, Acquire, At
  <2>2. CASE UNCHANGED <<now, sourceVars, run>>
    BY <2>2 DEF PublisherStep, Stutter, sourceVars, Granted
  <2>3. CASE \E r \in Fresh : Claim(w, worker[w].source, r, worker[w].at)
    BY <2>1, <2>3, ClaimGrants
  <2>. QED BY <1>1, <2>2, <2>3 DEF Acquire
<1>2. ASSUME NEW c \in worker[w].todo, PollNext(w, c) PROVE PublisherStep
  <2>1. c.source \in Source
    <3>1. worker[w] \in WorkerRow
      BY DEF IInv, TypeOK
    <3>2. c \in CandidateRow
      BY <3>1 DEF WorkerRow
    <3>. QED BY <3>2 DEF CandidateRow
  <2>2. CASE UNCHANGED <<now, sourceVars, run>>
    BY <2>2 DEF PublisherStep, Stutter, sourceVars, Granted
  <2>3. CASE \E r \in Fresh : Claim(w, c.source, r, worker[w].at)
    BY <2>1, <2>3, ClaimGrants
  <2>. QED BY <1>2, <2>2, <2>3 DEF PollNext
<1>3. CASE \/ PollEnds(w) \/ Fetch(w) \/ ConfirmEmpty(w) \/ BeginCommit(w)
           \/ LockCanteen(w) \/ LockSource(w) \/ BeginFail(w)
  BY <1>3 DEF PollEnds, Fetch, ConfirmEmpty, BeginCommit, LockCanteen, LockSource,
     BeginFail, PublisherStep, Stutter, sourceVars, Granted
<1>. QED BY <1>1, <1>2, <1>3, PublishMaps, FailMaps DEF Step

LEMMA NextMaps ==
  ASSUME IInv, [Next]_vars
  PROVE  PublisherStep
<1>1. ASSUME NEW w \in Worker, BeginPoll(w) PROVE PublisherStep
  BY <1>1, PrunedGrants DEF BeginPoll, PublisherStep, Stutter, sourceVars
<1>2. ASSUME NEW w \in Worker, NEW s \in Source, BeginAcquire(w, s) PROVE PublisherStep
  BY <1>2, PrunedGrants DEF BeginAcquire, PublisherStep, Stutter, sourceVars
<1>3. ASSUME NEW w \in Worker, Stop(w) PROVE PublisherStep
  BY <1>3 DEF Stop, PublisherStep, Stutter, sourceVars, Granted
<1>4. CASE \/ \E s \in Switchable : ConfigureSource(s) \/ DisableSource(s)
           \/ Tick \/ UNCHANGED vars
  BY <1>4 DEF ConfigureSource, DisableSource, Tick, vars, PublisherStep, Stutter,
     sourceVars, Granted
<1>. QED BY <1>1, <1>2, <1>3, <1>4, StepMaps DEF Next

(* For any sources, workers and runs: a reader of the menus sees claims    *)
(* granted in order, at most one of them publishing, each once, so that    *)
(* no menu is replaced by what an earlier claim observed.                  *)
THEOREM Refinement == Spec => PublishesAsSpecified
<1>1. Init => Publisher!Init
  BY DEF Init, Publisher!Init, AbsentRun, NoRun, Publisher!NoClaim
<1>2. IInv /\ [Next]_vars => [Publisher!Next]_Publisher!pvars
  BY NextMaps DEF PublisherStep, Stutter, Granted, Publisher!pvars
<1>. QED BY <1>1, <1>2, Invariance, PTL DEF Spec, PublishesAsSpecified, Publisher!Spec

-----------------------------------------------------------------------------
(* The history of runs: what its rows say, and what invocations rely on.   *)

\* What a row of the history says at each point of its life.
FailedShape(row) == row.code \in FailureCode \union {"superseded"} /\ row.menu = NoMenu
SucceededShape(row) == row.code = "none" /\ row.menu # NoMenu

RowOK(r) ==
  LET row == run[r]
  IN  IF row.status = "absent" THEN row = AbsentRun
      ELSE /\ row.source \in Source
           /\ row.startedAt \in Nat /\ row.startedAt <= now
           /\ row.status = "running" => row.code = "none" /\ row.menu = NoMenu
           /\ row.status # "running" => /\ row.completedAt \in Nat
                                        /\ row.startedAt <= row.completedAt
                                        /\ row.completedAt <= now
           /\ row.status = "failed" => FailedShape(row)
           /\ row.status \in Succeeded => SucceededShape(row)
           /\ row.status = "pruned" => /\ FailedShape(row) \/ SucceededShape(row)
                                       /\ row.completedAt + Retention < now

\* A claim lasts from the start of its run; the running run of a source is its
\* newest.
ClaimsOK ==
  /\ \A s \in Source : token[s] # NoRun =>
       expires[s] = run[token[s]].startedAt + ClaimDuration
  /\ \A p, r \in Run :
       /\ p < r /\ run[p].source = run[r].source
       /\ run[p].status = "running"
       => run[r].status = "absent"

Transacting == {"acquire", "poll", "lock canteen", "lock source", "publish", "failing"}
Committing == {"commit", "lock canteen", "lock source", "publish"}

\* What an invocation remembers of times, of its run and of the provider.
MemoryRow(me, t, rows, expiry) ==
  /\ me.pc \in Transacting => me.at \in Nat /\ me.at <= t
  /\ me.pc = "poll" => t <= me.at + PollDuration
  /\ me.pc = "acquire" => me.kind = "manual"
  /\ me.pc \in Working => /\ rows[me.run].status # "absent"
                          /\ rows[me.run].source = me.source
  /\ me.pc \in {"lock canteen", "lock source", "publish", "failing"} =>
       rows[me.run].startedAt <= me.at
  /\ me.pc \in Committing \union {"confirm"} => me.menu # NoMenu
  /\ me.pc \in {"fail", "failing"} => me.code \in FailureCode
  /\ me.pc = "publish" => expiry[me.source] > me.at

MemoryOK(w) == MemoryRow(worker[w], now, run, expires)

\* The time up to which the history an invocation has read may be pruned.
ReadingTime(w) == IF worker[w].pc = "commit" THEN now ELSE worker[w].at

\* Among these rows, run p confirms that run r, with key k, saw an empty menu.
Confirms(rows, p, r, k) ==
  /\ p # r
  /\ rows[p].source = rows[r].source
  /\ rows[p].code = "empty-pending"
  /\ rows[p].key = k
  /\ MealPeriod(rows[p].startedAt) = MealPeriod(rows[r].startedAt)
  /\ rows[r].startedAt - rows[p].startedAt \in EmptyMin .. EmptyMax

\* The runs of the source that started between p and r.
Between(rows, p, r) ==
  {q \in Run : /\ q < r /\ rows[q].source = rows[r].source
               /\ rows[p].startedAt < rows[q].startedAt
               /\ rows[q].startedAt < rows[r].startedAt}

\* Only rows that may be pruned at time t are not seen between them.
ConfirmedAt(rows, r, k, t) ==
  \E p \in Run : /\ Confirms(rows, p, r, k)
                 /\ \A q \in Between(rows, p, r) : rows[q].startedAt + Retention < t

\* An empty menu that is about to be published has been confirmed.
EmptyOK(w) ==
  /\ worker[w].pc \in Committing /\ worker[w].menu = EmptyMenu
  /\ run[worker[w].run].status = "running"
  => ConfirmedAt(run, worker[w].run, worker[w].key, ReadingTime(w))

\* The successes a run was claimed after, and the time it was due.
SuccessesBefore(r) ==
  {x \in Run : /\ x < r /\ run[x].source = run[r].source /\ run[x].menu # NoMenu
               /\ WindowAccepts(run[r].startedAt, run[x].startedAt)}

DueOf(r) ==
  IF SuccessesBefore(r) = {} THEN {ClaimsStart(run[r].startedAt)}
  ELSE UNION {NextObservationAt(run[r].startedAt, run[x].startedAt,
                                run[r].source \in Scoped, run[x].refresh)
                : x \in Latest(SuccessesBefore(r))}

CountedBefore(r) == FailuresUpTo(r) \ {r}

\* A scheduled run was due, its source had failures left, and the pause after
\* the last failure was over.
SpacedOK(r) ==
  run[r].by = "cron" /\ run[r].source \notin Scoped =>
    \A p \in Latest(FailuresBefore(r)) :
      run[r].startedAt >= run[p].completedAt + PauseAfter(p, r)

ScheduleOK(r) ==
  /\ run[r].by = "cron" =>
       /\ WindowAccepts(run[r].startedAt, run[r].startedAt)
       /\ \E due \in DueOf(r) : due <= run[r].startedAt
       /\ Cardinality(CountedBefore(r)) < MaxWindowFailures
  /\ SpacedOK(r)

HInv ==
  /\ \A r \in Run : RowOK(r)
  /\ ClaimsOK
  /\ \A w \in Worker : MemoryOK(w)
  /\ \A w \in Worker : EmptyOK(w)
  /\ EmptyMenuConfirmed
  /\ \A r \in Run : ScheduleOK(r)

-----------------------------------------------------------------------------
(* How a step changes the history. *)

\* The history is pruned, or only invocations, switches and the clock change.
Prunes ==
  /\ \E sources \in SUBSET Source : run' = Pruned(sources, now)
  /\ UNCHANGED <<now, token, expires>>

Leaves == run' = run /\ now' \in Nat /\ now' >= now /\ UNCHANGED <<token, expires>>

\* A free source that is due, or that a script named, is claimed.
Claims(w, s, r) ==
  /\ sourceLock[s] = NoOne
  /\ ~ClaimActive(s, worker[w].at)
  /\ \/ worker[w].pc = "acquire"
     \/ /\ worker[w].pc = "poll"
        /\ \E d \in Candidate(s, worker[w].at) : d.state = "claimable"
  /\ Claim(w, s, r, worker[w].at)

\* The claim of w ends as `row`.
Ends(w, row) ==
  /\ worker[w].run \in Run
  /\ worker[w].source \in Source
  /\ token[worker[w].source] = worker[w].run
  /\ run[worker[w].run].status = "running"
  /\ run[worker[w].run].source = worker[w].source
  /\ sourceLock[worker[w].source] \in {NoOne, w}
  /\ Finalize(w, row)

Succeeds(w) ==
  worker[w].pc = "publish" /\ \E f \in Refreshes(worker[w].source) : Ends(w, SucceededRow(w, f))

Fails(w) ==
  /\ worker[w].pc \in {"publish", "failing"}
  /\ \E c \in FailureCode : Ends(w, FailedRow(w, c))

Changes ==
  \/ Prunes
  \/ Leaves
  \/ \E w \in Worker, s \in Source : \E r \in Fresh : Claims(w, s, r)
  \/ \E w \in Worker : Succeeds(w) \/ Fails(w)

LEMMA HistoryChanges ==
  ASSUME IInv, HInv, [Next]_vars
  PROVE  Changes
<1>0. now \in Nat
  BY DEF IInv, TypeOK
<1>1. ASSUME NEW w \in Worker, BeginPoll(w) PROVE Changes
  <2>1. Prunes
    BY <1>1 DEF BeginPoll, Prunes, sourceVars
  <2>. QED BY <2>1 DEF Changes
<1>2. ASSUME NEW w \in Worker, NEW s \in Source, BeginAcquire(w, s) PROVE Changes
  <2>1. Prunes
    BY <1>2 DEF BeginAcquire, Prunes, sourceVars
  <2>. QED BY <2>1 DEF Changes
<1>3. ASSUME UNCHANGED <<now, sourceVars, run>> PROVE Changes
  BY <1>0, <1>3 DEF sourceVars, Leaves, Changes
<1>4. ASSUME NEW w \in Worker, Acquire(w) PROVE Changes
  <2>1. worker[w].source \in Source
    BY <1>4 DEF IInv, WorkerInv, Acquire, At
  <2>2. CASE \E r \in Fresh : Claim(w, worker[w].source, r, worker[w].at)
    <3>1. PICK r \in Fresh : Claim(w, worker[w].source, r, worker[w].at)
      BY <2>2
    <3>2. CASE ~ClaimActive(worker[w].source, worker[w].at)
      <4>1. Claims(w, worker[w].source, r)
        BY <1>4, <3>1, <3>2 DEF Acquire, Claims, At
      <4>. QED BY <2>1, <4>1 DEF Changes
    <3>3. CASE ClaimActive(worker[w].source, worker[w].at)
      BY <1>3, <1>4, <3>3 DEF Acquire
    <3>. QED BY <3>2, <3>3
  <2>. QED BY <1>3, <1>4, <2>2 DEF Acquire
<1>5. ASSUME NEW w \in Worker, NEW c \in worker[w].todo, PollNext(w, c) PROVE Changes
  <2>1. c.source \in Source
    <3>1. worker[w] \in WorkerRow
      BY DEF IInv, TypeOK
    <3>2. c \in CandidateRow
      BY <3>1 DEF WorkerRow
    <3>. QED BY <3>2 DEF CandidateRow
  <2>2. CASE UNCHANGED <<now, sourceVars, run>>
    BY <1>3, <2>2
  <2>3. CASE ~UNCHANGED <<now, sourceVars, run>>
    <3>1. PICK r \in Fresh : Claim(w, c.source, r, worker[w].at)
      BY <1>5, <2>3 DEF PollNext
    <3>2. Claims(w, c.source, r)
      BY <1>5, <2>3, <3>1 DEF PollNext, Claims, At, Recheck
    <3>. QED BY <2>1, <3>2 DEF Changes
  <2>. QED BY <2>2, <2>3
<1>6. ASSUME NEW w \in Worker, Publish(w) PROVE Changes
  <2> DEFINE s == worker[w].source
  <2>1. /\ s \in Source /\ worker[w].run \in Run
        /\ sourceLock[s] = w /\ token[s] = worker[w].run
    BY <1>6 DEF IInv, TypeOK, WorkerInv, Publish, At, Working
  <2>2. run[worker[w].run].status = "running" /\ run[worker[w].run].source = s
    <3>1. worker[w].run # NoRun
      BY <2>1, SetAssumption DEF NoRun
    <3>2. worker[w].run \in Running(s)
      BY <2>1, <3>1 DEF IInv, ClaimIsTheRunningRun
    <3>. QED BY <3>2 DEF Running
  <2>3. ASSUME NEW f \in Refreshes(s), Finalize(w, SucceededRow(w, f)) PROVE Changes
    BY <1>6, <2>1, <2>2, <2>3 DEF Changes, Succeeds, Ends, Publish, At
  <2>4. ASSUME Finalize(w, FailedRow(w, "review")) PROVE Changes
    BY <1>6, <2>1, <2>2, <2>4 DEF Changes, Fails, Ends, Publish, At, FailureCode
  <2>. QED BY <1>3, <1>6, <2>3, <2>4 DEF Publish
<1>7. ASSUME NEW w \in Worker, Fail(w) PROVE Changes
  <2> DEFINE s == worker[w].source
  <2>1. s \in Source /\ worker[w].run \in Run /\ worker[w].pc = "failing"
    BY <1>7 DEF IInv, TypeOK, WorkerInv, Fail, At, Working
  <2>2. CASE IsCurrentClaim(w) /\ Finalize(w, FailedRow(w, worker[w].code))
    <3>1. /\ token[s] = worker[w].run
          /\ run[worker[w].run].source = s
          /\ run[worker[w].run].status = "running"
      BY <2>1, <2>2, CurrentClaimIsARun DEF IInv
    <3>2. sourceLock[s] = NoOne /\ worker[w].code \in FailureCode
      BY <1>7, <2>1 DEF Fail, HInv, MemoryOK, MemoryRow
    <3>. QED BY <2>1, <2>2, <3>1, <3>2 DEF Changes, Fails, Ends
  <2>. QED BY <1>3, <1>7, <2>2 DEF Fail
<1>8. ASSUME NEW w \in Worker, Step(w) PROVE Changes
  <2>1. CASE \/ PollEnds(w) \/ Fetch(w) \/ ConfirmEmpty(w) \/ BeginCommit(w)
             \/ LockCanteen(w) \/ LockSource(w) \/ BeginFail(w)
    BY <1>3, <2>1 DEF PollEnds, Fetch, ConfirmEmpty, BeginCommit, LockCanteen, LockSource,
       BeginFail
  <2>. QED BY <1>4, <1>5, <1>6, <1>7, <1>8, <2>1 DEF Step
<1>9. ASSUME NEW w \in Worker, Stop(w) PROVE Changes
  BY <1>3, <1>9 DEF Stop
<1>10. CASE \/ \E s \in Switchable : ConfigureSource(s) \/ DisableSource(s)
            \/ Tick \/ UNCHANGED vars
  <2>1. Leaves
    BY <1>0, <1>10 DEF ConfigureSource, DisableSource, Tick, vars, sourceVars, Leaves
  <2>. QED BY <2>1 DEF Changes
<1>. QED BY <1>1, <1>2, <1>8, <1>9, <1>10 DEF Next

\* What every step keeps of the history: who claimed a row and when, and all of
\* a row that has ended but whether it is pruned.
Kept ==
  /\ now' >= now
  /\ \A q \in Run : run[q].status # "absent" =>
       /\ run'[q].status # "absent"
       /\ run'[q].source = run[q].source
       /\ run'[q].by = run[q].by
       /\ run'[q].startedAt = run[q].startedAt
       /\ run[q].status # "running" =>
            /\ run'[q].status # "running"
            /\ run'[q].completedAt = run[q].completedAt
            /\ run'[q].code = run[q].code
            /\ run'[q].menu = run[q].menu
            /\ run'[q].key = run[q].key
            /\ run'[q].refresh = run[q].refresh

SupersededRow(row, t) ==
  [row EXCEPT !.status = "failed", !.code = "superseded", !.completedAt = t]

LEMMA ClaimRows ==
  ASSUME IInv, NEW w \in Worker, NEW s \in Source, NEW r \in Fresh, Claims(w, s, r)
  PROVE  /\ r \in Run
         /\ run[r].status = "absent"
         /\ run'[r] = NewRun(s, worker[w].kind, worker[w].at)
         /\ \A q \in Run : q # r =>
              run'[q] = IF q = token[s] /\ run[q].status = "running"
                          THEN SupersededRow(run[q], worker[w].at)
                          ELSE run[q]
         /\ now' = now
<1>1. r \in Run /\ run[r].status = "absent"
  BY DEF Fresh, Unused
<1>2. /\ run' = [Superseded(s, worker[w].at) EXCEPT ![r] = NewRun(s, worker[w].kind, worker[w].at)]
      /\ now' = now
  BY DEF Claims, Claim
<1>. QED BY <1>1, <1>2 DEF Superseded, SupersededRow

LEMMA ClaimedRow ==
  ASSUME IInv, HInv, NEW w \in Worker, NEW s \in Source, NEW r \in Fresh, Claims(w, s, r)
  PROVE  /\ r \in Run
         /\ run'[r].source = s
         /\ run'[r].startedAt = worker[w].at
         /\ run'[r].by = worker[w].kind
         /\ run'[r].status = "running"
         /\ run'[r].menu = NoMenu
         /\ worker[w].at \in Nat /\ worker[w].at <= now
<1>1. r \in Run /\ run'[r] = NewRun(s, worker[w].kind, worker[w].at)
  BY ClaimRows
<1>2. worker[w].at \in Nat /\ worker[w].at <= now
  BY DEF Claims, HInv, MemoryOK, MemoryRow, Transacting
<1>. QED BY <1>1, <1>2 DEF NewRun, AbsentRun

LEMMA EndRows ==
  ASSUME IInv, NEW w \in Worker, NEW row, Ends(w, row)
  PROVE  /\ worker[w].run \in Run
         /\ run[worker[w].run] \in RunRow
         /\ run[worker[w].run].status = "running"
         /\ \A q \in Run : run'[q] = IF q = worker[w].run THEN row ELSE run[q]
         /\ now' = now
BY DEF Ends, Finalize, IInv, TypeOK

\* The row a claim ends as.
LEMMA SucceededRowFields ==
  ASSUME IInv, NEW w \in Worker, worker[w].run \in Run, NEW f
  PROVE  LET row == SucceededRow(w, f)
             old == run[worker[w].run]
         IN  /\ row.status \in Succeeded
             /\ row.source = old.source /\ row.by = old.by
             /\ row.startedAt = old.startedAt
             /\ row.code = old.code
             /\ row.completedAt = worker[w].at
             /\ row.menu = worker[w].menu
             /\ row.key = worker[w].key
             /\ row.refresh = f
<1>1. run[worker[w].run] \in RunRow
  BY DEF IInv, TypeOK
<1>. QED BY <1>1 DEF SucceededRow, RunRow, Succeeded

LEMMA FailedRowFields ==
  ASSUME IInv, NEW w \in Worker, worker[w].run \in Run, NEW c
  PROVE  LET row == FailedRow(w, c)
             old == run[worker[w].run]
         IN  /\ row.status = "failed"
             /\ row.source = old.source /\ row.by = old.by
             /\ row.startedAt = old.startedAt
             /\ row.code = c
             /\ row.completedAt = worker[w].at
             /\ row.menu = old.menu
<1>1. run[worker[w].run] \in RunRow
  BY DEF IInv, TypeOK
<1>. QED BY <1>1 DEF FailedRow, RunRow

LEMMA SupersededFields ==
  ASSUME NEW row \in RunRow, NEW t
  PROVE  LET new == SupersededRow(row, t)
         IN  /\ new.status = "failed" /\ new.code = "superseded" /\ new.completedAt = t
             /\ new.source = row.source /\ new.by = row.by
             /\ new.startedAt = row.startedAt /\ new.menu = row.menu
BY DEF SupersededRow, RunRow

LEMMA PrunedFields ==
  ASSUME IInv, NEW sources, NEW t, NEW q \in Run, run' = Pruned(sources, t)
  PROVE  /\ \/ run'[q].status = run[q].status
            \/ /\ run[q].status \in Terminal /\ run'[q].status = "pruned"
               /\ run[q].completedAt < t - Retention
         /\ run'[q].source = run[q].source
         /\ run'[q].by = run[q].by
         /\ run'[q].startedAt = run[q].startedAt
         /\ run'[q].completedAt = run[q].completedAt
         /\ run'[q].code = run[q].code
         /\ run'[q].menu = run[q].menu
         /\ run'[q].key = run[q].key
         /\ run'[q].refresh = run[q].refresh
<1>1. run[q] \in RunRow
  BY DEF IInv, TypeOK
<1>. QED BY <1>1 DEF Pruned, RunRow

LEMMA HistoryKept ==
  ASSUME IInv, HInv, Changes
  PROVE  Kept
<1>0. now \in Nat /\ \A q \in Run : run[q] \in RunRow
  BY DEF IInv, TypeOK
<1>1. CASE Prunes
  <2>1. PICK sources \in SUBSET Source : run' = Pruned(sources, now)
    BY <1>1 DEF Prunes
  <2>2. now' = now
    BY <1>1 DEF Prunes
  <2>. QED BY <1>0, <2>1, <2>2, PrunedFields DEF Kept, Terminal
<1>2. CASE Leaves
  BY <1>0, <1>2 DEF Leaves, Kept
<1>3. ASSUME NEW w \in Worker, NEW s \in Source, NEW r \in Fresh, Claims(w, s, r)
      PROVE  Kept
  <2>1. /\ run[r].status = "absent"
        /\ \A q \in Run : q # r =>
              run'[q] = IF q = token[s] /\ run[q].status = "running"
                          THEN SupersededRow(run[q], worker[w].at)
                          ELSE run[q]
        /\ now' = now
    BY <1>3, ClaimRows
  <2> SUFFICES ASSUME NEW q \in Run, run[q].status # "absent"
               PROVE  /\ run'[q].status # "absent"
                      /\ run'[q].source = run[q].source
                      /\ run'[q].by = run[q].by
                      /\ run'[q].startedAt = run[q].startedAt
                      /\ run[q].status # "running" => run'[q] = run[q]
    <3>1. now' >= now
      BY <1>0, <2>1
    <3>. QED BY <3>1 DEF Kept
  <2>2. CASE q = token[s] /\ run[q].status = "running"
    BY <1>0, <2>1, <2>2, SupersededFields
  <2>3. CASE ~(q = token[s] /\ run[q].status = "running")
    BY <2>1, <2>3
  <2>. QED BY <2>2, <2>3
<1>4. ASSUME NEW w \in Worker, NEW row, Ends(w, row), row.status \in Terminal,
             row.source = run[worker[w].run].source,
             row.by = run[worker[w].run].by,
             row.startedAt = run[worker[w].run].startedAt
      PROVE  Kept
  BY <1>0, <1>4, EndRows DEF Kept, Terminal
<1>5. ASSUME NEW w \in Worker, Succeeds(w) PROVE Kept
  <2>1. PICK f : Ends(w, SucceededRow(w, f))
    BY <1>5 DEF Succeeds
  <2>2. worker[w].run \in Run
    BY <2>1 DEF Ends
  <2>. QED BY <1>4, <2>1, <2>2, SucceededRowFields DEF Succeeded, Terminal
<1>6. ASSUME NEW w \in Worker, Fails(w) PROVE Kept
  <2>1. PICK c \in FailureCode : Ends(w, FailedRow(w, c))
    BY <1>6 DEF Fails
  <2>2. worker[w].run \in Run
    BY <2>1 DEF Ends
  <2>. QED BY <1>4, <2>1, <2>2, FailedRowFields DEF Terminal
<1>. QED BY <1>1, <1>2, <1>3, <1>5, <1>6 DEF Changes

-----------------------------------------------------------------------------
(* The rows and the claims stay in order. *)

LEMMA RowsStayOK ==
  ASSUME IInv, HInv, Changes
  PROVE  \A r \in Run : RowOK(r)'
<1>0. now \in Nat /\ Retention \in Nat /\ \A q \in Run : run[q] \in RunRow /\ RowOK(q)
  BY LifetimeAssumption DEF IInv, TypeOK, HInv
<1>1. CASE Prunes
  <2>1. PICK sources \in SUBSET Source : run' = Pruned(sources, now)
    BY <1>1 DEF Prunes
  <2>2. now' = now
    BY <1>1 DEF Prunes
  <2> TAKE r \in Run
  <2>3. CASE run[r].status = "absent"
    BY <1>0, <2>1, <2>3 DEF Pruned, RowOK, Terminal
  <2>4. CASE run[r].status # "absent"
    <3>1. /\ \/ run'[r].status = run[r].status
             \/ /\ run[r].status \in Terminal /\ run'[r].status = "pruned"
                /\ run[r].completedAt < now - Retention
          /\ run'[r].source = run[r].source
          /\ run'[r].startedAt = run[r].startedAt
          /\ run'[r].completedAt = run[r].completedAt
          /\ run'[r].code = run[r].code
          /\ run'[r].menu = run[r].menu
      BY <2>1, PrunedFields
    <3>. QED BY <1>0, <2>2, <2>4, <3>1
             DEF RowOK, FailedShape, SucceededShape, Terminal, Succeeded
  <2>. QED BY <2>3, <2>4
<1>2. CASE Leaves
  <2> TAKE r \in Run
  <2>1. run'[r] = run[r] /\ now' >= now /\ now' \in Nat
    BY <1>2, <1>0 DEF Leaves
  <2>. QED BY <1>0, <2>1 DEF RowOK, FailedShape, SucceededShape
<1>3. ASSUME NEW w \in Worker, NEW s \in Source, NEW r \in Fresh, Claims(w, s, r),
             NEW q \in Run
      PROVE  RowOK(q)'
  <2> DEFINE t == worker[w].at
  <2>0. t \in Nat /\ t <= now
    BY <1>3 DEF Claims, HInv, MemoryOK, MemoryRow, Transacting
  <2>1. /\ run[r].status = "absent" /\ r \in Run
        /\ run'[r] = NewRun(s, worker[w].kind, t)
        /\ now' = now
    BY <1>3, ClaimRows
  <2>2. CASE q = r
    BY <2>0, <2>1, <2>2 DEF RowOK, NewRun, AbsentRun, Succeeded
  <2>3. CASE q # r /\ q = token[s] /\ run[q].status = "running"
    <3>1. run'[q] = SupersededRow(run[q], t)
      BY <1>3, <2>3, ClaimRows
    <3>2. /\ run'[q].status = "failed" /\ run'[q].code = "superseded"
          /\ run'[q].completedAt = t
          /\ run'[q].source = run[q].source
          /\ run'[q].startedAt = run[q].startedAt
          /\ run'[q].menu = run[q].menu
      BY <1>0, <3>1, SupersededFields
    <3>3. run[q].startedAt <= t
      <4>1. token[s] # NoRun
        BY <2>3, SetAssumption DEF NoRun
      <4>2. expires[s] = run[q].startedAt + ClaimDuration
        BY <2>3, <4>1 DEF HInv, ClaimsOK
      <4>3. ~(expires[s] > t)
        BY <1>3, <4>1 DEF Claims, ClaimActive
      <4>4. run[q].startedAt \in Nat
        BY <1>0, <2>3 DEF RowOK
      <4>. QED BY <2>0, <4>2, <4>3, <4>4, LifetimeAssumption
    <3>. QED BY <1>0, <2>0, <2>1, <2>3, <3>2, <3>3 DEF RowOK, FailedShape, Succeeded
  <2>4. CASE q # r /\ ~(q = token[s] /\ run[q].status = "running")
    <3>1. run'[q] = run[q]
      BY <1>3, <2>4, ClaimRows
    <3>. QED BY <1>0, <2>1, <3>1 DEF RowOK, FailedShape, SucceededShape
  <2>. QED BY <2>2, <2>3, <2>4
<1>4. ASSUME NEW w \in Worker, NEW row, Ends(w, row),
             worker[w].pc \in {"publish", "failing"},
             \/ row.status = "failed" /\ FailedShape(row)
             \/ row.status \in Succeeded /\ SucceededShape(row),
             row.source = run[worker[w].run].source,
             row.startedAt = run[worker[w].run].startedAt,
             row.completedAt = worker[w].at,
             NEW q \in Run
      PROVE  RowOK(q)'
  <2>1. /\ run'[q] = IF q = worker[w].run THEN row ELSE run[q]
        /\ now' = now
        /\ worker[w].run \in Run /\ run[worker[w].run].status = "running"
    BY <1>4, EndRows
  <2>2. worker[w].at \in Nat /\ worker[w].at <= now /\ run[worker[w].run].startedAt <= worker[w].at
    BY <1>4 DEF HInv, MemoryOK, MemoryRow, Transacting
  <2>3. CASE q = worker[w].run
    <3>1. run'[q] = row /\ row.status \notin {"absent", "running", "pruned"}
      BY <1>4, <2>1, <2>3 DEF Succeeded
    <3>. QED BY <1>0, <1>4, <2>1, <2>2, <2>3, <3>1
             DEF RowOK, FailedShape, SucceededShape, Succeeded
  <2>4. CASE q # worker[w].run
    BY <1>0, <2>1, <2>4 DEF RowOK, FailedShape, SucceededShape
  <2>. QED BY <2>3, <2>4
<1>5. ASSUME NEW w \in Worker, Succeeds(w), NEW q \in Run PROVE RowOK(q)'
  <2>1. PICK f : Ends(w, SucceededRow(w, f))
    BY <1>5 DEF Succeeds
  <2>2. worker[w].run \in Run /\ run[worker[w].run].status = "running" /\ worker[w].pc = "publish"
    BY <1>5, <2>1 DEF Ends, Succeeds
  <2>3. worker[w].menu # NoMenu
    BY <2>2 DEF HInv, MemoryOK, MemoryRow, Committing
  <2>4. run[worker[w].run].code = "none"
    BY <1>0, <2>2 DEF RowOK
  <2> DEFINE row == SucceededRow(w, f)
  <2>5. /\ row.status \in Succeeded
        /\ row.source = run[worker[w].run].source
        /\ row.startedAt = run[worker[w].run].startedAt
        /\ row.code = "none"
        /\ row.completedAt = worker[w].at
        /\ row.menu = worker[w].menu
    BY <2>2, <2>4, SucceededRowFields
  <2> HIDE DEF row
  <2>6. Ends(w, row)
    BY <2>1 DEF row
  <2>. QED BY <1>4, <2>2, <2>3, <2>5, <2>6 DEF SucceededShape
<1>6. ASSUME NEW w \in Worker, Fails(w), NEW q \in Run PROVE RowOK(q)'
  <2>1. PICK c \in FailureCode : Ends(w, FailedRow(w, c))
    BY <1>6 DEF Fails
  <2>2. /\ worker[w].run \in Run /\ run[worker[w].run].status = "running"
        /\ worker[w].pc \in {"publish", "failing"}
    BY <1>6, <2>1 DEF Ends, Fails
  <2>3. run[worker[w].run].menu = NoMenu
    BY <1>0, <2>2 DEF RowOK
  <2> DEFINE row == FailedRow(w, c)
  <2>4. /\ row.status = "failed"
        /\ row.source = run[worker[w].run].source
        /\ row.startedAt = run[worker[w].run].startedAt
        /\ row.code = c
        /\ row.completedAt = worker[w].at
        /\ row.menu = NoMenu
    BY <2>2, <2>3, FailedRowFields
  <2> HIDE DEF row
  <2>5. Ends(w, row)
    BY <2>1 DEF row
  <2>. QED BY <1>4, <2>2, <2>4, <2>5 DEF FailedShape
<1>. QED BY <1>1, <1>2, <1>3, <1>5, <1>6 DEF Changes

\* The rows of the source before a claimed run have ended, and stay what they are.
LEMMA OlderRowsEnded ==
  ASSUME IInv, HInv, NEW r \in Run, run[r].status # "absent",
         NEW q \in Run, q < r, run[q].source = run[r].source
  PROVE  run[q].status \notin {"absent", "running"}
<1>1. run[r].source \in Source
  BY DEF HInv, RowOK
<1>2. run[q].status # "absent"
  BY <1>1, SetAssumption DEF HInv, RowOK, AbsentRun
<1>3. run[q].status # "running"
  BY DEF HInv, ClaimsOK
<1>. QED BY <1>2, <1>3

LEMMA OlderRowsKept ==
  ASSUME IInv, HInv, Kept, NEW r \in Run, run[r].status # "absent",
         NEW q \in Run, q < r
  PROVE  /\ run'[q].source = run'[r].source <=> run[q].source = run[r].source
         /\ run[q].source = run[r].source =>
              /\ run'[q].source = run[q].source
              /\ run'[q].by = run[q].by
              /\ run'[q].startedAt = run[q].startedAt
              /\ run'[q].completedAt = run[q].completedAt
              /\ run'[q].code = run[q].code
              /\ run'[q].menu = run[q].menu
              /\ run'[q].key = run[q].key
              /\ run'[q].refresh = run[q].refresh
<1>1. run[q].status # "absent"
  BY SetAssumption DEF IInv, IdsInOrder
<1>2. run'[r].source = run[r].source /\ run'[q].source = run[q].source
  BY <1>1 DEF Kept
<1>3. run[q].source = run[r].source => run[q].status # "running"
  BY OlderRowsEnded
<1>. QED BY <1>1, <1>2, <1>3 DEF Kept

\* What was decided when a run was claimed stays what it was.
LEMMA ScheduleKept ==
  ASSUME IInv, HInv, Kept, NEW r \in Run, run[r].status # "absent"
  PROVE  ScheduleOK(r)'
<1>1. /\ run'[r].source = run[r].source /\ run'[r].by = run[r].by
      /\ run'[r].startedAt = run[r].startedAt
  BY DEF Kept
<1>2. \A q \in Run : q < r =>
        /\ run'[q].source = run'[r].source <=> run[q].source = run[r].source
        /\ run[q].source = run[r].source =>
              /\ run'[q].by = run[q].by
              /\ run'[q].startedAt = run[q].startedAt
              /\ run'[q].completedAt = run[q].completedAt
              /\ run'[q].code = run[q].code
              /\ run'[q].menu = run[q].menu
              /\ run'[q].refresh = run[q].refresh
  BY OlderRowsKept
<1>3. CountedBefore(r)' = CountedBefore(r)
  <2>1. ASSUME NEW q \in Run, NEW x \in Run, q < r, x < r
        PROVE  (run'[x].source = run'[r].source /\ run'[x].menu # NoMenu)
                 <=> (run[x].source = run[r].source /\ run[x].menu # NoMenu)
    BY <1>2, <2>1
  <2>2. ASSUME NEW q \in Run, q < r
        PROVE  (/\ run'[q].source = run'[r].source
                /\ run'[q].by = "cron" /\ run'[q].code \in {"retryable", "review"}
                /\ WindowStart(run'[q].startedAt) = WindowStart(run'[r].startedAt))
               <=>
               (/\ run[q].source = run[r].source
                /\ run[q].by = "cron" /\ run[q].code \in {"retryable", "review"}
                /\ WindowStart(run[q].startedAt) = WindowStart(run[r].startedAt))
    BY <1>1, <1>2, <2>2
  <2>3. \A q \in Run : q <= r /\ q # r <=> q < r
    BY SetAssumption
  <2>4. CountedBefore(r) =
          {q \in Run : /\ q < r
                       /\ run[q].source = run[r].source
                       /\ run[q].by = "cron" /\ run[q].code \in {"retryable", "review"}
                       /\ WindowStart(run[q].startedAt) = WindowStart(run[r].startedAt)
                       /\ ~\E x \in Run : /\ q < x /\ x < r
                                          /\ run[x].source = run[r].source
                                          /\ run[x].menu # NoMenu}
    BY <2>3 DEF CountedBefore, FailuresUpTo, ScheduledFailure, SameWindow
  <2>5. CountedBefore(r)' =
          {q \in Run : /\ q < r
                       /\ run'[q].source = run'[r].source
                       /\ run'[q].by = "cron" /\ run'[q].code \in {"retryable", "review"}
                       /\ WindowStart(run'[q].startedAt) = WindowStart(run'[r].startedAt)
                       /\ ~\E x \in Run : /\ q < x /\ x < r
                                          /\ run'[x].source = run'[r].source
                                          /\ run'[x].menu # NoMenu}
    BY <2>3 DEF CountedBefore, FailuresUpTo, ScheduledFailure, SameWindow
  <2>6. ASSUME NEW q \in Run, q < r
        PROVE  (\E x \in Run : /\ q < x /\ x < r
                               /\ run'[x].source = run'[r].source
                               /\ run'[x].menu # NoMenu)
               <=> (\E x \in Run : /\ q < x /\ x < r
                                   /\ run[x].source = run[r].source
                                   /\ run[x].menu # NoMenu)
    BY <2>1, <2>6
  <2>. QED BY <2>2, <2>4, <2>5, <2>6
<1>4. SuccessesBefore(r)' = SuccessesBefore(r)
  BY <1>1, <1>2 DEF SuccessesBefore
<1>5. \A x \in SuccessesBefore(r) : /\ run'[x].startedAt = run[x].startedAt
                                    /\ run'[x].refresh = run[x].refresh
  BY <1>2 DEF SuccessesBefore
<1>6. Latest(SuccessesBefore(r))' = Latest(SuccessesBefore(r))
  BY <1>4, <1>5 DEF Latest, Later
<1>7. DueOf(r)' = DueOf(r)
  <2> DEFINE Next1 == {NextObservationAt(run[r].startedAt, run[x].startedAt,
                                run[r].source \in Scoped, run[x].refresh)
                         : x \in Latest(SuccessesBefore(r))}
             Next2 == {NextObservationAt(run'[r].startedAt, run'[x].startedAt,
                                run'[r].source \in Scoped, run'[x].refresh)
                         : x \in Latest(SuccessesBefore(r))}
  <2>1. \A x \in Latest(SuccessesBefore(r)) :
          NextObservationAt(run'[r].startedAt, run'[x].startedAt,
                                run'[r].source \in Scoped, run'[x].refresh)
          = NextObservationAt(run[r].startedAt, run[x].startedAt,
                                run[r].source \in Scoped, run[x].refresh)
    BY <1>1, <1>5 DEF Latest
  <2>2. Next1 = Next2
    BY <2>1
  <2>3. DueOf(r) = IF SuccessesBefore(r) = {} THEN {ClaimsStart(run[r].startedAt)}
                   ELSE UNION Next1
    BY DEF DueOf
  <2>4. DueOf(r)' = IF SuccessesBefore(r) = {} THEN {ClaimsStart(run'[r].startedAt)}
                    ELSE UNION Next2
    BY <1>4, <1>6 DEF DueOf
  <2>. QED BY <1>1, <2>2, <2>3, <2>4
<1>8. FailuresBefore(r)' = FailuresBefore(r)
  BY <1>1, <1>2 DEF FailuresBefore, SameWindow
<1>9. \A p \in FailuresBefore(r) : /\ run'[p].startedAt = run[p].startedAt
                                   /\ run'[p].completedAt = run[p].completedAt
                                   /\ run'[p].code = run[p].code
  BY <1>2 DEF FailuresBefore
<1>10. Latest(FailuresBefore(r))' = Latest(FailuresBefore(r))
  BY <1>8, <1>9 DEF Latest, Later
<1>11. SpacedOK(r)'
  <2>1. SpacedOK(r)
    BY DEF HInv, ScheduleOK
  <2>2. Latest(FailuresBefore(r)) \subseteq FailuresBefore(r)
    BY DEF Latest
  <2> SUFFICES ASSUME run'[r].by = "cron", run'[r].source \notin Scoped,
                      NEW p \in Latest(FailuresBefore(r))
               PROVE  run'[r].startedAt >= run'[p].completedAt + PauseAfter(p, r)'
    BY <1>10 DEF SpacedOK
  <2>3. PauseAfter(p, r)' = PauseAfter(p, r)
    BY <1>8, <1>9, <2>2 DEF PauseAfter
  <2>. QED BY <1>1, <1>9, <2>1, <2>2, <2>3 DEF SpacedOK
<1>12. ScheduleOK(r)
  BY DEF HInv
<1>. QED BY <1>1, <1>3, <1>7, <1>11, <1>12 DEF ScheduleOK

-----------------------------------------------------------------------------
(* Windows, observations and the newest of several runs. *)

LEMMA WindowStartBounds ==
  ASSUME NEW t \in Nat
  PROVE  /\ WindowStart(t) \in Nat
         /\ WindowStart(t) <= t
         /\ t < WindowStart(t) + WindowLength
<1> DEFINE d == t \div WindowLength
<1>1. WindowLength \in Nat /\ WindowLength > 0
  BY WindowAssumption
<1>2. d \in Nat /\ t = WindowLength * d + (t % WindowLength)
      /\ t % WindowLength \in 0 .. WindowLength - 1
  BY <1>1, Z3
<1> HIDE DEF d
<1>4. d * WindowLength = WindowLength * d
  BY <1>1, <1>2
<1>5. d * WindowLength \in Nat
  BY <1>1, <1>2
<1>3. WindowStart(t) = d * WindowLength
  BY DEF WindowStart, d
<1>. QED BY <1>1, <1>2, <1>3, <1>4, <1>5

LEMMA MultiplesInOrder ==
  ASSUME NEW a \in Nat, NEW b \in Nat, NEW n \in Nat, a < b
  PROVE  a * n + n <= b * n
<1> DEFINE c == b - a - 1
<1>1. c \in Nat /\ b = a + 1 + c
  OBVIOUS
<1> HIDE DEF c
<1>2. b * n = a * n + n + c * n
  BY <1>1
<1>3. c * n \in Nat /\ a * n \in Nat
  BY <1>1
<1>. QED BY <1>2, <1>3

LEMMA WindowNamed ==
  ASSUME NEW a \in Nat, NEW t \in Nat
  PROVE  WindowStart(a) = WindowStart(t)
           <=> WindowStart(t) <= a /\ a < WindowEnd(t)
<1> DEFINE d == a \div WindowLength
           e == t \div WindowLength
<1>1. WindowLength \in Nat /\ d \in Nat /\ e \in Nat
  BY WindowAssumption, Z3
<1>2. /\ WindowStart(a) \in Nat /\ WindowStart(a) <= a /\ a < WindowStart(a) + WindowLength
      /\ WindowStart(t) \in Nat /\ WindowStart(t) <= t /\ t < WindowStart(t) + WindowLength
  BY WindowStartBounds
<1>3. WindowStart(a) = d * WindowLength /\ WindowStart(t) = e * WindowLength
  BY DEF WindowStart
<1> HIDE DEF d, e
<1>4. CASE d < e
  <2>1. d * WindowLength + WindowLength <= e * WindowLength
    BY <1>1, <1>4, MultiplesInOrder
  <2>. QED BY <1>1, <1>2, <1>3, <2>1 DEF WindowEnd
<1>5. CASE e < d
  <2>1. e * WindowLength + WindowLength <= d * WindowLength
    BY <1>1, <1>5, MultiplesInOrder
  <2>. QED BY <1>1, <1>2, <1>3, <2>1 DEF WindowEnd
<1>6. CASE d = e
  BY <1>1, <1>2, <1>3, <1>6 DEF WindowEnd
<1>. QED BY <1>1, <1>4, <1>5, <1>6

\* A time accepted by its own window is accepted by every time of that window.
LEMMA AcceptedInWindow ==
  ASSUME NEW a \in Nat, NEW t \in Nat, WindowStart(a) = WindowStart(t), NEW x
  PROVE  /\ ClaimsStart(a) = ClaimsStart(t)
         /\ WindowEnd(a) = WindowEnd(t)
         /\ WindowAccepts(a, x) <=> WindowAccepts(t, x)
BY DEF ClaimsStart, WindowEnd, WindowAccepts

\* In one window, an observation has at most one next observation.
LEMMA NextObservationUnique ==
  ASSUME NEW a \in Nat, NEW t \in Nat, WindowStart(a) = WindowStart(t),
         NEW x \in Nat, NEW scoped, NEW refresh \in Refresh \union {NoRefresh},
         NEW d \in NextObservationAt(a, x, scoped, refresh),
         NEW e \in NextObservationAt(t, x, scoped, refresh)
  PROVE  d = e /\ scoped
<1> DEFINE atBoundary ==
             IF refresh.boundary = Never THEN {}
             ELSE {IF refresh.boundary < MinRepeat
                     THEN x + MinRepeat ELSE x + refresh.boundary}
           C == {x + RefreshAfter} \union atBoundary
<1>1. refresh.boundary \in Nat \union {Never}
  BY SetAssumption DEF NoRefresh
<1>2. C \subseteq Int
  BY <1>1, DelayAssumption DEF Never
<1>3. /\ d \in EarliestOf({c \in C : WindowAccepts(a, c)})
      /\ e \in EarliestOf({c \in C : WindowAccepts(t, c)})
      /\ scoped
  BY DEF NextObservationAt
<1> HIDE DEF C, atBoundary
<1>4. {c \in C : WindowAccepts(a, c)} = {c \in C : WindowAccepts(t, c)}
  BY AcceptedInWindow
<1>5. d \in C /\ e \in C /\ d <= e /\ e <= d
  BY <1>3, <1>4 DEF EarliestOf
<1>. QED BY <1>2, <1>3, <1>5

LEMMA LatestUnique ==
  ASSUME NEW runs \in SUBSET Run, \A x \in runs : run[x].startedAt \in Nat,
         NEW x \in Latest(runs), NEW y \in Latest(runs)
  PROVE  x = y
<1>1. x \in runs /\ y \in runs /\ x \in Nat /\ y \in Nat
  BY SetAssumption DEF Latest
<1>2. x # y => Later(x, y) /\ Later(y, x)
  BY <1>1 DEF Latest
<1>. QED BY <1>1, <1>2 DEF Later

-----------------------------------------------------------------------------
(* A run that a poll claims is due, within the budget and spaced. *)

\* The history of its source, as the claim leaves it.
LEMMA ClaimedHistory ==
  ASSUME IInv, HInv, Kept, NEW w \in Worker, NEW s \in Source, NEW r \in Fresh,
         Claims(w, s, r), NEW q \in Run
  PROVE  /\ q < r /\ run'[q].source = s <=> run[q].source = s
         /\ run[q].source = s =>
              /\ run[q].startedAt \in Nat
              /\ run'[q].by = run[q].by
              /\ run'[q].startedAt = run[q].startedAt
              /\ run'[q].menu = run[q].menu
              /\ run[q].menu # NoMenu => run'[q].refresh = run[q].refresh
              /\ run'[q].code \in FailureCode <=> run[q].code \in FailureCode
              /\ run[q].code \in FailureCode =>
                   /\ run'[q].code = run[q].code
                   /\ run'[q].completedAt = run[q].completedAt
<1>1. /\ r \in Run /\ run[r].status = "absent"
      /\ \A u \in Run : u # r =>
              run'[u] = IF u = token[s] /\ run[u].status = "running"
                          THEN SupersededRow(run[u], worker[w].at)
                          ELSE run[u]
  BY ClaimRows
<1>2. q \in Nat /\ r \in Nat
  BY <1>1, SetAssumption
<1>3. run[q] \in RunRow /\ RowOK(q) /\ RowOK(r)
  BY <1>1 DEF IInv, TypeOK, HInv
<1>4. run[r].source # s
  BY <1>1, <1>3, SetAssumption DEF RowOK, AbsentRun
<1>5. CASE run[q].status = "absent"
  <2>1. run[q].source # s
    BY <1>3, <1>5, SetAssumption DEF RowOK, AbsentRun
  <2>2. q < r => run'[q] = run[q]
    BY <1>1, <1>2, <1>5
  <2>. QED BY <2>1, <2>2
<1>6. CASE run[q].status = "running"
  <2>1. q < r /\ q # r
    BY <1>1, <1>2, <1>6 DEF IInv, IdsInOrder
  <2>2. run'[q].source = run[q].source /\ run'[q].by = run[q].by
        /\ run'[q].startedAt = run[q].startedAt
    BY <1>6 DEF Kept
  <2>3. run[q].code = "none" /\ run[q].menu = NoMenu /\ run[q].startedAt \in Nat
    BY <1>3, <1>6 DEF RowOK
  <2>4. ASSUME run[q].source = s
        PROVE  run'[q].code = "superseded" /\ run'[q].menu = NoMenu
    <3>1. q = token[s]
      BY <1>6, <2>4 DEF IInv, ClaimIsTheRunningRun, Running
    <3>2. run'[q] = SupersededRow(run[q], worker[w].at)
      BY <1>1, <1>6, <2>1, <3>1
    <3>. QED BY <1>3, <2>3, <3>2, SupersededFields
  <2>. QED BY <2>1, <2>2, <2>3, <2>4 DEF FailureCode
<1>7. CASE run[q].status \notin {"absent", "running"}
  <2>1. q < r
    BY <1>1, <1>2, <1>7 DEF IInv, IdsInOrder
  <2>2. run[q].startedAt \in Nat
    BY <1>3, <1>7 DEF RowOK
  <2>3. run'[q].source = run[q].source
    BY <1>7 DEF Kept
  <2>4. /\ run'[q].by = run[q].by
        /\ run'[q].startedAt = run[q].startedAt
        /\ run'[q].menu = run[q].menu
        /\ run'[q].refresh = run[q].refresh
        /\ run'[q].code = run[q].code
        /\ run'[q].completedAt = run[q].completedAt
    BY <1>7 DEF Kept
  <2>. QED BY <2>1, <2>2, <2>3, <2>4
<1>. QED BY <1>5, <1>6, <1>7

\* No poll lasts long enough to miss a run of its window.
LEMMA WindowHistory ==
  ASSUME IInv, HInv, NEW w \in Worker, worker[w].pc = "poll", NEW s \in Source,
         NEW q \in Run, run[q].source = s, WindowAccepts(worker[w].at, run[q].startedAt)
  PROVE  /\ run[q].menu # NoMenu <=> run[q].status \in Succeeded
         /\ run[q].code \in FailureCode
              <=> run[q].status = "failed" /\ run[q].code # "superseded"
<1> DEFINE t == worker[w].at
<1>1. /\ t \in Nat /\ now \in Nat /\ now <= t + PollDuration
      /\ Retention >= WindowLength + PollDuration
      /\ Retention \in Nat /\ PollDuration \in Nat /\ WindowLength \in Nat
      /\ ClaimsDelay \in Nat
  <2>1. t \in Nat /\ now <= t + PollDuration
    BY DEF HInv, MemoryOK, MemoryRow, Transacting
  <2>. QED BY <2>1, LifetimeAssumption, WindowAssumption DEF IInv, TypeOK
<1>2. run[q] \in RunRow /\ RowOK(q) /\ run[q].status # "absent"
  BY SetAssumption DEF IInv, TypeOK, HInv, RowOK, AbsentRun
<1>3. run[q].status # "pruned"
  <2> SUFFICES ASSUME run[q].status = "pruned" PROVE FALSE
    OBVIOUS
  <2>1. /\ run[q].startedAt \in Nat /\ run[q].completedAt \in Nat
        /\ run[q].startedAt <= run[q].completedAt
        /\ run[q].completedAt + Retention < now
    BY <1>2 DEF RowOK
  <2>2. WindowStart(t) \in Nat /\ t < WindowStart(t) + WindowLength
    BY <1>1, WindowStartBounds
  <2>3. run[q].startedAt >= WindowStart(t) + ClaimsDelay
    BY DEF WindowAccepts, ClaimsStart
  <2>. QED BY <1>1, <2>1, <2>2, <2>3
<1>4. run[q].status \in {"running", "failed"} \union Succeeded
  BY <1>2, <1>3 DEF RunRow, Terminal, Succeeded
<1>. QED BY <1>2, <1>4 DEF RowOK, FailedShape, SucceededShape, FailureCode, Succeeded

LEMMA ClaimableFacts ==
  ASSUME NEW s \in Source, NEW t, \E d \in Candidate(s, t) : d.state = "claimable"
  PROVE  /\ WindowAccepts(t, t)
         /\ \E due \in DueAt(s, t) : Classify(FactsSince(s, t, due), t) = "claimable"
BY DEF Candidate, Facts

\* The successes a polled run is claimed after are those the poll read.
LEMMA ClaimedSuccesses ==
  ASSUME IInv, HInv, Kept, NEW w \in Worker, worker[w].pc = "poll", NEW s \in Source,
         NEW r \in Fresh, Claims(w, s, r)
  PROVE  SuccessesBefore(r)' = SuccessesInWindow(s, worker[w].at)
<1> DEFINE t == worker[w].at
<1>1. run'[r].source = s /\ run'[r].startedAt = t
  BY ClaimedRow
<1>2. ASSUME NEW x \in Run
      PROVE  (/\ x < r /\ run'[x].source = s /\ run'[x].menu # NoMenu
              /\ WindowAccepts(t, run'[x].startedAt))
             <=> (/\ run[x].source = s
                  /\ WindowAccepts(t, run[x].startedAt)
                  /\ run[x].status \in Succeeded)
  <2>1. CASE run[x].source = s
    <3>1. /\ x < r /\ run'[x].source = s
          /\ run'[x].menu = run[x].menu
          /\ run'[x].startedAt = run[x].startedAt
      BY <2>1, ClaimedHistory
    <3>2. WindowAccepts(t, run[x].startedAt)
            => (run[x].menu # NoMenu <=> run[x].status \in Succeeded)
      BY <2>1, WindowHistory
    <3>. QED BY <2>1, <3>1, <3>2
  <2>2. CASE run[x].source # s
    <3>1. ~(x < r /\ run'[x].source = s)
      BY <2>2, ClaimedHistory
    <3>. QED BY <2>2, <3>1
  <2>. QED BY <2>1, <2>2
<1>. QED BY <1>1, <1>2 DEF SuccessesBefore, SuccessesInWindow, RunsInWindow

\* The time at which it fell due is the time the poll found.
LEMMA ClaimedDue ==
  ASSUME IInv, HInv, Kept, NEW w \in Worker, worker[w].pc = "poll", NEW s \in Source,
         NEW r \in Fresh, Claims(w, s, r)
  PROVE  DueAt(s, worker[w].at) = {d \in DueOf(r)' : d <= worker[w].at}
<1> DEFINE t == worker[w].at
           S == SuccessesInWindow(s, t)
<1>1. run'[r].source = s /\ run'[r].startedAt = t
  BY ClaimedRow
<1>2. SuccessesBefore(r)' = S
  BY ClaimedSuccesses
<1>3. \A x \in S : x \in Run /\ run[x].source = s /\ run[x].menu # NoMenu
  BY WindowHistory DEF SuccessesInWindow, RunsInWindow
<1>4. \A x \in S : run'[x].startedAt = run[x].startedAt /\ run'[x].refresh = run[x].refresh
  BY <1>3, ClaimedHistory
<1> HIDE DEF S
<1>5. Latest(SuccessesBefore(r))' = Latest(S)
  BY <1>2, <1>4 DEF Latest, Later
<1>6. Latest(S) \subseteq S
  BY DEF Latest
<1> DEFINE Read == {NextObservationAt(t, run[x].startedAt, s \in Scoped, run[x].refresh)
                      : x \in Latest(S)}
           Left == {NextObservationAt(t, run'[x].startedAt, s \in Scoped, run'[x].refresh)
                      : x \in Latest(S)}
<1>7. Read = Left
  <2>1. \A x \in Latest(S) :
          NextObservationAt(t, run[x].startedAt, s \in Scoped, run[x].refresh)
          = NextObservationAt(t, run'[x].startedAt, s \in Scoped, run'[x].refresh)
    BY <1>4, <1>6
  <2>. QED BY <2>1
<1>8. DueOf(r)' = IF S = {} THEN {ClaimsStart(t)} ELSE UNION Left
  BY <1>1, <1>2, <1>5 DEF DueOf
<1>9. DueAt(s, t) = {d \in IF S = {} THEN {ClaimsStart(t)} ELSE UNION Read : d <= t}
  BY DEF DueAt, S
<1>. QED BY <1>7, <1>8, <1>9

\* Failures that count against a polled run were read by the poll.
LEMMA ClaimedBudget ==
  ASSUME IInv, HInv, Kept, NEW w \in Worker, worker[w].pc = "poll", NEW s \in Source,
         NEW r \in Fresh, Claims(w, s, r), NEW due \in DueAt(s, worker[w].at),
         NEW q \in CountedBefore(r)'
  PROVE  q \in FailuresSince(s, worker[w].at, due) /\ run[q].code # "empty-pending"
<1> DEFINE t == worker[w].at
           S == SuccessesInWindow(s, t)
<1>1. run'[r].source = s /\ run'[r].startedAt = t /\ r \in Run /\ t \in Nat
  BY ClaimedRow
<1>2. /\ q \in Run /\ q <= r /\ q # r /\ run'[q].source = s
      /\ run'[q].by = "cron" /\ run'[q].code \in {"retryable", "review"}
      /\ WindowStart(run'[q].startedAt) = WindowStart(t)
      /\ ~\E x \in Run : q < x /\ x < r /\ run'[x].source = s /\ run'[x].menu # NoMenu
  BY <1>1 DEF CountedBefore, FailuresUpTo, ScheduledFailure, SameWindow
<1>3. q \in Nat /\ r \in Nat /\ q < r
  BY <1>1, <1>2, SetAssumption
<1>4. run[q].source = s
  BY <1>2, <1>3, ClaimedHistory
<1>5. /\ run[q].startedAt \in Nat
      /\ run[q].by = "cron" /\ run[q].code \in {"retryable", "review"}
      /\ WindowStart(run[q].startedAt) = WindowStart(t)
  <2>1. /\ run[q].startedAt \in Nat
        /\ run'[q].by = run[q].by
        /\ run'[q].startedAt = run[q].startedAt
        /\ run'[q].code \in FailureCode <=> run[q].code \in FailureCode
        /\ run[q].code \in FailureCode => run'[q].code = run[q].code
    BY <1>2, <1>4, ClaimedHistory
  <2>. QED BY <1>2, <2>1 DEF FailureCode
<1> DEFINE a == run[q].startedAt
<1>6. WindowAccepts(a, a) /\ \E d \in DueOf(q) : d <= a
  BY <1>2, <1>5 DEF HInv, ScheduleOK
<1>7. WindowAccepts(t, a)
  BY <1>1, <1>5, <1>6, AcceptedInWindow
<1>8. run[q].status = "failed" /\ run[q].code # "superseded" /\ run[q].menu = NoMenu
  <2>1. /\ run[q].menu # NoMenu <=> run[q].status \in Succeeded
        /\ run[q].status = "failed" /\ run[q].code # "superseded"
    BY <1>2, <1>4, <1>5, <1>7, WindowHistory DEF FailureCode
  <2>. QED BY <2>1 DEF Succeeded
<1>9. SuccessesBefore(q) = S
  <2>1. ASSUME NEW x \in Run
        PROVE  (/\ x < q /\ run[x].source = s /\ run[x].menu # NoMenu
                /\ WindowAccepts(a, run[x].startedAt))
               <=> (/\ run[x].source = s
                    /\ WindowAccepts(t, run[x].startedAt)
                    /\ run[x].status \in Succeeded)
    <3>1. WindowAccepts(a, run[x].startedAt) <=> WindowAccepts(t, run[x].startedAt)
      BY <1>1, <1>5, AcceptedInWindow
    <3>2. run[x].source = s /\ WindowAccepts(t, run[x].startedAt)
            => (run[x].menu # NoMenu <=> run[x].status \in Succeeded)
      BY WindowHistory
    <3>3. run[x].source = s /\ run[x].menu # NoMenu => x < q
      <4> SUFFICES ASSUME run[x].source = s, run[x].menu # NoMenu PROVE x < q
        OBVIOUS
      <4>1. x < r /\ run'[x].source = s /\ run'[x].menu # NoMenu
        BY ClaimedHistory
      <4>2. x # q
        BY <1>8
      <4>3. x \in Nat
        BY SetAssumption
      <4>. QED BY <1>2, <1>3, <4>1, <4>2, <4>3
    <3>. QED BY <3>1, <3>2, <3>3
  <2>. QED BY <1>4, <2>1 DEF SuccessesBefore, SuccessesInWindow, RunsInWindow
<1>10. due <= a
  <2>1. PICK d \in DueOf(q) : d <= a
    BY <1>6
  <2>2. CASE S = {}
    <3>1. due = ClaimsStart(t) /\ d = ClaimsStart(a)
      BY <1>9, <2>1, <2>2 DEF DueAt, DueOf
    <3>. QED BY <1>1, <1>5, <2>1, <3>1, AcceptedInWindow
  <2>3. CASE S # {}
    <3>1. PICK x \in Latest(S) :
            due \in NextObservationAt(t, run[x].startedAt, s \in Scoped, run[x].refresh)
      BY <2>3 DEF DueAt
    <3>2. PICK y \in Latest(S) :
            d \in NextObservationAt(a, run[y].startedAt, s \in Scoped, run[y].refresh)
      BY <1>4, <1>9, <2>3 DEF DueOf
    <3>3. \A z \in S : z \in Run /\ run[z].source = s
      BY DEF SuccessesInWindow, RunsInWindow
    <3>4. \A z \in S : run[z].startedAt \in Nat
      BY <3>3, ClaimedHistory
    <3> HIDE DEF S
    <3>5. x = y
      BY <3>1, <3>2, <3>3, <3>4, LatestUnique
    <3>6. x \in S
      BY DEF Latest
    <3>7. run[x].refresh \in Refresh \union {NoRefresh} /\ run[x].startedAt \in Nat
      BY <3>3, <3>4, <3>6 DEF IInv, TypeOK, RunRow
    <3>8. d = due
      BY <1>1, <1>5, <3>1, <3>2, <3>5, <3>7, NextObservationUnique
    <3>. QED BY <2>1, <3>8
  <2>. QED BY <2>2, <2>3
<1>. QED BY <1>2, <1>4, <1>5, <1>7, <1>8, <1>10 DEF FailuresSince, RunsInWindow

\* A source that failed is polled again only after the pause.
LEMMA ClaimedSpaced ==
  ASSUME IInv, HInv, Kept, NEW w \in Worker, worker[w].pc = "poll", NEW s \in Source,
         NEW r \in Fresh, Claims(w, s, r), NEW due \in DueAt(s, worker[w].at),
         Classify(FactsSince(s, worker[w].at, due), worker[w].at) = "claimable"
  PROVE  SpacedOK(r)'
<1> DEFINE t == worker[w].at
           F == FailuresSince(s, t, due)
<1>1. run'[r].source = s /\ run'[r].startedAt = t /\ r \in Run /\ t \in Nat
  BY ClaimedRow
<1> SUFFICES ASSUME s \notin Scoped, NEW p \in Latest(FailuresBefore(r))'
             PROVE  t >= run'[p].completedAt + PauseAfter(p, r)'
  BY <1>1 DEF SpacedOK
<1>2. due = ClaimsStart(t)
  BY DEF DueAt, NextObservationAt
<1>3. FailuresBefore(r)' = F
  <2>1. ASSUME NEW q \in Run
        PROVE  (/\ q < r /\ run'[q].source = s
                /\ WindowStart(run'[q].startedAt) = WindowStart(t)
                /\ run'[q].startedAt >= ClaimsStart(t)
                /\ run'[q].code \in FailureCode)
               <=> (/\ run[q].source = s
                    /\ WindowAccepts(t, run[q].startedAt)
                    /\ run[q].status = "failed" /\ run[q].code # "superseded"
                    /\ run[q].startedAt >= ClaimsStart(t))
    <3>1. CASE run[q].source = s
      <4>1. /\ q < r /\ run'[q].source = s
            /\ run[q].startedAt \in Nat
            /\ run'[q].startedAt = run[q].startedAt
            /\ run'[q].code \in FailureCode <=> run[q].code \in FailureCode
        BY <3>1, ClaimedHistory
      <4>2. WindowAccepts(t, run[q].startedAt)
              => (run[q].code \in FailureCode
                    <=> run[q].status = "failed" /\ run[q].code # "superseded")
        BY <3>1, WindowHistory
      <4>3. run[q].startedAt >= ClaimsStart(t) =>
              (WindowStart(run[q].startedAt) = WindowStart(t)
                 <=> run[q].startedAt < WindowEnd(t))
        <5>1. WindowStart(run[q].startedAt) = WindowStart(t)
                <=> WindowStart(t) <= run[q].startedAt /\ run[q].startedAt < WindowEnd(t)
          BY <1>1, <4>1, WindowNamed
        <5>2. WindowStart(t) \in Nat
          BY <1>1, WindowStartBounds
        <5>. QED BY <4>1, <5>1, <5>2, WindowAssumption DEF ClaimsStart
      <4>. QED BY <3>1, <4>1, <4>2, <4>3 DEF WindowAccepts
    <3>2. CASE run[q].source # s
      BY <3>2, ClaimedHistory
    <3>. QED BY <3>1, <3>2
  <2>2. FailuresBefore(r)' =
          {q \in Run : /\ q < r /\ run'[q].source = s
                       /\ WindowStart(run'[q].startedAt) = WindowStart(t)
                       /\ run'[q].startedAt >= ClaimsStart(t)
                       /\ run'[q].code \in FailureCode}
    BY <1>1 DEF FailuresBefore, SameWindow
  <2>3. F = {q \in Run : /\ run[q].source = s
                         /\ WindowAccepts(t, run[q].startedAt)
                         /\ run[q].status = "failed" /\ run[q].code # "superseded"
                         /\ run[q].startedAt >= ClaimsStart(t)}
    BY <1>2 DEF FailuresSince, RunsInWindow
  <2>. QED BY <2>1, <2>2, <2>3
<1>4. \A q \in F : /\ q \in Run /\ run[q].source = s /\ run[q].code \in FailureCode
  BY WindowHistory DEF FailuresSince, RunsInWindow
<1>5. \A q \in F : /\ run'[q].startedAt = run[q].startedAt
                   /\ run[q].startedAt \in Nat
                   /\ run'[q].code = run[q].code
                   /\ run'[q].completedAt = run[q].completedAt
  BY <1>4, ClaimedHistory
<1>6. \A q \in F : run[q].completedAt \in Nat
  <2> TAKE q \in F
  <2>1. RowOK(q) /\ q \in Run /\ run[q].status = "failed"
    BY <1>4 DEF HInv, FailuresSince
  <2>. QED BY <2>1 DEF RowOK
<1> DEFINE c == CHOOSE x \in Latest(F) : TRUE
           facts == FactsSince(s, t, due)
<1>7. facts.latestCode = (IF Latest(F) = {} THEN "none" ELSE run[c].code)
      /\ facts.latestFailedAt = (IF Latest(F) = {} THEN Never ELSE run[c].completedAt)
  BY DEF FactsSince
<1>8. ~(facts.latestFailedAt # Never /\ facts.latestFailedAt + RetryDelay(facts) > t)
  BY DEF Classify
<1> HIDE DEF F, facts
<1>9. Latest(FailuresBefore(r))' = Latest(F)
  BY <1>3, <1>5 DEF Latest, Later
<1>10. p \in Latest(F) /\ p \in F /\ c \in Latest(F)
  BY <1>9 DEF Latest
<1>11. c = p
  BY <1>4, <1>5, <1>10, LatestUnique
<1> HIDE DEF c
<1>12. facts.latestCode = run[p].code /\ facts.latestFailedAt = run[p].completedAt
  BY <1>7, <1>10, <1>11
<1>13. run[p].completedAt + RetryDelay(facts) <= t
  <2>1. RetryDelay(facts) \in Nat
    BY DelayAssumption DEF RetryDelay
  <2>. QED BY <1>1, <1>6, <1>8, <1>10, <1>12, <2>1 DEF Never
<1>14. RetryDelay(facts) = PauseAfter(p, r)'
  <2> DEFINE C == {q \in F : run[q].code # "empty-pending"}
  <2>1. facts.failureCount = Cardinality(C)
    BY DEF facts, F, FactsSince
  <2>2. PauseAfter(p, r)' =
          IF run[p].code = "empty-pending" THEN EmptyMin
          ELSE IF \A q \in F : q = p \/ run[q].code = "empty-pending"
            THEN FirstRetryDelay ELSE LaterRetryDelay
    BY <1>3, <1>5, <1>10 DEF PauseAfter
  <2>3. CASE run[p].code = "empty-pending"
    BY <1>12, <2>2, <2>3 DEF RetryDelay
  <2>4. CASE run[p].code # "empty-pending"
    <3>1. p \in C
      BY <1>10, <2>4
    <3>2. IsFiniteSet(C)
      <4>1. C \subseteq Run
        BY <1>4
      <4>. QED BY <4>1, FS_Subset, SetAssumption
    <3>3. Cardinality(C) = 1 <=> \E x : C = {x}
      BY <3>2, FS_Singleton
    <3>4. C = {p} <=> \A q \in F : q = p \/ run[q].code = "empty-pending"
      BY <3>1
    <3>5. (\E x : C = {x}) <=> C = {p}
      BY <3>1
    <3>6. Cardinality(C) = 1 <=> \A q \in F : q = p \/ run[q].code = "empty-pending"
      BY <3>3, <3>4, <3>5
    <3> HIDE DEF C
    <3>. QED BY <1>12, <2>1, <2>2, <2>4, <3>6 DEF RetryDelay
  <2>. QED BY <2>3, <2>4
<1>15. run'[p].completedAt = run[p].completedAt
  BY <1>5, <1>10
<1>16. run[p].completedAt \in Nat
  BY <1>6, <1>10
<1>. QED BY <1>13, <1>14, <1>15, <1>16

LEMMA ClaimedSchedule ==
  ASSUME IInv, HInv, Kept, NEW w \in Worker, NEW s \in Source,
         NEW r \in Fresh, Claims(w, s, r)
  PROVE  ScheduleOK(r)'
<1> DEFINE t == worker[w].at
<1>1. /\ run'[r].source = s /\ run'[r].startedAt = t /\ run'[r].by = worker[w].kind
      /\ r \in Run
  BY ClaimedRow
<1>2. CASE worker[w].pc = "acquire"
  <2>1. worker[w].kind = "manual"
    BY <1>2 DEF HInv, MemoryOK, MemoryRow
  <2>. QED BY <1>1, <2>1 DEF ScheduleOK, SpacedOK
<1>3. CASE worker[w].pc = "poll" /\ \E d \in Candidate(s, t) : d.state = "claimable"
  <2>1. WindowAccepts(t, t)
    BY <1>3, ClaimableFacts
  <2>2. PICK due \in DueAt(s, t) : Classify(FactsSince(s, t, due), t) = "claimable"
    BY <1>3, ClaimableFacts
  <2>3. due \in DueOf(r)' /\ due <= t
    BY <1>3, <2>2, ClaimedDue
  <2>4. SpacedOK(r)'
    BY <1>3, <2>2, ClaimedSpaced
  <2>5. Cardinality(CountedBefore(r)') < MaxWindowFailures
    <3> DEFINE C == {q \in FailuresSince(s, t, due) : run[q].code # "empty-pending"}
    <3>1. C \in SUBSET Run
      BY DEF FailuresSince, RunsInWindow
    <3>2. IsFiniteSet(C)
      BY <3>1, FS_Subset, SetAssumption
    <3>3. CountedBefore(r)' \in SUBSET C
      BY <1>3, ClaimedBudget
    <3>4. /\ Cardinality(CountedBefore(r)') <= Cardinality(C)
          /\ Cardinality(CountedBefore(r)') \in Nat
          /\ Cardinality(C) \in Nat
      BY <3>2, <3>3, FS_Subset, FS_CardinalityType
    <3>5. ~(Cardinality(C) >= MaxWindowFailures)
      BY <2>2 DEF Classify, FactsSince
    <3> HIDE DEF C
    <3>. QED BY <3>4, <3>5, DelayAssumption
  <2>. QED BY <1>1, <2>1, <2>3, <2>4, <2>5 DEF ScheduleOK
<1>. QED BY <1>2, <1>3 DEF Claims

-----------------------------------------------------------------------------
(* Claims stay in order. *)

LEMMA NewRows ==
  ASSUME IInv, HInv, Changes, NEW q \in Run, run[q].status = "absent",
         run'[q].status # "absent"
  PROVE  \E w \in Worker, s \in Source : q \in Fresh /\ Claims(w, s, q)
<1>1. CASE Prunes
  <2>1. PICK sources \in SUBSET Source : run' = Pruned(sources, now)
    BY <1>1 DEF Prunes
  <2>. QED BY <2>1, PrunedFields DEF Terminal
<1>2. CASE Leaves
  BY <1>2 DEF Leaves
<1>3. ASSUME NEW w \in Worker, NEW s \in Source, NEW r \in Fresh, Claims(w, s, r)
      PROVE  q = r
  BY <1>3, ClaimRows
<1>4. ASSUME NEW w \in Worker, NEW row, Ends(w, row) PROVE FALSE
  BY <1>4, EndRows
<1>. QED BY <1>1, <1>2, <1>3, <1>4 DEF Changes, Succeeds, Fails

LEMMA ClaimsStayOK ==
  ASSUME IInv, IInv', HInv, Changes, Kept
  PROVE  ClaimsOK'
<1>1. ASSUME NEW s \in Source, token'[s] # NoRun
      PROVE  expires'[s] = run'[token'[s]].startedAt + ClaimDuration
  <2>1. CASE token'[s] = token[s] /\ expires'[s] = expires[s]
    <3>1. token[s] \in Run /\ run[token[s]].status = "running"
      BY <1>1, <2>1 DEF IInv, ClaimIsTheRunningRun, Running
    <3>2. run'[token[s]].startedAt = run[token[s]].startedAt
      BY <3>1 DEF Kept
    <3>. QED BY <1>1, <2>1, <3>2 DEF HInv, ClaimsOK
  <2>2. ASSUME NEW w \in Worker, NEW z \in Source, NEW r \in Fresh, Claims(w, z, r)
        PROVE  expires'[s] = run'[token'[s]].startedAt + ClaimDuration
    <3>1. /\ token' = [token EXCEPT ![z] = r]
          /\ expires' = [expires EXCEPT ![z] = worker[w].at + ClaimDuration]
      BY <2>2 DEF Claims, Claim
    <3>2. CASE s = z
      <4>1. token'[s] = r /\ expires'[s] = worker[w].at + ClaimDuration
        BY <3>1, <3>2 DEF IInv, TypeOK
      <4>2. run'[r].startedAt = worker[w].at
        BY <2>2, ClaimedRow
      <4>. QED BY <4>1, <4>2
    <3>3. CASE s # z
      BY <2>1, <3>1, <3>3 DEF IInv, TypeOK
    <3>. QED BY <3>2, <3>3
  <2>3. ASSUME NEW w \in Worker, NEW row, Ends(w, row)
        PROVE  expires'[s] = run'[token'[s]].startedAt + ClaimDuration
    <3>1. /\ token' = [token EXCEPT ![worker[w].source] = NoRun]
          /\ expires' = [expires EXCEPT ![worker[w].source] = Never]
      BY <2>3 DEF Ends, Finalize
    <3>2. token'[s] = token[s] /\ expires'[s] = expires[s]
      BY <1>1, <3>1 DEF IInv, TypeOK
    <3>. QED BY <2>1, <3>2
  <2>4. Prunes \/ Leaves => token' = token /\ expires' = expires
    BY DEF Prunes, Leaves
  <2>. QED BY <2>1, <2>2, <2>3, <2>4 DEF Changes, Succeeds, Fails
<1>2. ASSUME NEW p \in Run, NEW r \in Run, p < r, run'[p].source = run'[r].source,
             run'[p].status = "running", run'[r].status # "absent"
      PROVE  FALSE
  <2>0. p \in Nat /\ r \in Nat
    BY SetAssumption
  <2>1. CASE run[r].status # "absent"
    <3>1. run[p].status # "absent"
      BY <1>2, <2>0, <2>1 DEF IInv, IdsInOrder
    <3>2. run[p].status = "running"
      BY <1>2, <3>1 DEF Kept
    <3>3. run[p].source = run[r].source
      BY <1>2, <2>1, <3>1 DEF Kept
    <3>. QED BY <1>2, <2>1, <3>2, <3>3 DEF HInv, ClaimsOK
  <2>2. CASE run[r].status = "absent"
    <3>1. PICK w \in Worker, s \in Source : r \in Fresh /\ Claims(w, s, r)
      BY <1>2, <2>2, NewRows
    <3>2. run'[r].source = s /\ run'[r].status = "running"
      BY <3>1, ClaimedRow
    <3>3. p \in Running(s)' /\ r \in Running(s)'
      BY <1>2, <3>2 DEF Running
    <3>4. p = r
      BY <3>3 DEF IInv, ClaimIsTheRunningRun
    <3>. QED BY <1>2, <2>0, <3>4
  <2>. QED BY <2>1, <2>2
<1>. QED BY <1>1, <1>2 DEF ClaimsOK

-----------------------------------------------------------------------------
(* The memory of invocations. *)

\* An invocation that is not heard of remembers what it did.
LEMMA MemoryCarried ==
  ASSUME IInv, IInv', HInv, Kept, ClaimsOK', NEW v \in Worker, worker'[v] = worker[v],
         worker[v].pc = "poll" => now' <= worker[v].at + PollDuration
  PROVE  MemoryOK(v)'
<1> DEFINE me == worker[v]
<1>0. MemoryRow(me, now, run, expires)
  BY DEF HInv, MemoryOK
<1>1. me.pc \in Transacting => me.at \in Nat /\ me.at <= now'
  <2>1. now \in Nat /\ now' \in Nat /\ now' >= now
    BY DEF IInv, TypeOK, Kept
  <2>2. me.pc \in Transacting => me.at \in Nat /\ me.at <= now
    BY <1>0 DEF MemoryRow
  <2>. QED BY <2>1, <2>2
<1>2. ASSUME me.pc \in Working
      PROVE  /\ me.run \in Run
             /\ run'[me.run].status # "absent"
             /\ run'[me.run].source = me.source
             /\ run'[me.run].startedAt = run[me.run].startedAt
  <2>1. me.run \in Run /\ run[me.run].status # "absent" /\ run[me.run].source = me.source
    BY <1>0, <1>2 DEF MemoryRow, IInv, WorkerInv
  <2>. QED BY <2>1 DEF Kept
<1>3. ASSUME me.pc = "publish"
      PROVE  expires'[me.source] = expires[me.source]
  <2>1. /\ token[me.source] = me.run /\ token'[me.source] = me.run
        /\ me.source \in Source /\ me.run \in Run /\ me.run # NoRun
    BY <1>3, SetAssumption DEF IInv, WorkerInv, Working, NoRun
  <2>2. run'[me.run].startedAt = run[me.run].startedAt
    BY <1>2, <1>3 DEF Working
  <2>. QED BY <2>1, <2>2 DEF HInv, ClaimsOK
<1> HIDE DEF me
<1>4. MemoryRow(me, now', run', expires')
  BY <1>0, <1>1, <1>2, <1>3 DEF MemoryRow, Working, me
<1>. QED BY <1>4 DEF MemoryOK, me

LEMMA MemoryMoves ==
  ASSUME IInv, IInv', HInv, Kept, ClaimsOK', NEW w \in Worker, NEW next,
         worker' = [worker EXCEPT ![w] = next], now' = now,
         MemoryRow(next, now', run', expires')
  PROVE  \A v \in Worker : MemoryOK(v)'
<1> TAKE v \in Worker
<1>1. CASE v = w
  <2>1. worker'[v] = next
    BY <1>1 DEF IInv, TypeOK
  <2>. QED BY <2>1 DEF MemoryOK
<1>2. CASE v # w
  <2>1. worker'[v] = worker[v]
    BY <1>2 DEF IInv, TypeOK
  <2>2. worker[v].pc = "poll" => now <= worker[v].at + PollDuration
    BY DEF HInv, MemoryOK, MemoryRow
  <2>. QED BY <2>1, <2>2, MemoryCarried
<1>. QED BY <1>1, <1>2

LEMMA IdleMemory ==
  ASSUME NEW next, NEW t, NEW rows, NEW expiry, next.pc \in {"idle", "inconsistent"}
  PROVE  MemoryRow(next, t, rows, expiry)
BY DEF MemoryRow, Transacting, Committing, Working

LEMMA StartMemory ==
  ASSUME NEW next, NEW t \in Nat, NEW rows, NEW expiry, next.at = t,
         next.pc = "poll" \/ (next.pc = "acquire" /\ next.kind = "manual")
  PROVE  MemoryRow(next, t, rows, expiry)
<1>1. next.at \in Nat /\ next.at <= t /\ t <= next.at + PollDuration
  BY LifetimeAssumption
<1>. QED BY <1>1 DEF MemoryRow, Committing, Working

\* A worker that goes on with its run.
Onward(w, next) ==
  /\ next.pc \in Working
  /\ next.run = worker[w].run /\ next.source = worker[w].source
  /\ next.pc \in Transacting => /\ next.at \in Nat /\ next.at <= now
                               /\ run[next.run].startedAt <= next.at
  /\ next.pc \in Committing \union {"confirm"} => next.menu # NoMenu
  /\ next.pc \in {"fail", "failing"} => next.code \in FailureCode
  /\ next.pc = "publish" => expires'[next.source] > next.at

LEMMA OnwardMemory ==
  ASSUME IInv, IInv', HInv, Kept, ClaimsOK', NEW w \in Worker, worker[w].pc \in Working,
         NEW next, Onward(w, next), worker' = [worker EXCEPT ![w] = next], now' = now
  PROVE  \A v \in Worker : MemoryOK(v)'
<1>1. MemoryRow(worker[w], now, run, expires)
  BY DEF HInv, MemoryOK
<1>2. /\ next.run \in Run /\ run[next.run].status # "absent"
      /\ run[next.run].source = next.source
  BY <1>1 DEF Onward, MemoryRow, IInv, WorkerInv
<1>3. /\ run'[next.run].status # "absent"
      /\ run'[next.run].source = next.source
      /\ run'[next.run].startedAt = run[next.run].startedAt
  BY <1>2 DEF Kept
<1>4. MemoryRow(next, now', run', expires')
  BY <1>3 DEF Onward, MemoryRow, Transacting, Working
<1>. QED BY <1>4, MemoryMoves

LEMMA MemoryStaysOK ==
  ASSUME IInv, IInv', HInv, [Next]_vars, Kept, Changes, ClaimsOK'
  PROVE  \A v \in Worker : MemoryOK(v)'
<1>0. /\ now \in Nat /\ now' \in Nat /\ PollDuration \in Nat
      /\ \A w \in Worker : worker[w] \in WorkerRow /\ MemoryRow(worker[w], now, run, expires)
  BY LifetimeAssumption DEF IInv, TypeOK, HInv, MemoryOK
<1>1. ASSUME NEW w \in Worker, now' = now,
             worker' = [worker EXCEPT ![w] = IdleWorker]
      PROVE  \A v \in Worker : MemoryOK(v)'
  <2>1. IdleWorker.pc = "idle"
    BY DEF IdleWorker
  <2>2. MemoryRow(IdleWorker, now', run', expires')
    BY <2>1, IdleMemory
  <2>. QED BY <1>1, <2>2, MemoryMoves
<1>2. ASSUME NEW w \in Worker, now' = now,
             worker' = [worker EXCEPT ![w] = [IdleWorker EXCEPT !.pc = "inconsistent"]]
      PROVE  \A v \in Worker : MemoryOK(v)'
  <2> DEFINE next == [IdleWorker EXCEPT !.pc = "inconsistent"]
  <2>1. next.pc = "inconsistent"
    BY DEF IdleWorker
  <2> HIDE DEF next
  <2>2. worker' = [worker EXCEPT ![w] = next]
    BY <1>2 DEF next
  <2>3. MemoryRow(next, now', run', expires')
    BY <2>1, IdleMemory
  <2>. QED BY <1>2, <2>2, <2>3, MemoryMoves
<1>3. ASSUME NEW w \in Worker, NEW s \in Source, NEW r \in Fresh, Claims(w, s, r)
      PROVE  \A v \in Worker : MemoryOK(v)'
  <2> DEFINE next == [IdleWorker EXCEPT !.pc = "fetch", !.kind = worker[w].kind,
                                        !.source = s, !.run = r]
  <2>1. worker' = [worker EXCEPT ![w] = next] /\ now' = now
    BY <1>3 DEF Claims, Claim, EndTransaction
  <2>2. next.pc = "fetch" /\ next.run = r /\ next.source = s
    BY DEF IdleWorker
  <2> HIDE DEF next
  <2>3. run'[r].status # "absent" /\ run'[r].source = s
    BY <1>3, ClaimedRow
  <2>4. MemoryRow(next, now', run', expires')
    BY <2>2, <2>3 DEF MemoryRow, Transacting, Committing
  <2>. QED BY <2>1, <2>4, MemoryMoves
<1>4. ASSUME NEW w \in Worker, BeginPoll(w) PROVE \A v \in Worker : MemoryOK(v)'
  <2> DEFINE todo == UNION {Candidate(s, now) : s \in Source}
             next == [IdleWorker EXCEPT !.pc = "poll", !.kind = "cron",
                                        !.at = now, !.todo = todo]
  <2>1. worker' = [worker EXCEPT ![w] = next] /\ now' = now
    BY <1>4 DEF BeginPoll
  <2> HIDE DEF todo
  <2>2. next.pc = "poll" /\ next.at = now
    BY DEF IdleWorker
  <2> HIDE DEF next
  <2>3. MemoryRow(next, now', run', expires')
    BY <1>0, <2>1, <2>2, StartMemory
  <2>. QED BY <2>1, <2>3, MemoryMoves
<1>5. ASSUME NEW w \in Worker, NEW s \in Source, BeginAcquire(w, s)
      PROVE  \A v \in Worker : MemoryOK(v)'
  <2> DEFINE next == [IdleWorker EXCEPT !.pc = "acquire", !.kind = "manual",
                                        !.source = s, !.at = now]
  <2>1. worker' = [worker EXCEPT ![w] = next] /\ now' = now
    BY <1>5 DEF BeginAcquire
  <2>2. next.pc = "acquire" /\ next.at = now /\ next.kind = "manual"
    BY DEF IdleWorker
  <2> HIDE DEF next
  <2>3. MemoryRow(next, now', run', expires')
    BY <1>0, <2>1, <2>2, StartMemory
  <2>. QED BY <2>1, <2>3, MemoryMoves
<1>7. ASSUME NEW w \in Worker, Fetch(w) PROVE \A v \in Worker : MemoryOK(v)'
  <2>1. worker[w].pc = "fetch" /\ now' = now /\ worker[w].pc \in Working
    BY <1>7 DEF Fetch, At, Working
  <2>2. ASSUME NEW m \in Menu, worker' = [worker EXCEPT ![w].pc = "commit", ![w].menu = m]
        PROVE  \A v \in Worker : MemoryOK(v)'
    <3> DEFINE next == [worker[w] EXCEPT !.pc = "commit", !.menu = m]
    <3>1. worker' = [worker EXCEPT ![w] = next]
      BY <2>2 DEF IInv, TypeOK
    <3>2. /\ next.pc = "commit" /\ next.menu = m /\ next.run = worker[w].run
          /\ next.source = worker[w].source
      BY <1>0 DEF WorkerRow
    <3>3. m # NoMenu
      BY SetAssumption
    <3> HIDE DEF next
    <3>5. Onward(w, next)
      BY <2>1, <3>1, <3>2, <3>3 DEF Onward, Transacting, Working
    <3>. QED BY <2>1, <3>1, <3>5, OnwardMemory
  <2>3. ASSUME NEW k \in Key,
               worker' = [worker EXCEPT ![w].pc = "confirm", ![w].menu = EmptyMenu,
                                        ![w].key = k]
        PROVE  \A v \in Worker : MemoryOK(v)'
    <3> DEFINE next == [worker[w] EXCEPT !.pc = "confirm", !.menu = EmptyMenu, !.key = k]
    <3>1. worker' = [worker EXCEPT ![w] = next]
      BY <2>3 DEF IInv, TypeOK
    <3>2. /\ next.pc = "confirm" /\ next.menu = EmptyMenu /\ next.run = worker[w].run
          /\ next.source = worker[w].source
      BY <1>0 DEF WorkerRow
    <3>3. EmptyMenu # NoMenu
      BY SetAssumption
    <3> HIDE DEF next
    <3>5. Onward(w, next)
      BY <2>1, <3>1, <3>2, <3>3 DEF Onward, Transacting, Working
    <3>. QED BY <2>1, <3>1, <3>5, OnwardMemory
  <2>4. ASSUME NEW c \in {"retryable", "review"},
               worker' = [worker EXCEPT ![w].pc = "fail", ![w].code = c]
        PROVE  \A v \in Worker : MemoryOK(v)'
    <3> DEFINE next == [worker[w] EXCEPT !.pc = "fail", !.code = c]
    <3>1. worker' = [worker EXCEPT ![w] = next]
      BY <2>4 DEF IInv, TypeOK
    <3>2. /\ next.pc = "fail" /\ next.code = c /\ next.run = worker[w].run
          /\ next.source = worker[w].source
      BY <1>0 DEF WorkerRow
    <3> HIDE DEF next
    <3>5. Onward(w, next)
      BY <2>1, <3>1, <3>2 DEF Onward, Transacting, Committing, Working, FailureCode
    <3>. QED BY <2>1, <3>1, <3>5, OnwardMemory
  <2>. QED BY <1>7, <2>2, <2>3, <2>4 DEF Fetch
<1>8. ASSUME NEW w \in Worker, ConfirmEmpty(w) PROVE \A v \in Worker : MemoryOK(v)'
  <2>1. worker[w].pc = "confirm" /\ now' = now /\ worker[w].pc \in Working
    BY <1>8 DEF ConfirmEmpty, At, Working
  <2>2. worker[w].menu # NoMenu
    BY <1>0, <2>1 DEF MemoryRow
  <2>3. CASE worker' = [worker EXCEPT ![w].pc = "commit"]
    <3> DEFINE next == [worker[w] EXCEPT !.pc = "commit"]
    <3>1. worker' = [worker EXCEPT ![w] = next]
      BY <2>3 DEF IInv, TypeOK
    <3>2. /\ next.pc = "commit" /\ next.menu = worker[w].menu /\ next.run = worker[w].run
          /\ next.source = worker[w].source
      BY <1>0 DEF WorkerRow
    <3> HIDE DEF next
    <3>5. Onward(w, next)
      BY <2>1, <2>2, <3>1, <3>2 DEF Onward, Transacting, Working
    <3>. QED BY <2>1, <3>1, <3>5, OnwardMemory
  <2>4. CASE worker' = [worker EXCEPT ![w].pc = "fail", ![w].code = "empty-pending"]
    <3> DEFINE next == [worker[w] EXCEPT !.pc = "fail", !.code = "empty-pending"]
    <3>1. worker' = [worker EXCEPT ![w] = next]
      BY <2>4 DEF IInv, TypeOK
    <3>2. /\ next.pc = "fail" /\ next.code = "empty-pending" /\ next.run = worker[w].run
          /\ next.source = worker[w].source
      BY <1>0 DEF WorkerRow
    <3> HIDE DEF next
    <3>5. Onward(w, next)
      BY <2>1, <3>1, <3>2 DEF Onward, Transacting, Committing, Working, FailureCode
    <3>. QED BY <2>1, <3>1, <3>5, OnwardMemory
  <2>. QED BY <1>8, <2>3, <2>4 DEF ConfirmEmpty
<1>9. ASSUME NEW w \in Worker, worker[w].pc \in Working, now' = now, NEW pc,
             \/ BeginCommit(w) /\ pc = "lock canteen"
             \/ BeginFail(w) /\ pc = "failing"
      PROVE  \A v \in Worker : MemoryOK(v)'
  <2> DEFINE next == [worker[w] EXCEPT !.pc = pc, !.at = now]
  <2>1. worker' = [worker EXCEPT ![w] = next]
    BY <1>9 DEF IInv, TypeOK, BeginCommit, BeginFail
  <2>2. /\ next.pc = pc /\ next.at = now /\ next.run = worker[w].run
        /\ next.source = worker[w].source /\ next.menu = worker[w].menu
        /\ next.code = worker[w].code
    BY <1>0 DEF WorkerRow
  <2>3. run[worker[w].run].startedAt <= now
    <3>1. worker[w].run \in Run /\ run[worker[w].run].status # "absent"
      BY <1>0, <1>9 DEF MemoryRow, IInv, WorkerInv
    <3>. QED BY <3>1 DEF HInv, RowOK
  <2>4. pc = "lock canteen" => worker[w].menu # NoMenu
    BY <1>0, <1>9 DEF MemoryRow, BeginCommit, BeginFail, At, Committing
  <2>5. pc = "failing" => worker[w].code \in FailureCode
    BY <1>0, <1>9 DEF MemoryRow, BeginCommit, BeginFail, At
  <2>6. pc \in {"lock canteen", "failing"}
    BY <1>9
  <2> HIDE DEF next
  <2>7. Onward(w, next)
    <3>1. next.at \in Nat /\ next.at <= now /\ run[next.run].startedAt <= next.at
      BY <1>0, <2>2, <2>3
    <3>. QED BY <2>2, <2>4, <2>5, <2>6, <3>1 DEF Onward, Working, Committing
  <2>. QED BY <1>9, <2>1, <2>7, OnwardMemory
<1>10. ASSUME NEW w \in Worker, NEW pc \in {"lock source", "publish"},
              worker[w].pc \in {"lock canteen", "lock source"}, now' = now,
              worker' = [worker EXCEPT ![w].pc = pc],
              pc = "publish" => expires'[worker[w].source] > worker[w].at
       PROVE  \A v \in Worker : MemoryOK(v)'
  <2> DEFINE next == [worker[w] EXCEPT !.pc = pc]
  <2>1. worker' = [worker EXCEPT ![w] = next]
    BY <1>10 DEF IInv, TypeOK
  <2>2. /\ next.pc = pc /\ next.at = worker[w].at /\ next.run = worker[w].run
        /\ next.source = worker[w].source /\ next.menu = worker[w].menu
    BY <1>0 DEF WorkerRow
  <2>3. /\ worker[w].at \in Nat /\ worker[w].at <= now
        /\ run[worker[w].run].startedAt <= worker[w].at
        /\ worker[w].menu # NoMenu
    BY <1>0, <1>10 DEF MemoryRow, Transacting, Committing
  <2> HIDE DEF next
  <2>7. Onward(w, next)
    BY <1>10, <2>1, <2>2, <2>3 DEF Onward, Working
  <2>8. worker[w].pc \in Working
    BY <1>10 DEF Working
  <2>. QED BY <1>10, <2>1, <2>7, <2>8, OnwardMemory
<1>11. ASSUME NEW w \in Worker, Publish(w) PROVE \A v \in Worker : MemoryOK(v)'
  <2>1. worker[w].pc \in Working /\ now' = now
    BY <1>11 DEF Publish, At, Working, Finalize
  <2> DEFINE next == Failing(w)
  <2>2. CASE worker' = [worker EXCEPT ![w] = next]
    <3>1. /\ next.pc = "fail" /\ next.code = "retryable" /\ next.run = worker[w].run
          /\ next.source = worker[w].source
      BY <1>0 DEF WorkerRow, Failing
    <3> HIDE DEF next
    <3>5. Onward(w, next)
      BY <2>1, <2>2, <3>1 DEF Onward, Transacting, Committing, Working, FailureCode
    <3>. QED BY <2>1, <2>2, <3>5, OnwardMemory
  <2>. QED BY <1>1, <1>2, <1>11, <2>1, <2>2 DEF Publish, Finish, EndTransaction
<1>12. ASSUME NEW w \in Worker, Fail(w) PROVE \A v \in Worker : MemoryOK(v)'
  BY <1>1, <1>2, <1>12 DEF Fail, Finish, EndTransaction, Finalize
<1>13. ASSUME NEW w \in Worker, LockSource(w) PROVE \A v \in Worker : MemoryOK(v)'
  <2>1. now' = now /\ expires' = expires /\ worker[w].pc = "lock source"
    BY <1>13 DEF LockSource, At, sourceVars
  <2>2. CASE IsCurrentClaim(w) /\ worker' = [worker EXCEPT ![w].pc = "publish"]
    BY <1>10, <2>1, <2>2 DEF IsCurrentClaim
  <2>. QED BY <1>1, <1>13, <2>1, <2>2 DEF LockSource, Finish
<1>14. ASSUME NEW w \in Worker, LockCanteen(w) PROVE \A v \in Worker : MemoryOK(v)'
  BY <1>10, <1>14 DEF LockCanteen, At
<1>15. ASSUME NEW w \in Worker, Acquire(w) PROVE \A v \in Worker : MemoryOK(v)'
  <2>1. worker[w].source \in Source
    BY <1>15 DEF IInv, WorkerInv, Acquire, At
  <2>2. CASE ~ClaimActive(worker[w].source, worker[w].at)
             /\ \E r \in Fresh : Claim(w, worker[w].source, r, worker[w].at)
    <3>1. PICK r \in Fresh : Claims(w, worker[w].source, r)
      BY <1>15, <2>2 DEF Acquire, Claims, At
    <3>. QED BY <1>3, <2>1, <3>1
  <2>. QED BY <1>1, <1>15, <2>2 DEF Acquire, Finish
<1>16. ASSUME NEW w \in Worker, NEW c \in worker[w].todo, PollNext(w, c)
       PROVE  \A v \in Worker : MemoryOK(v)'
  <2>1. c.source \in Source
    <3>1. c \in CandidateRow
      BY <1>0 DEF WorkerRow
    <3>. QED BY <3>1 DEF CandidateRow
  <2>2. CASE worker' = [worker EXCEPT ![w].todo = @ \ {c}] /\ now' = now
    <3> DEFINE next == [worker[w] EXCEPT !.todo = @ \ {c}]
    <3>1. worker' = [worker EXCEPT ![w] = next]
      BY <2>2 DEF IInv, TypeOK
    <3>2. next.pc = "poll" /\ next.at = worker[w].at
      BY <1>0, <1>16 DEF WorkerRow, PollNext, At
    <3> HIDE DEF next
    <3>3. /\ worker[w].at \in Nat /\ worker[w].at <= now
          /\ now <= worker[w].at + PollDuration
      BY <1>0, <1>16 DEF MemoryRow, PollNext, At, Transacting
    <3>4. MemoryRow(next, now', run', expires')
      BY <2>2, <3>2, <3>3 DEF MemoryRow, Committing, Working
    <3>. QED BY <2>2, <3>1, <3>4, MemoryMoves
  <2>3. CASE /\ sourceLock[c.source] = NoOne
             /\ \E d \in Recheck(w, c.source) : d.state = "claimable"
             /\ ~ClaimActive(c.source, worker[w].at)
             /\ \E r \in Fresh : Claim(w, c.source, r, worker[w].at)
    <3>1. PICK r \in Fresh : Claims(w, c.source, r)
      BY <1>16, <2>3 DEF PollNext, Claims, At, Recheck
    <3>. QED BY <1>3, <2>1, <3>1
  <2>4. CASE now' = now
             /\ worker' = [worker EXCEPT ![w] = [IdleWorker EXCEPT !.pc = "inconsistent"]]
    BY <1>2, <2>4
  <2>. QED BY <1>16, <2>2, <2>3, <2>4 DEF PollNext, EndTransaction
<1>17. ASSUME NEW w \in Worker, PollEnds(w) \/ Stop(w)
       PROVE  \A v \in Worker : MemoryOK(v)'
  BY <1>1, <1>17 DEF PollEnds, Stop, Finish
<1>18. CASE \/ \E s \in Switchable : ConfigureSource(s) \/ DisableSource(s)
            \/ UNCHANGED vars
  <2>1. worker' = worker /\ now' = now
    BY <1>18 DEF ConfigureSource, DisableSource, vars
  <2>2. \A v \in Worker : worker[v].pc = "poll" => now <= worker[v].at + PollDuration
    BY <1>0 DEF MemoryRow
  <2>. QED BY <2>1, <2>2, MemoryCarried
<1>19. CASE Tick
  <2>1. worker' = worker /\ now' = now + 1
    BY <1>19 DEF Tick
  <2>2. \A v \in Worker : worker[v].pc = "poll" => now + 1 <= worker[v].at + PollDuration
    <3> SUFFICES ASSUME NEW v \in Worker, worker[v].pc = "poll"
                 PROVE  now + 1 <= worker[v].at + PollDuration
      OBVIOUS
    <3>1. now < worker[v].at + PollDuration
      BY <1>19 DEF Tick, At
    <3>2. worker[v].at \in Nat
      BY <1>0 DEF MemoryRow, Transacting
    <3>. QED BY <1>0, <3>1, <3>2
  <2>. QED BY <2>1, <2>2, MemoryCarried
<1>20. ASSUME NEW w \in Worker, BeginCommit(w) \/ BeginFail(w)
       PROVE  \A v \in Worker : MemoryOK(v)'
  BY <1>9, <1>20 DEF BeginCommit, BeginFail, At, Working
<1>21. ASSUME NEW w \in Worker, Step(w) PROVE \A v \in Worker : MemoryOK(v)'
  BY <1>7, <1>8, <1>11, <1>12, <1>13, <1>14, <1>15, <1>16, <1>17, <1>20, <1>21 DEF Step
<1>. QED BY <1>4, <1>5, <1>17, <1>18, <1>19, <1>21 DEF Next

-----------------------------------------------------------------------------
(* Empty menus are confirmed. *)

LEMMA ConfirmsKept ==
  ASSUME IInv, HInv, Kept, NEW r \in Run, run[r].status # "absent", NEW k,
         NEW p \in Run, Confirms(run, p, r, k)
  PROVE  /\ Confirms(run', p, r, k)
         /\ Between(run', p, r) = Between(run, p, r)
         /\ \A q \in Between(run, p, r) : run'[q].startedAt = run[q].startedAt
<1>1. run'[r].source = run[r].source /\ run'[r].startedAt = run[r].startedAt
  BY DEF Kept
<1>2. run[p].status # "absent" /\ run[p].status # "running"
  <2>1. RowOK(p) /\ run[p].code = "empty-pending"
    BY DEF HInv, Confirms
  <2>. QED BY <2>1 DEF RowOK, AbsentRun
<1>3. /\ run'[p].source = run[p].source /\ run'[p].startedAt = run[p].startedAt
      /\ run'[p].code = run[p].code /\ run'[p].key = run[p].key
  BY <1>2 DEF Kept
<1>4. \A q \in Run : q < r =>
        /\ run'[q].source = run'[r].source <=> run[q].source = run[r].source
        /\ run[q].source = run[r].source => run'[q].startedAt = run[q].startedAt
  BY OlderRowsKept
<1>5. Between(run', p, r) = Between(run, p, r)
  BY <1>1, <1>3, <1>4 DEF Between
<1>6. \A q \in Between(run, p, r) : run'[q].startedAt = run[q].startedAt
  BY <1>4 DEF Between
<1>. QED BY <1>1, <1>3, <1>5, <1>6 DEF Confirms

LEMMA ConfirmedStays ==
  ASSUME IInv, HInv, Kept, NEW r \in Run, run[r].status # "absent", NEW k,
         NEW t \in Nat, NEW u \in Nat, t <= u, ConfirmedAt(run, r, k, t)
  PROVE  ConfirmedAt(run', r, k, u)
<1>1. PICK p \in Run : /\ Confirms(run, p, r, k)
                       /\ \A q \in Between(run, p, r) : run[q].startedAt + Retention < t
  BY DEF ConfirmedAt
<1>2. ASSUME NEW q \in Between(run', p, r)
      PROVE  run'[q].startedAt + Retention < u
  <2>1. q \in Between(run, p, r) /\ run'[q].startedAt = run[q].startedAt
    BY <1>1, <1>2, ConfirmsKept
  <2>2. run[q].startedAt \in Nat
    <3>1. q \in Run /\ q < r /\ run[q].source = run[r].source
      BY <2>1 DEF Between
    <3>2. run[q].status # "absent" /\ RowOK(q)
      BY <3>1, OlderRowsEnded DEF HInv
    <3>. QED BY <3>2 DEF RowOK
  <2>. QED BY <1>1, <2>1, <2>2, LifetimeAssumption
<1>3. Confirms(run', p, r, k)
  BY <1>1, ConfirmsKept
<1>. QED BY <1>2, <1>3 DEF ConfirmedAt

\* What confirms an empty menu goes on doing so while the time of reading grows.
LEMMA EmptyCarried ==
  ASSUME IInv, HInv, Kept, NEW v \in Worker, worker[v].pc \in Committing,
         worker'[v].run = worker[v].run, worker'[v].menu = worker[v].menu,
         worker'[v].key = worker[v].key, ReadingTime(v) \in Nat,
         ReadingTime(v)' \in Nat, ReadingTime(v) <= ReadingTime(v)'
  PROVE  EmptyOK(v)'
<1> SUFFICES ASSUME NEW r, NEW k, NEW t, NEW u,
                    r = worker[v].run, k = worker[v].key, t = ReadingTime(v),
                    u = ReadingTime(v)',
                    worker[v].menu = EmptyMenu, run'[r].status = "running"
             PROVE  ConfirmedAt(run', r, k, u)
  BY DEF EmptyOK
<1>1. r \in Run /\ run[r].status # "absent"
  BY DEF IInv, WorkerInv, HInv, MemoryOK, MemoryRow, Working, Committing
<1>2. run[r].status = "running"
  BY <1>1 DEF Kept
<1>3. ConfirmedAt(run, r, k, t)
  BY <1>2 DEF HInv, EmptyOK
<1>. QED BY <1>1, <1>3, ConfirmedStays

\* The history that a run reads to confirm an empty menu.
LEMMA EmptyConfirmed ==
  ASSUME IInv, HInv, NEW v \in Worker, worker[v].pc \in Working, EmptyIsConfirmed(v)
  PROVE  ConfirmedAt(run, worker[v].run, worker[v].key, now)
<1> DEFINE r == worker[v].run
           T == OtherTerminalRuns(v)
<1>1. r \in Run /\ run[r].status # "absent" /\ run[r].source = worker[v].source
      /\ r \in Nat /\ now \in Nat
  BY SetAssumption DEF IInv, TypeOK, WorkerInv, HInv, MemoryOK, MemoryRow
<1>2. PICK p \in Latest(T) :
        /\ run[p].code = "empty-pending"
        /\ run[p].key = worker[v].key
        /\ MealPeriod(run[p].startedAt) = MealPeriod(run[r].startedAt)
        /\ run[r].startedAt - run[p].startedAt >= EmptyMin
        /\ run[r].startedAt - run[p].startedAt <= EmptyMax
  BY DEF EmptyIsConfirmed
<1>3. p \in Run /\ p # r /\ run[p].source = run[r].source /\ run[p].status \in Terminal
      /\ \A q \in T \ {p} : Later(p, q)
  BY <1>1, <1>2 DEF Latest, OtherTerminalRuns
<1>4. run[p].startedAt \in Nat /\ run[r].startedAt \in Nat
  BY <1>1, <1>3 DEF HInv, RowOK, Terminal
<1>5. Confirms(run, p, r, worker[v].key)
  <2>1. run[r].startedAt - run[p].startedAt \in EmptyMin .. EmptyMax
    BY <1>2, <1>4, DelayAssumption
  <2>. QED BY <1>2, <1>3, <2>1 DEF Confirms
<1>6. ASSUME NEW q \in Between(run, p, r)
      PROVE  run[q].startedAt + Retention < now
  <2>1. /\ q \in Run /\ q < r /\ run[q].source = run[r].source
        /\ run[p].startedAt < run[q].startedAt
    BY <1>6 DEF Between
  <2>2. run[q].status \notin {"absent", "running"} /\ RowOK(q)
    BY <1>1, <2>1, OlderRowsEnded DEF HInv
  <2>3. run[q].startedAt \in Nat
    BY <2>2 DEF RowOK
  <2>4. run[q].status \notin Terminal
    <3> SUFFICES ASSUME run[q].status \in Terminal PROVE FALSE
      OBVIOUS
    <3>1. q \in Nat /\ q # r
      BY <1>1, <2>1, SetAssumption
    <3>2. q \in T
      BY <1>1, <2>1, <3>1 DEF OtherTerminalRuns
    <3>3. q # p
      BY <1>4, <2>1, <2>3
    <3>4. Later(p, q)
      BY <1>3, <3>2, <3>3
    <3>. QED BY <1>4, <2>1, <2>3, <3>4 DEF Later
  <2>5. run[q].status = "pruned"
    BY <2>1, <2>2, <2>4 DEF IInv, TypeOK, RunRow
  <2>6. /\ run[q].completedAt \in Nat /\ run[q].startedAt <= run[q].completedAt
        /\ run[q].completedAt + Retention < now
    BY <2>2, <2>5 DEF RowOK
  <2>. QED BY <1>1, <2>3, <2>6, LifetimeAssumption
<1>. QED BY <1>3, <1>5, <1>6 DEF ConfirmedAt

LEMMA EmptyStaysOK ==
  ASSUME IInv, IInv', HInv, [Next]_vars, Kept, NEW v \in Worker
  PROVE  EmptyOK(v)'
<1>0. /\ now \in Nat /\ now' \in Nat /\ now <= now'
      /\ worker[v] \in WorkerRow /\ MemoryRow(worker[v], now, run, expires)
  BY DEF IInv, TypeOK, HInv, MemoryOK, Kept
<1>1. CASE worker'[v].pc \notin Committing \/ worker'[v].menu # EmptyMenu
  BY <1>1 DEF EmptyOK
<1>2. CASE worker'[v] = worker[v]
  <2>1. CASE worker[v].pc \in Committing
    <3>1. worker[v].pc # "commit" => worker[v].at \in Nat
      BY <1>0, <2>1 DEF MemoryRow, Transacting, Committing
    <3>2. ReadingTime(v) \in Nat /\ ReadingTime(v)' \in Nat
          /\ ReadingTime(v) <= ReadingTime(v)'
      BY <1>0, <1>2, <3>1 DEF ReadingTime
    <3>. QED BY <1>2, <2>1, <3>2, EmptyCarried
  <2>. QED BY <1>1, <1>2, <2>1
\* A step of the commit: its transaction begins now, or goes on.
<1>3. ASSUME NEW pc, worker[v].pc \in Committing, now' = now,
             \/ /\ worker[v].pc = "commit"
                /\ worker'[v] = [worker[v] EXCEPT !.pc = pc, !.at = now]
             \/ /\ worker[v].pc # "commit"
                /\ worker'[v] = [worker[v] EXCEPT !.pc = pc],
             pc # "commit"
      PROVE  EmptyOK(v)'
  <2>1. /\ worker'[v].pc = pc /\ worker'[v].run = worker[v].run
        /\ worker'[v].menu = worker[v].menu /\ worker'[v].key = worker[v].key
        /\ worker'[v].at = IF worker[v].pc = "commit" THEN now ELSE worker[v].at
    BY <1>0, <1>3 DEF WorkerRow
  <2>2. worker[v].pc # "commit" => worker[v].at \in Nat
    BY <1>0, <1>3 DEF MemoryRow, Transacting, Committing
  <2>3. ReadingTime(v) \in Nat /\ ReadingTime(v)' \in Nat
        /\ ReadingTime(v) <= ReadingTime(v)'
    BY <1>0, <1>3, <2>1, <2>2 DEF ReadingTime
  <2>. QED BY <1>3, <2>1, <2>3, EmptyCarried
<1>4. ASSUME NEW w \in Worker, NEW next, worker' = [worker EXCEPT ![w] = next],
             next.pc \notin Committing \/ next.menu # EmptyMenu
      PROVE  EmptyOK(v)'
  BY <1>1, <1>2, <1>4 DEF IInv, TypeOK
<1>5. ASSUME NEW w \in Worker, NEW next, worker' = [worker EXCEPT ![w] = next],
             next.pc \in {"idle", "inconsistent", "fetch", "poll", "acquire", "fail",
                          "failing", "confirm"}
      PROVE  EmptyOK(v)'
  <2>1. next.pc \notin Committing
    BY <1>5 DEF Committing
  <2>. QED BY <1>4, <1>5, <2>1
<1>6. ASSUME NEW w \in Worker, worker' = [worker EXCEPT ![w] = IdleWorker]
      PROVE  EmptyOK(v)'
  BY <1>5, <1>6 DEF IdleWorker
<1>7. ASSUME NEW w \in Worker,
             worker' = [worker EXCEPT ![w] = [IdleWorker EXCEPT !.pc = "inconsistent"]]
      PROVE  EmptyOK(v)'
  <2> DEFINE next == [IdleWorker EXCEPT !.pc = "inconsistent"]
  <2>1. next.pc = "inconsistent"
    BY DEF IdleWorker
  <2> HIDE DEF next
  <2>2. worker' = [worker EXCEPT ![w] = next]
    BY <1>7 DEF next
  <2>. QED BY <1>5, <2>1, <2>2
<1>8. ASSUME NEW w \in Worker, NEW s, NEW r, NEW t, Claim(w, s, r, t)
      PROVE  EmptyOK(v)'
  <2> DEFINE next == [IdleWorker EXCEPT !.pc = "fetch", !.kind = worker[w].kind,
                                        !.source = s, !.run = r]
  <2>1. worker' = [worker EXCEPT ![w] = next]
    BY <1>8 DEF Claim, EndTransaction
  <2>2. next.pc = "fetch"
    BY DEF IdleWorker
  <2> HIDE DEF next
  <2>. QED BY <1>5, <2>1, <2>2
<1>9. ASSUME NEW w \in Worker, BeginPoll(w) PROVE EmptyOK(v)'
  <2> DEFINE todo == UNION {Candidate(s, now) : s \in Source}
             next == [IdleWorker EXCEPT !.pc = "poll", !.kind = "cron",
                                        !.at = now, !.todo = todo]
  <2>1. worker' = [worker EXCEPT ![w] = next]
    BY <1>9 DEF BeginPoll
  <2> HIDE DEF todo
  <2>2. next.pc = "poll"
    BY DEF IdleWorker
  <2> HIDE DEF next
  <2>. QED BY <1>5, <2>1, <2>2
<1>10. ASSUME NEW w \in Worker, NEW s \in Source, BeginAcquire(w, s) PROVE EmptyOK(v)'
  <2> DEFINE next == [IdleWorker EXCEPT !.pc = "acquire", !.kind = "manual",
                                        !.source = s, !.at = now]
  <2>1. worker' = [worker EXCEPT ![w] = next]
    BY <1>10 DEF BeginAcquire
  <2>2. next.pc = "acquire"
    BY DEF IdleWorker
  <2> HIDE DEF next
  <2>. QED BY <1>5, <2>1, <2>2
<1>11. ASSUME NEW w \in Worker, Fetch(w) PROVE EmptyOK(v)'
  <2>1. worker[w] \in WorkerRow
    BY DEF IInv, TypeOK
  <2>2. ASSUME NEW m \in Menu, worker' = [worker EXCEPT ![w].pc = "commit", ![w].menu = m]
        PROVE  EmptyOK(v)'
    <3> DEFINE next == [worker[w] EXCEPT !.pc = "commit", !.menu = m]
    <3>1. worker' = [worker EXCEPT ![w] = next]
      BY <2>2 DEF IInv, TypeOK
    <3>2. next.menu # EmptyMenu
      BY <2>1, SetAssumption DEF WorkerRow
    <3> HIDE DEF next
    <3>. QED BY <1>4, <3>1, <3>2
  <2>3. ASSUME NEW k \in Key,
               worker' = [worker EXCEPT ![w].pc = "confirm", ![w].menu = EmptyMenu,
                                        ![w].key = k]
        PROVE  EmptyOK(v)'
    <3> DEFINE next == [worker[w] EXCEPT !.pc = "confirm", !.menu = EmptyMenu, !.key = k]
    <3>1. worker' = [worker EXCEPT ![w] = next]
      BY <2>3 DEF IInv, TypeOK
    <3>2. next.pc = "confirm"
      BY <2>1 DEF WorkerRow
    <3> HIDE DEF next
    <3>. QED BY <1>5, <3>1, <3>2
  <2>4. ASSUME NEW c, worker' = [worker EXCEPT ![w].pc = "fail", ![w].code = c]
        PROVE  EmptyOK(v)'
    <3> DEFINE next == [worker[w] EXCEPT !.pc = "fail", !.code = c]
    <3>1. worker' = [worker EXCEPT ![w] = next]
      BY <2>4 DEF IInv, TypeOK
    <3>2. next.pc = "fail"
      BY <2>1 DEF WorkerRow
    <3> HIDE DEF next
    <3>. QED BY <1>5, <3>1, <3>2
  <2>. QED BY <1>11, <2>2, <2>3, <2>4 DEF Fetch
<1>12. ASSUME NEW w \in Worker, ConfirmEmpty(w) PROVE EmptyOK(v)'
  <2>1. worker[w] \in WorkerRow /\ now' = now /\ run' = run
        /\ worker[w].pc = "confirm" /\ worker[w].pc \in Working
    BY <1>12 DEF IInv, TypeOK, ConfirmEmpty, At, Working
  <2>2. CASE EmptyIsConfirmed(w) /\ worker' = [worker EXCEPT ![w].pc = "commit"]
    <3>1. CASE w = v
      <4>1. ConfirmedAt(run, worker[v].run, worker[v].key, now)
        BY <2>1, <2>2, <3>1, EmptyConfirmed
      <4>2. worker'[v].pc = "commit" /\ worker'[v].run = worker[v].run
            /\ worker'[v].key = worker[v].key
        BY <1>0, <2>2, <3>1 DEF IInv, TypeOK, WorkerRow
      <4>. QED BY <2>1, <4>1, <4>2 DEF EmptyOK, ReadingTime
    <3>2. CASE w # v
      BY <1>2, <2>2, <3>2 DEF IInv, TypeOK
    <3>. QED BY <3>1, <3>2
  <2>3. CASE worker' = [worker EXCEPT ![w].pc = "fail", ![w].code = "empty-pending"]
    <3> DEFINE next == [worker[w] EXCEPT !.pc = "fail", !.code = "empty-pending"]
    <3>1. worker' = [worker EXCEPT ![w] = next]
      BY <2>3 DEF IInv, TypeOK
    <3>2. next.pc = "fail"
      BY <2>1 DEF WorkerRow
    <3> HIDE DEF next
    <3>. QED BY <1>5, <3>1, <3>2
  <2>. QED BY <1>12, <2>2, <2>3 DEF ConfirmEmpty
<1>13. ASSUME NEW w \in Worker, BeginCommit(w) PROVE EmptyOK(v)'
  <2>1. now' = now /\ worker[w].pc = "commit" /\ worker[w].pc \in Committing
    BY <1>13 DEF BeginCommit, At, Committing
  <2>2. CASE w = v
    <3>1. worker'[v] = [worker[v] EXCEPT !.pc = "lock canteen", !.at = now]
      BY <1>13, <2>2 DEF BeginCommit, IInv, TypeOK
    <3>. QED BY <1>3, <2>1, <2>2, <3>1
  <2>3. CASE w # v
    BY <1>2, <1>13, <2>3 DEF BeginCommit, IInv, TypeOK
  <2>. QED BY <2>2, <2>3
<1>14. ASSUME NEW w \in Worker, NEW pc \in {"lock source", "publish"}, now' = now,
              worker[w].pc \in {"lock canteen", "lock source"},
              worker' = [worker EXCEPT ![w].pc = pc]
       PROVE  EmptyOK(v)'
  <2>1. CASE w = v
    <3>1. worker'[v] = [worker[v] EXCEPT !.pc = pc]
      BY <1>14, <2>1 DEF IInv, TypeOK
    <3>2. worker[v].pc \in Committing /\ worker[v].pc # "commit" /\ pc # "commit"
      BY <1>14, <2>1 DEF Committing
    <3>. QED BY <1>3, <1>14, <3>1, <3>2
  <2>2. CASE w # v
    BY <1>2, <1>14, <2>2 DEF IInv, TypeOK
  <2>. QED BY <2>1, <2>2
<1>15. ASSUME NEW w \in Worker, LockCanteen(w) PROVE EmptyOK(v)'
  BY <1>14, <1>15 DEF LockCanteen, At
<1>16. ASSUME NEW w \in Worker, LockSource(w) PROVE EmptyOK(v)'
  BY <1>6, <1>14, <1>16 DEF LockSource, At, Finish
<1>17. ASSUME NEW w \in Worker, Publish(w) PROVE EmptyOK(v)'
  <2> DEFINE next == Failing(w)
  <2>1. CASE worker' = [worker EXCEPT ![w] = next]
    <3>1. next.pc = "fail"
      BY DEF IInv, TypeOK, WorkerRow, Failing
    <3> HIDE DEF next
    <3>. QED BY <1>5, <2>1, <3>1
  <2>. QED BY <1>6, <1>7, <1>17, <2>1 DEF Publish, Finish, EndTransaction
<1>18. ASSUME NEW w \in Worker, BeginFail(w) PROVE EmptyOK(v)'
  <2> DEFINE next == [worker[w] EXCEPT !.pc = "failing", !.at = now]
  <2>1. worker' = [worker EXCEPT ![w] = next]
    BY <1>18 DEF IInv, TypeOK, BeginFail
  <2>2. next.pc = "failing"
    BY DEF IInv, TypeOK, WorkerRow
  <2> HIDE DEF next
  <2>. QED BY <1>5, <2>1, <2>2
<1>19. ASSUME NEW w \in Worker, Fail(w) PROVE EmptyOK(v)'
  BY <1>6, <1>7, <1>19 DEF Fail, Finish, EndTransaction
<1>20. ASSUME NEW w \in Worker, Acquire(w) PROVE EmptyOK(v)'
  BY <1>6, <1>8, <1>20 DEF Acquire, Finish
<1>21. ASSUME NEW w \in Worker, NEW c \in worker[w].todo, PollNext(w, c)
       PROVE  EmptyOK(v)'
  <2>1. CASE worker' = [worker EXCEPT ![w].todo = @ \ {c}]
    <3> DEFINE next == [worker[w] EXCEPT !.todo = @ \ {c}]
    <3>1. worker' = [worker EXCEPT ![w] = next]
      BY <2>1 DEF IInv, TypeOK
    <3>2. next.pc = "poll"
      BY <1>21 DEF IInv, TypeOK, WorkerRow, PollNext, At
    <3> HIDE DEF next
    <3>. QED BY <1>5, <3>1, <3>2
  <2>. QED BY <1>7, <1>8, <1>21, <2>1 DEF PollNext, EndTransaction
<1>22. ASSUME NEW w \in Worker, PollEnds(w) \/ Stop(w) PROVE EmptyOK(v)'
  BY <1>6, <1>22 DEF PollEnds, Stop, Finish
<1>23. CASE \/ \E s \in Switchable : ConfigureSource(s) \/ DisableSource(s)
            \/ Tick \/ UNCHANGED vars
  BY <1>2, <1>23 DEF ConfigureSource, DisableSource, Tick, vars
<1>24. ASSUME NEW w \in Worker, Step(w) PROVE EmptyOK(v)'
  BY <1>11, <1>12, <1>13, <1>15, <1>16, <1>17, <1>18, <1>19, <1>20, <1>21, <1>22, <1>24
     DEF Step
<1>. QED BY <1>9, <1>10, <1>22, <1>23, <1>24 DEF Next

\* A claim is as old as its run, so what was seen when the confirmation was read
\* is all there is: nothing pruned since then lies that far back.
LEMMA PublishedConfirmed ==
  ASSUME IInv, HInv, NEW w \in Worker, Succeeds(w), worker[w].menu = EmptyMenu
  PROVE  \E p \in Run : /\ Confirms(run, p, worker[w].run, worker[w].key)
                        /\ Between(run, p, worker[w].run) = {}
<1> DEFINE r == worker[w].run
           s == worker[w].source
<1>1. /\ worker[w].pc = "publish" /\ worker[w].pc \in Committing
      /\ worker[w].pc \in Transacting
      /\ r \in Run /\ s \in Source /\ token[s] = r /\ run[r].status = "running"
      /\ RowOK(r) /\ MemoryRow(worker[w], now, run, expires) /\ EmptyOK(w) /\ ClaimsOK
  BY DEF Succeeds, Ends, HInv, MemoryOK, Committing, Transacting
<1>2. ConfirmedAt(run, r, worker[w].key, worker[w].at)
  BY <1>1 DEF EmptyOK, ReadingTime
<1>3. PICK p \in Run : /\ Confirms(run, p, r, worker[w].key)
                       /\ \A q \in Between(run, p, r) :
                            run[q].startedAt + Retention < worker[w].at
  BY <1>2 DEF ConfirmedAt
<1>4. /\ run[r].startedAt \in Nat
      /\ worker[w].at \in Nat
      /\ expires[s] > worker[w].at
      /\ expires[s] = run[r].startedAt + ClaimDuration
  <2>1. token[s] # NoRun
    BY <1>1, SetAssumption DEF NoRun
  <2>. QED BY <1>1, <2>1 DEF RowOK, MemoryRow, ClaimsOK
<1>5. run[p].startedAt \in Nat
  <2>1. RowOK(p) /\ run[p].code = "empty-pending"
    BY <1>3 DEF HInv, Confirms
  <2>. QED BY <2>1 DEF RowOK, AbsentRun
<1>6. run[r].startedAt - run[p].startedAt <= EmptyMax
  BY <1>3, <1>4, <1>5, DelayAssumption DEF Confirms
<1>7. ASSUME NEW q \in Between(run, p, r) PROVE FALSE
  <2>1. /\ q \in Run /\ q < r /\ run[q].source = run[r].source
        /\ run[p].startedAt < run[q].startedAt
    BY <1>7 DEF Between
  <2>2. run[q].startedAt \in Nat
    <3>1. run[q].status # "absent" /\ RowOK(q)
      BY <1>1, <2>1, OlderRowsEnded DEF HInv
    <3>. QED BY <3>1 DEF RowOK
  <2>3. run[q].startedAt + Retention < worker[w].at
    BY <1>3, <1>7
  <2> DEFINE a == run[q].startedAt
             b == run[p].startedAt
             c == run[r].startedAt
             t == worker[w].at
  <2>4. /\ a \in Nat /\ b \in Nat /\ c \in Nat /\ t \in Nat
        /\ b < a /\ a + Retention < t /\ c - b <= EmptyMax /\ c + ClaimDuration > t
    BY <1>4, <1>5, <1>6, <2>1, <2>2, <2>3
  <2> HIDE DEF a, b, c, t
  <2>. QED BY <2>4, LifetimeAssumption, DelayAssumption
<1>8. Between(run, p, r) = {}
  BY <1>7
<1>. QED BY <1>3, <1>8

\* A row gets its menu when its claim succeeds.
LEMMA NewMenus ==
  ASSUME IInv, HInv, Changes, NEW r \in Run, run'[r].menu # run[r].menu
  PROVE  \E w \in Worker :
           /\ Succeeds(w) /\ r = worker[w].run
           /\ run'[r].menu = worker[w].menu /\ run'[r].key = worker[w].key
<1>0. \A q \in Run : run[q] \in RunRow
  BY DEF IInv, TypeOK
<1>1. CASE Prunes
  <2>1. PICK sources \in SUBSET Source : run' = Pruned(sources, now)
    BY <1>1 DEF Prunes
  <2>. QED BY <2>1, PrunedFields
<1>2. CASE Leaves
  BY <1>2 DEF Leaves
<1>3. ASSUME NEW w \in Worker, NEW s \in Source, NEW u \in Fresh, Claims(w, s, u)
      PROVE  FALSE
  <2>1. CASE r = u
    <3>1. run'[r].menu = NoMenu /\ run[r].status = "absent"
      BY <1>3, <2>1, ClaimRows, ClaimedRow
    <3>2. RowOK(r)
      BY DEF HInv
    <3>3. run[r].menu = NoMenu
      BY <3>1, <3>2 DEF RowOK, AbsentRun
    <3>. QED BY <3>1, <3>3
  <2>2. CASE r # u
    BY <1>0, <1>3, <2>2, ClaimRows, SupersededFields
  <2>. QED BY <2>1, <2>2
<1>4. ASSUME NEW w \in Worker, Succeeds(w)
      PROVE  /\ r = worker[w].run
             /\ run'[r].menu = worker[w].menu /\ run'[r].key = worker[w].key
  <2>1. PICK f : Ends(w, SucceededRow(w, f))
    BY <1>4 DEF Succeeds
  <2>. QED BY <2>1, EndRows, SucceededRowFields
<1>5. ASSUME NEW w \in Worker, Fails(w) PROVE FALSE
  <2>1. PICK c \in FailureCode : Ends(w, FailedRow(w, c))
    BY <1>5 DEF Fails
  <2>. QED BY <2>1, EndRows, FailedRowFields
<1>. QED BY <1>1, <1>2, <1>3, <1>4, <1>5 DEF Changes

LEMMA EmptyRowsConfirmed ==
  ASSUME IInv, HInv, Changes, Kept
  PROVE  EmptyMenuConfirmed'
<1> SUFFICES ASSUME NEW r \in Run, run'[r].menu = EmptyMenu
             PROVE  \E p \in Run : /\ Confirms(run', p, r, run'[r].key)
                                   /\ Between(run', p, r) = {}
  BY DEF EmptyMenuConfirmed, ConfirmedBy, Confirms, Between
<1>1. \E p \in Run : /\ run[r].status # "absent"
                     /\ Confirms(run, p, r, run'[r].key)
                     /\ Between(run, p, r) = {}
  <2>1. CASE run[r].menu = EmptyMenu
    <3>1. RowOK(r) /\ EmptyMenu # NoMenu
      BY SetAssumption DEF HInv
    <3>2. run[r].status \notin {"absent", "running"}
      BY <2>1, <3>1 DEF RowOK, AbsentRun
    <3>3. run'[r].key = run[r].key
      BY <3>2 DEF Kept
    <3>4. PICK p \in Run : p # r /\ ConfirmedBy(r, p)
      BY <2>1 DEF HInv, EmptyMenuConfirmed
    <3>5. Confirms(run, p, r, run[r].key) /\ Between(run, p, r) = {}
      BY <3>4 DEF ConfirmedBy, Confirms, Between
    <3>. QED BY <3>2, <3>3, <3>5
  <2>2. CASE run[r].menu # EmptyMenu
    <3>1. PICK w \in Worker : /\ Succeeds(w) /\ r = worker[w].run
                              /\ run'[r].menu = worker[w].menu
                              /\ run'[r].key = worker[w].key
      BY <2>2, NewMenus
    <3>2. run[r].status = "running"
      BY <3>1 DEF Succeeds, Ends
    <3>. QED BY <3>1, <3>2, PublishedConfirmed
  <2>. QED BY <2>1, <2>2
<1>2. PICK p \in Run : /\ run[r].status # "absent"
                       /\ Confirms(run, p, r, run'[r].key)
                       /\ Between(run, p, r) = {}
  BY <1>1
<1>3. Confirms(run', p, r, run'[r].key) /\ Between(run', p, r) = Between(run, p, r)
  BY <1>2, ConfirmsKept
<1>. QED BY <1>2, <1>3

-----------------------------------------------------------------------------
(* The history keeps its order, its pauses and its confirmations. *)

LEMMA InitHInv ==
  ASSUME Init
  PROVE  HInv
<1>1. \A r \in Run : run[r] = AbsentRun
  BY DEF Init
<1>2. \A w \in Worker : worker[w] = IdleWorker
  BY DEF Init
<1>3. \A r \in Run : RowOK(r)
  BY <1>1 DEF RowOK, AbsentRun
<1>4. ClaimsOK
  BY <1>1 DEF Init, ClaimsOK, AbsentRun
<1>5. \A w \in Worker : MemoryOK(w)
  <2>1. IdleWorker.pc = "idle"
    BY DEF IdleWorker
  <2>2. MemoryRow(IdleWorker, now, run, expires)
    BY <2>1, IdleMemory
  <2>. QED BY <1>2, <2>2 DEF MemoryOK
<1>6. \A w \in Worker : EmptyOK(w)
  <2>1. IdleWorker.pc \notin Committing
    BY DEF IdleWorker, Committing
  <2>. QED BY <1>2, <2>1 DEF EmptyOK
<1>7. EmptyMenuConfirmed
  BY <1>1, SetAssumption DEF EmptyMenuConfirmed, AbsentRun
<1>8. \A r \in Run : ScheduleOK(r)
  BY <1>1 DEF ScheduleOK, SpacedOK, AbsentRun
<1>. QED BY <1>3, <1>4, <1>5, <1>6, <1>7, <1>8 DEF HInv

LEMMA NextHInv ==
  ASSUME IInv, IInv', HInv, [Next]_vars
  PROVE  HInv'
<1>1. Changes
  BY HistoryChanges
<1>2. Kept
  BY <1>1, HistoryKept
<1>3. \A r \in Run : RowOK(r)'
  BY <1>1, RowsStayOK
<1>4. ClaimsOK'
  BY <1>1, <1>2, ClaimsStayOK
<1>5. \A w \in Worker : MemoryOK(w)'
  BY <1>1, <1>2, <1>4, MemoryStaysOK
<1>6. \A w \in Worker : EmptyOK(w)'
  BY <1>2, EmptyStaysOK
<1>7. EmptyMenuConfirmed'
  BY <1>1, <1>2, EmptyRowsConfirmed
<1>8. ASSUME NEW r \in Run PROVE ScheduleOK(r)'
  <2>1. CASE run[r].status # "absent"
    BY <1>2, <2>1, ScheduleKept
  <2>2. CASE run[r].status = "absent" /\ run'[r].status = "absent"
    <3>1. run'[r].by = "none"
      BY <1>3, <2>2 DEF RowOK, AbsentRun
    <3>. QED BY <3>1 DEF ScheduleOK, SpacedOK
  <2>3. CASE run[r].status = "absent" /\ run'[r].status # "absent"
    <3>1. PICK w \in Worker, s \in Source : r \in Fresh /\ Claims(w, s, r)
      BY <1>1, <2>3, NewRows
    <3>. QED BY <1>2, <3>1, ClaimedSchedule
  <2>. QED BY <2>1, <2>2, <2>3
<1>. QED BY <1>3, <1>4, <1>5, <1>6, <1>7, <1>8 DEF HInv

THEOREM History == Spec => []HInv
<1>1. IInv /\ IInv' /\ HInv /\ [Next]_vars => HInv'
  BY NextHInv
<1>2. Init => HInv
  BY InitHInv
<1>. QED BY <1>1, <1>2, Invariance, PTL DEF Spec

(* An empty menu is published only after another run, claimed between      *)
(* EmptyMin and EmptyMax earlier in the same meal period, saw the same     *)
(* empty publication, and no run started between the two: the history that *)
(* confirms it is read outside the transaction that publishes, and is      *)
(* pruned meanwhile (emptyMenuObservationIsConfirmed).                     *)
THEOREM EmptyMenusAreConfirmed == Spec => []EmptyMenuConfirmed
<1>1. HInv => EmptyMenuConfirmed
  BY DEF HInv
<1>. QED BY <1>1, History, PTL

(* A scheduled run of a catalog source waited for the pause the failures   *)
(* of its window ask for, the later delay once two have counted, although  *)
(* polls and claims interleave (classifyMenuSourceSchedule).               *)
THEOREM RetriesAreSpaced == Spec => []RetrySpacing
<1>1. HInv => RetrySpacing
  BY DEF HInv, ScheduleOK, SpacedOK, RetrySpacing
<1>. QED BY <1>1, History, PTL

(* A window sees at most MaxWindowFailures counted failures of a source's  *)
(* scheduled runs without a success between them (MAX_WINDOW_FAILURES).    *)
THEOREM RetriesAreBounded == Spec => []RetryBudget
<1>1. HInv => RetryBudget
  <2> SUFFICES ASSUME HInv, NEW r \in Run, ScheduledFailure(r)
               PROVE  Cardinality(FailuresUpTo(r)) <= MaxWindowFailures
    BY DEF RetryBudget
  <2> DEFINE B == CountedBefore(r)
             U == FailuresUpTo(r)
  <2>1. Cardinality(B) < MaxWindowFailures
    BY DEF HInv, ScheduleOK, ScheduledFailure
  <2>2. IsFiniteSet(Run) /\ B \subseteq Run
    BY SetAssumption DEF CountedBefore, FailuresUpTo
  <2>3. IsFiniteSet(B) /\ Cardinality(B) \in Nat
    BY <2>2, FS_Subset, FS_CardinalityType
  <2>4. r \notin B /\ U \subseteq B \union {r}
    BY DEF CountedBefore
  <2>5. IsFiniteSet(B \union {r}) /\ Cardinality(B \union {r}) = Cardinality(B) + 1
    BY <2>3, <2>4, FS_AddElement
  <2>6. Cardinality(U) \in Nat /\ Cardinality(U) <= Cardinality(B \union {r})
    BY <2>4, <2>5, FS_Subset, FS_CardinalityType
  <2>. HIDE DEF B, U
  <2>7. Cardinality(U) <= MaxWindowFailures
    BY <2>1, <2>3, <2>5, <2>6, DelayAssumption
  <2>. QED BY <2>7 DEF U
<1>. QED BY <1>1, History, PTL
=============================================================================
