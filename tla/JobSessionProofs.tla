------------------------- MODULE JobSessionProofs -------------------------
(***************************************************************************)
(* Proofs about the realtime sessions of JobManager and the source pins of *)
(* sessions and jobs, on top of what JobManagerProofs says of tokens, rows *)
(* and gates.                                                              *)
(***************************************************************************)
EXTENDS JobManagerProofs

-----------------------------------------------------------------------------
(***************************************************************************)
(* The realtime sessions: the proofs of OneAttempt, LastSuccessMonotone    *)
(* and OneSessionToken, and, while no database call has failed, of         *)
(* QueuedIsScheduled and LastSuccessDurable.                               *)
(*                                                                         *)
(* A session gives its running slot back when finishSession is called with *)
(* a copy of the job that may be stale.  Settled says what such a copy is  *)
(* worth: once it is terminal and no completion is deferred, the row has   *)
(* ended.  Slots relates the revisions in a session's slots, Tokens its    *)
(* scheduled flag with the tokens in the channel and at the workers.       *)
(***************************************************************************)
-----------------------------------------------------------------------------
(* The copies of a job that finishSession is called with. *)

Ended == Terminal \cup {"deleted"}

(* A worker that takes its job for finished. *)
Closing == {"publish", "unwind", "settle"}
Concludes(r) == r.pc = "publish" \/ (r.pc \in Closing /\ r.known \in Terminal)

WorkersSettled ==
    \A w \in Workers : Concludes(worker[w]) /\ worker[w].token \notin Deferred
                       => jobs[worker[w].token].status \in Ended
RecoverySettled == recovery.pc = "settle" => jobs[recovery.job].status \in Ended
AccountingSettled == \A j \in Jobs : completions[j].from = "succeeded" => jobs[j].status \in Ended
Settled == WorkersSettled /\ RecoverySettled /\ AccountingSettled

EndedKept == \A j \in Jobs : jobs[j].status \in Ended => jobs'[j].status \in Ended

(* No step takes an ended row back, or forgets one. *)
LEMMA NextEnded ==
    ASSUME TypeInv, TypeInv', TokenInv, GateInv, Next
    PROVE  EndedKept /\ \A j \in Jobs : jobs[j].status # "none" => jobs'[j].status # "none"
<1>1. \A j \in Jobs : jobs[j].status \in Status
  BY DEF TypeInv, TypeOK, Job
<1>2. CASE GatesObeyed
  BY <1>1, <1>2 DEF GatesObeyed, Lifecycle!Moves, Lifecycle!Final, EndedKept, Ended, Terminal, Status, Pending
<1>3. CASE Restart
  BY <1>3, RestartGates DEF EndedKept, Ended, Terminal, Pending
<1>4. QED
  BY <1>2, <1>3, StepGates

WorkerSettledStep(w) ==
    Concludes(worker'[w]) /\ worker'[w].token \notin Deferred'
    => \/ jobs'[worker'[w].token].status \in Ended
       \/ Concludes(worker[w]) /\ worker[w].token \notin Deferred /\ worker'[w].token = worker[w].token

(* A step from what it does to rows, workers, recovery and deferred        *)
(* completions.                                                            *)
LEMMA SettledStep ==
    ASSUME TypeInv, TypeInv', Settled, EndedKept,
           \A w \in Workers : WorkerSettledStep(w),
           recovery'.pc = "settle" => recovery' = recovery \/ jobs'[recovery'.job].status \in Ended,
           \A j \in Jobs : completions'[j].from = "succeeded"
                           => completions[j].from = "succeeded" \/ jobs'[j].status \in Ended
    PROVE  Settled'
<1>1. WorkersSettled'
  <2> SUFFICES ASSUME NEW w \in Workers, Concludes(worker'[w]), worker'[w].token \notin Deferred'
               PROVE  jobs'[worker'[w].token].status \in Ended
    BY DEF WorkersSettled
  <2>1. worker'[w].token \in Jobs
    BY DEF TypeInv, WorkerHolds, Concludes, Closing
  <2>2. QED
    BY <2>1 DEF WorkerSettledStep, Settled, WorkersSettled, EndedKept
<1>2. RecoverySettled'
  BY DEF RecoverySettled, Settled, EndedKept, TypeInv, RecoveryHolds
<1>3. AccountingSettled'
  BY DEF AccountingSettled, Settled, EndedKept
<1>4. QED
  BY <1>1, <1>2, <1>3 DEF Settled

(* A worker that does not move, a completion that is not touched. *)
LEMMA SettledStill ==
    ASSUME TypeInv, TypeInv', Settled, EndedKept, completions' = completions,
           recovery'.pc = "settle" => recovery' = recovery
    PROVE  /\ worker' = worker => Settled'
           /\ \A w \in Workers : (\A v \in Workers \ {w} : worker'[v] = worker[v]) /\ WorkerSettledStep(w)
                                 => Settled'
<1>1. Deferred' = Deferred
  BY DEF Deferred
<1>2. \A v \in Workers : worker'[v] = worker[v] => WorkerSettledStep(v)
  BY <1>1 DEF WorkerSettledStep
<1>3. QED
  BY <1>1, <1>2, SettledStep

(* The sessions' requests leave the workers and the completions alone. *)
LEMMA SessionNextStill ==
    ASSUME SessionNext
    PROVE  /\ worker' = worker /\ completions' = completions /\ recovery' = recovery
           /\ active' = active /\ leaving' = leaving /\ unmarked' = unmarked
<1> DEFINE Still == /\ worker' = worker /\ completions' = completions /\ recovery' = recovery
                   /\ active' = active /\ leaving' = leaving /\ unmarked' = unmarked
<1>1. ASSUME NEW s \in Sessions, \/ CreateSession(s) \/ RenewSession(s) \/ LeaseTick(s)
                                 \/ CloseSession(s) \/ ClosePendingLost(s)
      PROVE  Still
  BY <1>1 DEF CreateSession, RenewSession, LeaseTick, CloseSession, ClosePendingLost, asideVars
<1>2. ASSUME NEW s \in Sessions, NEW j \in Jobs, NEW p \in Snapshots, SubmitRevision(s, j, p) \/ SubmitLost(s, j, p)
      PROVE  Still
  BY <1>2 DEF SubmitRevision, SubmitLost, asideVars
<1>3. ASSUME NEW s \in Sessions, NEW j \in Jobs, NEW p \in Snapshots, NEW o, NEW r, SubmitFailed(s, j, p, o, r)
      PROVE  Still
  BY <1>3 DEF SubmitFailed, asideVars
<1>4. ASSUME NEW s \in Sessions, NEW o, CloseRunningFailed(s, o)
      PROVE  Still
  BY <1>4 DEF CloseRunningFailed, asideVars
<1>5. QED
  BY <1>1, <1>2, <1>3, <1>4 DEF SessionNext

(* Whatever calls finishSession has written the row before. *)
LEMMA NextSettled ==
    ASSUME TypeInv, TypeInv', TokenInv, GateInv, Settled, Next
    PROVE  Settled'
<1> USE DEF TypeInv
<1>1. EndedKept
  BY NextEnded
<1>2. CASE ClientNext
  BY <1>1, <1>2, SettledStill DEF ClientNext, Enqueue, CancelQueued, CancelRunning, CleanupProject
<1>3. CASE SessionNext
  BY <1>1, <1>3, SessionNextStill, SettledStill
<1>4. CASE BackgroundNext
  <2>1. CASE Restart
    <3>1. recovery'.pc = "idle" /\ (\A w \in Workers : worker'[w].pc = "idle") /\ \A j \in Jobs : completions'[j].from = "none"
      BY <2>1 DEF Restart, IdleRecovery, IdleWorker, NoCompletion
    <3>2. QED
      BY <3>1 DEF Settled, WorkersSettled, RecoverySettled, AccountingSettled, Concludes, Closing
  <2>2. QED
    BY <1>1, <1>4, <2>1, SettledStill DEF BackgroundNext, CancelUnsent, FeedRecovered, PruneTerminal, MaintainSession
<1>5. CASE RecoveryNext
  <2>1. ASSUME NEW j \in Jobs, RetryCompletion(j)
        PROVE  Settled'
    <3>1. /\ j \in Deferred /\ jobs[j].status # "deleted" /\ jobs' = RecoveredRow(j) /\ worker' = worker
          /\ completions' = [completions EXCEPT ![j] = NoCompletion] /\ recovery'.job = j
      BY <2>1 DEF RetryCompletion
    <3>2. jobs[j].status \in Terminal \cup {"running"}
      BY <3>1 DEF GateInv, DeferredGated, RowKept
    <3>3. completions[j].to \in Terminal /\ completions[j].from \in {"running", "succeeded"}
      <4>1. completions[j] \in Completion /\ completions[j] # NoCompletion
        BY <3>1 DEF TypeOK, Deferred, NoCompletion
      <4>2. QED
        BY <4>1 DEF Completion, Terminal
    <3>4. jobs'[j].status \in Ended
      <4>1. CASE completions[j].from = "running"
        BY <3>1, <3>2, <3>3, <4>1 DEF RecoveredRow, Transition, SetStatus, TypeOK, Job, Ended
      <4>2. CASE completions[j].from = "succeeded"
        BY <1>1, <4>2 DEF Settled, AccountingSettled, EndedKept
      <4>3. QED
        BY <3>3, <4>1, <4>2
    <3>5. \A k \in Jobs \ {j} : completions'[k] = completions[k] /\ completions'[j] = NoCompletion
      BY <3>1 DEF TypeOK
    <3>6. \A w \in Workers : WorkerSettledStep(w)
      <4> SUFFICES ASSUME NEW w \in Workers, worker[w].token \notin Deferred', worker[w].token # j
                   PROVE  worker[w].token \notin Deferred
        BY <3>1, <3>4 DEF WorkerSettledStep
      <4>1. QED
        BY <3>5 DEF Deferred
    <3>7. \A k \in Jobs : completions'[k].from = "succeeded" => completions[k].from = "succeeded"
      BY <3>1 DEF NoCompletion, TypeOK
    <3>8. QED
      BY <1>1, <3>1, <3>4, <3>6, <3>7, SettledStep
  <2>2. QED
    BY <1>1, <1>5, <2>1, SettledStill DEF RecoveryNext, RetryLost, RecoverSession, RecoverGate, TypeOK, Recovery, IdleRecovery
<1>6. ASSUME NEW w \in Workers, WorkerNext(w)
      PROVE  Settled'
  <2>1. CASE Receive(w) \/ TakeSession(w) \/ Requeue(w) \/ Forget(w) \/ OpenGate(w)
    <3>1. /\ completions' = completions /\ recovery' = recovery /\ worker'[w].pc \notin Closing
          /\ \A v \in Workers \ {w} : worker'[v] = worker[v]
      <4>1. CASE Requeue(w)
        BY <4>1, RequeueType DEF Requeue, Closing
      <4>2. QED
        BY <2>1, <4>1 DEF Receive, TakeSession, Forget, OpenGate, Idle, IdleWorker, Closing, TypeOK
    <3>2. QED
      BY <1>1, <3>1, SettledStill DEF WorkerSettledStep, Concludes, Closing
  <2>2. ASSUME NEW pc, NEW known, Goto(w, pc, known), completions' = completions, recovery' = recovery,
               \/ pc \notin Closing \/ (pc # "publish" /\ known \notin Terminal)
               \/ jobs'[worker[w].token].status \in Ended
               \/ pc # "publish" /\ worker[w].pc \in Closing /\ known = worker[w].known
        PROVE  Settled'
    <3>1. /\ worker'[w].pc = pc /\ worker'[w].known = known /\ worker'[w].token = worker[w].token
          /\ \A v \in Workers \ {w} : worker'[v] = worker[v]
      BY <2>2 DEF Goto, TypeOK, Worker
    <3>2. WorkerSettledStep(w)
      BY <2>2, <3>1 DEF WorkerSettledStep, Deferred, Concludes, Closing
    <3>3. QED
      BY <1>1, <2>2, <3>1, <3>2, SettledStill
  <2>3. ASSUME NEW o \in Outcomes, LoadJob(w, o)
        PROVE  Settled'
    <3>1. /\ completions' = completions /\ recovery' = recovery /\ jobs' = jobs
          /\ \/ Idle(w)
             \/ Goto(w, "requeue", "none") \/ Goto(w, "start", jobs[worker[w].token].status)
             \/ Goto(w, "settle", jobs[worker[w].token].status)
      BY <2>3 DEF LoadJob, LoadFailed
    <3>2. CASE Idle(w)
      BY <1>1, <3>1, <3>2, SettledStill DEF WorkerSettledStep, Idle, IdleWorker, Concludes, Closing, TypeOK
    <3>3. QED
      BY <2>2, <3>1, <3>2 DEF Closing, Ended
  <2>4. ASSUME NEW o \in Outcomes, RejectJob(w, o) \/ StartJob(w, o)
        PROVE  Settled'
    <3>1. /\ completions' = completions /\ recovery' = recovery
          /\ Goto(w, "settle", "queued") \/ \E pc \in {"requeue", "compile", "unwind"} : Goto(w, pc, "running")
      BY <2>4 DEF RejectJob, StartJob
    <3>2. QED
      BY <2>2, <3>1 DEF Terminal
  <2>5. CASE Deactivate(w) \/ \E o \in Outcomes : SettleSession(w, o)
    <3>1. /\ completions' = completions /\ recovery' = recovery /\ worker[w].pc \in Closing
          /\ \E pc \in {"settle", "gate"} : Goto(w, pc, worker[w].known)
      BY <2>5 DEF Deactivate, SettleSession, Closing
    <3>2. QED
      BY <2>2, <3>1
  <2>6. ASSUME worker[w].pc \in Attempts, NEW from, NEW to, Defer(worker[w].token, from, to), from # "none",
               from = "succeeded" => jobs'[worker[w].token].status \in Ended,
               NEW known, Goto(w, "unwind", known), recovery' = recovery
        PROVE  Settled'
    <3>1. PICK j \in Jobs : j = worker[w].token
      BY <2>6, HeldJob DEF Attempts
    <3>2. \A v \in Workers \ {w} : worker'[v] = worker[v] /\ worker[v].token # j
      BY <2>6, <3>1, GotoWorkers DEF TokenInv, SoleToken
    <3>3. worker'[w].token = j
      BY <2>6, <3>1, GotoWorkers
    <3>4. completions'[j].from = from /\ \A k \in Jobs \ {j} : completions'[k] = completions[k]
      BY <2>6, <3>1 DEF Defer, TypeOK
    <3>5. j \in Deferred' /\ \A k \in Jobs \ {j} : k \in Deferred => k \in Deferred'
      BY <2>6, <3>4 DEF Deferred
    <3>6. WorkerSettledStep(w)
      BY <3>3, <3>5 DEF WorkerSettledStep
    <3>7. \A v \in Workers \ {w} : WorkerSettledStep(v)
      BY <3>2, <3>5 DEF WorkerSettledStep, Deferred
    <3>8. \A k \in Jobs : completions'[k].from = "succeeded"
                            => completions[k].from = "succeeded" \/ jobs'[k].status \in Ended
      BY <2>6, <3>1, <3>4
    <3>9. QED
      BY <1>1, <2>6, <3>6, <3>7, <3>8, SettledStep
  <2>7. ASSUME NEW out \in {"succeeded", "failed"}, NEW o \in Outcomes, FinishJob(w, out, o)
        PROVE  Settled'
    <3>1. worker[w].pc = "compile" /\ recovery' = recovery
      BY <2>7 DEF FinishJob
    <3>2. worker[w].token \in Jobs /\ RowKept(worker[w].token)
      BY <3>1, HeldJob DEF GateInv, AttemptGated, Attempts
    <3>3. CASE o = "ok" /\ jobs[worker[w].token].status # "deleted"
      <4>1. jobs' = Transition(jobs, worker[w].token, "running", out) /\ completions' = completions
        BY <2>7, <3>3 DEF FinishJob
      <4>2. jobs'[worker[w].token].status \in Ended
        BY <3>2, <3>3, <4>1 DEF RowKept, Transition, SetStatus, TypeOK, Job, Ended, Terminal
      <4>3. \E pc, known : Goto(w, pc, known)
        BY <2>7, <3>3 DEF FinishJob
      <4>4. QED
        BY <2>2, <3>1, <4>1, <4>2, <4>3
    <3>4. CASE ~(o = "ok" /\ jobs[worker[w].token].status # "deleted")
      BY <2>6, <2>7, <3>1, <3>4 DEF FinishJob, Attempts
    <3>5. QED
      BY <3>3, <3>4
  <2>8. ASSUME worker[w].pc = "publish"
        PROVE  jobs'[worker[w].token].status \in Ended
    <3>1. worker[w].token \in Jobs /\ worker[w].token \notin Deferred
      BY <2>8, HeldJob DEF GateInv, AttemptGated, Attempts
    <3>2. QED
      BY <1>1, <2>8, <3>1 DEF Settled, WorkersSettled, Concludes, EndedKept
  <2>9. CASE SkipPublish(w)
    BY <2>2, <2>8, <2>9 DEF SkipPublish
  <2>10. ASSUME NEW o \in Outcomes, PublishJob(w, o)
         PROVE  Settled'
    <3>1. /\ worker[w].pc = "publish" /\ recovery' = recovery /\ Goto(w, "unwind", "succeeded")
          /\ completions' = completions \/ Defer(worker[w].token, "succeeded", "succeeded")
      BY <2>10 DEF PublishJob
    <3>2. QED
      BY <2>2, <2>6, <2>8, <3>1 DEF Attempts
  <2>11. QED
    BY <1>6, <2>1, <2>3, <2>4, <2>5, <2>7, <2>9, <2>10 DEF WorkerNext
<1>7. QED
  BY <1>2, <1>3, <1>4, <1>5, <1>6 DEF Next

-----------------------------------------------------------------------------
(* What the rows keep. *)

(* The fields that name a row: they are written once. *)
SameRow(r, q) == r.session = q.session /\ r.revision = q.revision /\ r.snapshot = q.snapshot
RowsSame(js, ks) == \A j \in Jobs : SameRow(ks[j], js[j])
RowsNamed ==
    \A j \in Jobs : \/ SameRow(jobs'[j], jobs[j])
                    \/ jobs[j].status = "none" /\ jobs'[j].session \in LiveSessions \cup {NoSession}

(* Status changes keep the session and revision of a row. *)
LEMMA SameFacts ==
    ASSUME NEW js \in [Jobs -> Job], NEW j \in Jobs
    PROVE  /\ \A st : RowsSame(js, SetStatus(js, j, st))
           /\ \A from, to : RowsSame(js, Transition(js, j, from, to))
           /\ RowsSame(js, Account(js, j))
<1>1. \A st : RowsSame(js, SetStatus(js, j, st))
  BY DEF RowsSame, SameRow, SetStatus, Job
<1>2. \A from, to : RowsSame(js, Transition(js, j, from, to))
  BY <1>1 DEF Transition, RowsSame, SameRow
<1>3. RowsSame(js, Account(js, j))
  BY DEF RowsSame, SameRow, Account, Job
<1>4. QED
  BY <1>1, <1>2, <1>3

(* And so do several of them in a row. *)
LEMMA SameStill ==
    ASSUME NEW js, NEW ks, NEW ls
    PROVE  RowsSame(js, js) /\ (RowsSame(js, ks) /\ RowsSame(ks, ls) => RowsSame(js, ls))
BY DEF RowsSame, SameRow

(* And closing a session. *)
LEMMA SameClose ==
    ASSUME TypeOK, NEW s \in Sessions
    PROVE  RowsSame(jobs, CancelPending(s)) /\ RowsSame(jobs, CancelBoth(s))
<1>1. jobs \in [Jobs -> Job] /\ CancelPending(s) \in [Jobs -> Job]
  BY SessionRowsType DEF TypeOK
<1>2. RowsSame(jobs, CancelPending(s))
  BY <1>1, SameFacts, SameStill, PendingType DEF CancelPending
<1>3. StopsRunning(s) => sessions[s].running \in Jobs
  BY DEF StopsRunning, Deferred, TypeOK
<1>4. RowsSame(CancelPending(s), CancelBoth(s))
  BY <1>1, <1>3, SameFacts, SameStill DEF CancelBoth
<1>5. QED
  BY <1>2, <1>4, SameStill

(* Rows keep their session and revision for ever. *)
LEMMA NextNamed ==
    ASSUME TypeInv, Next
    PROVE  RowsNamed
<1> USE DEF TypeInv
<1>1. RowsSame(jobs, jobs') => RowsNamed
  BY DEF RowsSame, RowsNamed
<1>2. jobs' = jobs => RowsNamed
  BY <1>1, SameStill
<1>3. jobs \in [Jobs -> Job]
  BY DEF TypeOK
<1>4. ASSUME NEW j \in Jobs, NEW o, CancelRow(j, o)
      PROVE  RowsNamed
  BY <1>1, <1>2, <1>3, <1>4, SameFacts DEF CancelRow
<1>5. ASSUME NEW j \in Jobs, jobs[j].status = "none", NEW r, r.session \in LiveSessions \cup {NoSession},
             RowsSame([jobs EXCEPT ![j] = r], jobs')
      PROVE  RowsNamed
  <2>1. \A k \in Jobs : jobs'[k].session = [jobs EXCEPT ![j] = r][k].session
    BY <1>5 DEF RowsSame, SameRow
  <2>2. \A k \in Jobs \ {j} : [jobs EXCEPT ![j] = r][k] = jobs[k]
    BY <1>3
  <2>3. [jobs EXCEPT ![j] = r][j] = r
    BY <1>3
  <2>4. QED
    BY <1>5, <2>1, <2>2, <2>3 DEF RowsNamed, RowsSame
<1>6. CASE ClientNext
  <2>1. ASSUME NEW j \in Jobs, NEW p \in Snapshots, NEW o \in Outcomes, Enqueue(j, p, o)
        PROVE  RowsNamed
    BY <1>5, <2>1, SameStill DEF Enqueue, Fresh, NewRow
  <2>2. CASE CleanupProject
    <3>1. \A j \in Jobs : jobs'[j] = jobs[j] \/ jobs'[j] = [jobs[j] EXCEPT !.status = "deleted"]
      BY <2>2 DEF CleanupProject
    <3>2. \A j \in Jobs : jobs[j] \in Job
      BY <1>3
    <3>3. \A j \in Jobs : SameRow(jobs'[j], jobs[j])
      BY <3>1, <3>2 DEF SameRow, Job
    <3>4. QED
      BY <3>3 DEF RowsNamed
  <2>3. ASSUME NEW j \in Jobs, NEW o \in Outcomes, CancelRunning(j, o)
        PROVE  RowsNamed
    BY <1>1, <1>3, <2>3, SameFacts DEF CancelRunning
  <2>4. QED
    BY <1>4, <1>6, <2>1, <2>2, <2>3 DEF ClientNext, CancelQueued
<1>7. CASE SessionNext
  <2>1. ASSUME NEW s \in Sessions, CreateSession(s) \/ RenewSession(s) \/ LeaseTick(s)
        PROVE  RowsNamed
    BY <1>2, <2>1 DEF CreateSession, RenewSession, LeaseTick
  <2>2. ASSUME NEW s \in Sessions, NEW j \in Jobs, NEW p \in Snapshots, AdmitRevision(s, j)
        PROVE  /\ NewRevision(s, j, p) \in [Jobs -> Job]
               /\ RowsSame(NewRevision(s, j, p), jobs') => RowsNamed
    <3>1. NewRow(p, s, sessions[s].revision + 1) \in Job /\ NewRow(p, s, sessions[s].revision + 1).session \in LiveSessions
      BY <2>2, NewRowType DEF NewRow, TypeOK, Session, AdmitRevision, LeaseHeld, LiveSessions
    <3>2. QED
      BY <1>3, <1>5, <2>2, <3>1 DEF NewRevision, AdmitRevision, Fresh
  <2>3. ASSUME NEW s \in Sessions, NEW j \in Jobs, NEW p \in Snapshots, SubmitRevision(s, j, p) \/ SubmitLost(s, j, p)
        PROVE  RowsNamed
    <3>1. AdmitRevision(s, j) /\ \/ jobs' = NewRevision(s, j, p)
                                 \/ /\ sessions[s].pending \in Jobs
                                    /\ jobs' = Transition(NewRevision(s, j, p), sessions[s].pending, "queued", "cancelled")
      BY <2>3, PendingType DEF SubmitRevision, SubmitLost, Supersedes
    <3>2. RowsSame(NewRevision(s, j, p), jobs')
      BY <2>2, <3>1, SameFacts, SameStill
    <3>3. QED
      BY <2>2, <3>1, <3>2
  <2>4. ASSUME NEW s \in Sessions, NEW j \in Jobs, NEW p \in Snapshots, NEW o, NEW r, SubmitFailed(s, j, p, o, r)
        PROVE  RowsNamed
    <3> DEFINE row == NewRevision(s, j, p)
               one == IF o = "lost" THEN SetStatus(row, sessions[s].pending, "cancelled") ELSE row
    <3>1. /\ AdmitRevision(s, j) /\ sessions[s].pending \in Jobs
          /\ jobs' = IF r = "fail" THEN one ELSE SetStatus(one, j, "cancelled")
      BY <2>4, PendingType DEF SubmitFailed
    <3>2. row \in [Jobs -> Job]
      BY <2>2, <3>1
    <3>3. one \in [Jobs -> Job] /\ RowsSame(row, one)
      BY <3>1, <3>2, SetStatusType, StatusFacts, SameFacts, SameStill
    <3>4. RowsSame(one, jobs')
      BY <3>1, <3>3, SameFacts, SameStill
    <3>5. QED
      BY <2>2, <3>1, <3>3, <3>4, SameStill
  <2>5. ASSUME NEW s \in Sessions, \/ CloseSession(s) \/ ClosePendingLost(s)
                                   \/ \E o \in {"fail", "lost"} : CloseRunningFailed(s, o)
        PROVE  RowsNamed
    BY <1>1, <2>5, SameClose DEF CloseSession, ClosePendingLost, CloseRunningFailed
  <2>6. QED
    BY <1>7, <2>1, <2>3, <2>4, <2>5 DEF SessionNext
<1>8. ASSUME NEW w \in Workers, WorkerNext(w)
      PROVE  RowsNamed
  <2>1. CASE \/ Receive(w) \/ TakeSession(w) \/ SkipPublish(w) \/ Deactivate(w) \/ OpenGate(w)
             \/ Requeue(w) \/ Forget(w) \/ \E o \in Outcomes : LoadJob(w, o) \/ SettleSession(w, o)
    BY <1>2, <2>1
       DEF Receive, TakeSession, SkipPublish, Deactivate, OpenGate, Requeue, Forget, LoadJob, SettleSession
  <2>2. ASSUME NEW o \in Outcomes, RejectJob(w, o)
        PROVE  RowsNamed
    BY <1>4, <2>2, HeldJob DEF RejectJob
  <2>3. ASSUME NEW out, NEW o \in Outcomes, FinishJob(w, out, o) \/ StartJob(w, o)
        PROVE  RowsNamed
    BY <1>1, <1>2, <1>3, <2>3, HeldJob, SameFacts DEF FinishJob, StartJob
  <2>4. ASSUME NEW o \in Outcomes, PublishJob(w, o)
        PROVE  RowsNamed
    BY <1>1, <1>2, <1>3, <2>4, HeldJob, SameFacts DEF PublishJob
  <2>5. QED
    BY <1>8, <2>1, <2>2, <2>3, <2>4 DEF WorkerNext
<1>9. CASE RecoveryNext
  <2>1. ASSUME NEW j \in Jobs
        PROVE  RowsSame(jobs, RecoveredRow(j))
    BY <1>3, SameFacts DEF RecoveredRow
  <2>2. QED
    BY <1>1, <1>2, <1>9, <2>1 DEF RecoveryNext, RetryCompletion, RetryLost, RecoverSession, RecoverGate
<1>10. CASE BackgroundNext
  <2>1. ASSUME NEW j \in Jobs, FeedRecovered(j) \/ PruneTerminal(j)
        PROVE  RowsNamed
    BY <1>1, <1>2, <1>3, <2>1, SameFacts DEF FeedRecovered, PruneTerminal
  <2>2. CASE Restart
    <3>1. \A j \in Jobs : \/ jobs'[j] = jobs[j]
                          \/ \E st : jobs'[j] = [jobs[j] EXCEPT !.status = st]
      BY <2>2 DEF Restart, RestartListed, RestartBlind
    <3>2. \A j \in Jobs : jobs[j] \in Job
      BY <1>3
    <3>3. \A j \in Jobs : SameRow(jobs'[j], jobs[j])
      BY <3>1, <3>2 DEF SameRow, Job
    <3>4. QED
      BY <3>3 DEF RowsNamed
  <2>3. QED
    BY <1>2, <1>4, <1>10, <2>1, <2>2 DEF BackgroundNext, CancelUnsent, MaintainSession
<1>11. QED
  BY <1>6, <1>7, <1>8, <1>9, <1>10 DEF Next

(* A row starts only while its session's running slot names it. *)
StartsOwned ==
    \A j \in Jobs : jobs'[j].status = "running"
                    => jobs[j].status = "running" \/ (jobs[j].status = "queued" /\ ValidSessionJob(j))

(* A job starts only from the slot of its session. *)
LEMMA NextStarts ==
    ASSUME TypeInv, Next
    PROVE  StartsOwned
<1> USE DEF TypeInv
<1>1. jobs \in [Jobs -> Job]
  BY DEF TypeOK
<1>2. CASE Quiet(jobs, jobs')
  BY <1>2 DEF Quiet, QuietMoves, StartsOwned
<1>3. ASSUME NEW w \in Workers, NEW o \in Outcomes, StartJob(w, o)
      PROVE  StartsOwned
  <2>1. /\ worker[w].token \in Jobs /\ ValidSessionJob(worker[w].token)
        /\ jobs' = jobs \/ jobs' = Transition(jobs, worker[w].token, "queued", "running")
    BY <1>3, HeldJob DEF StartJob
  <2>2. QED
    BY <1>1, <2>1 DEF Transition, SetStatus, Job, StartsOwned
<1>4. ASSUME NEW j \in Jobs, PruneTerminal(j)
      PROVE  StartsOwned
  BY <1>1, <1>4 DEF PruneTerminal, SetStatus, StartsOwned, Job
<1>5. CASE CleanupProject
  BY <1>1, <1>5 DEF CleanupProject, StartsOwned, Job
<1>6. CASE Restart
  <2>1. \A j \in Jobs : \/ jobs'[j] = jobs[j]
                        \/ \E st \in {"queued", "cancelled", "deleted"} : jobs'[j] = [jobs[j] EXCEPT !.status = st]
    BY <1>6 DEF Restart, RestartListed, RestartBlind, RecoveredStatusAtStart
  <2>2. QED
    BY <1>1, <2>1 DEF StartsOwned, Job
<1>7. QED
  BY <1>2, <1>3, <1>4, <1>5, <1>6, NextQuiet DEF Loud

-----------------------------------------------------------------------------
(* The slots of a session. *)

Rev(js, j) == IF j = NoJob THEN 0 ELSE js[j].revision
OfSession(js, s, j) == j # NoJob => j \in Jobs /\ js[j].session = s /\ js[j].status # "none"

(* What a session's record S says of the rows js: only the running slot's   *)
(* row runs, and the revisions are ordered.                                 *)
Owns(js, s, S) ==
    /\ \A j \in Jobs : js[j].session = s => S.status # "none"
    /\ S.status = "live" => \A j \in Jobs : js[j].session = s /\ js[j].status = "running" => S.running = j
    /\ OfSession(js, s, S.running) /\ OfSession(js, s, S.lastOk) /\ OfSession(js, s, S.pending)
InOrder(js, S) ==
    /\ Rev(js, S.running) <= S.revision /\ Rev(js, S.lastOk) <= S.revision /\ Rev(js, S.pending) <= S.revision
    /\ S.running # NoJob => Rev(js, S.lastOk) <= Rev(js, S.running)
    /\ S.pending # NoJob => Rev(js, S.lastOk) <= Rev(js, S.pending)
    /\ S.running # NoJob /\ S.pending # NoJob => Rev(js, S.running) < Rev(js, S.pending)
Good(js, s, S) == Owns(js, s, S) /\ InOrder(js, S)

Slots == \A s \in Sessions : Good(jobs, s, sessions[s])

(* The revision of no job is zero. *)
LEMMA RevType ==
    ASSUME NEW js \in [Jobs -> Job], NEW j \in Jobs \cup {NoJob}
    PROVE  Rev(js, j) \in Nat /\ (j = NoJob => Rev(js, j) = 0)
BY DEF Rev, Job

(* A step of the rows alone. *)
LEMMA GoodRows ==
    ASSUME TypeInv, TypeInv', TokenInv, GateInv, Next, NEW s \in Sessions, Good(jobs, s, sessions[s])
    PROVE  Good(jobs', s, sessions[s])
<1> DEFINE S == sessions[s]
<1>1. RowsNamed /\ StartsOwned /\ \A j \in Jobs : jobs[j].status # "none" => jobs'[j].status # "none"
  BY NextNamed, NextStarts, NextEnded
<1>2. NoSession # s
  BY JobManagerAssumption DEF NoSession
<1> HIDE DEF S
<1>3. \A j \in Jobs : jobs'[j].session = s => S.status # "none"
  BY <1>1, <1>2 DEF RowsNamed, SameRow, Good, Owns, LiveSessions, S
<1>4. ASSUME S.status = "live", NEW j \in Jobs, jobs'[j].session = s, jobs'[j].status = "running"
      PROVE  S.running = j
  <2>1. jobs[j].status = "running" \/ (jobs[j].status = "queued" /\ ValidSessionJob(j))
    BY <1>1, <1>4 DEF StartsOwned
  <2>2. jobs[j].session = s
    BY <1>1, <1>4, <2>1 DEF RowsNamed, SameRow
  <2>3. QED
    BY <1>2, <1>4, <2>1, <2>2 DEF Good, Owns, ValidSessionJob, S
<1>5. ASSUME NEW j, OfSession(jobs, s, j)
      PROVE  OfSession(jobs', s, j) /\ Rev(jobs', j) = Rev(jobs, j)
  BY <1>1, <1>5 DEF OfSession, Rev, RowsNamed, SameRow
<1>6. Owns(jobs', s, S)
  BY <1>3, <1>4, <1>5 DEF Good, Owns, S
<1>7. InOrder(jobs', S)
  <2>1. /\ Rev(jobs', S.running) = Rev(jobs, S.running) /\ Rev(jobs', S.lastOk) = Rev(jobs, S.lastOk)
        /\ Rev(jobs', S.pending) = Rev(jobs, S.pending)
    BY <1>5 DEF Good, Owns, S
  <2>2. QED
    BY <2>1 DEF Good, InOrder, S
<1>8. QED
  BY <1>6, <1>7 DEF Good, S

(* The ways a session's record changes. *)
LEMMA GoodRecords ==
    ASSUME NEW js \in [Jobs -> Job], NEW s \in Sessions, NEW S \in Session, NEW T \in Session, Good(js, s, S),
           \/ /\ T.status = S.status /\ T.revision = S.revision /\ T.pending = S.pending
              /\ T.running = S.running /\ T.lastOk = S.lastOk
           \/ /\ T.status = "closed" \/ (T.status = "live" /\ S.status = "none")
              /\ T.pending = NoJob /\ T.running = NoJob /\ T.lastOk = NoJob
           \/ /\ S.running = NoJob /\ S.pending # NoJob /\ T.status = S.status /\ T.revision = S.revision
              /\ T.running = S.pending /\ T.pending = NoJob /\ T.lastOk = S.lastOk
           \/ /\ S.running # NoJob /\ js[S.running].status # "running"
              /\ T.status = S.status /\ T.revision = S.revision /\ T.pending = S.pending
              /\ T.running = NoJob /\ T.lastOk \in {S.lastOk, S.running}
    PROVE  Good(js, s, T)
<1>1. NoJob \notin Jobs
  BY SessionsNotJobs
<1>2. /\ S.revision \in Nat /\ T.revision \in Nat
      /\ S.running \in Jobs \cup {NoJob} /\ S.pending \in Jobs \cup {NoJob} /\ S.lastOk \in Jobs \cup {NoJob}
  BY DEF Session
<1>3. /\ Rev(js, S.running) \in Nat /\ Rev(js, S.pending) \in Nat /\ Rev(js, S.lastOk) \in Nat /\ Rev(js, NoJob) = 0
  BY <1>2, RevType
<1>4. Owns(js, s, T)
  BY <1>1 DEF Good, Owns, OfSession
<1>5. InOrder(js, T)
  BY <1>2, <1>3 DEF Good, InOrder
<1>6. QED
  BY <1>4, <1>5 DEF Good

(* Scheduling a session changes no slot. *)
LEMMA ScheduleSlots ==
    ASSUME TypeInv, NEW s \in Sessions, NEW S \in Session, ScheduleSession(s, S)
    PROVE  /\ \A r \in Sessions \ {s} : sessions'[r] = sessions[r]
           /\ sessions'[s].status = S.status /\ sessions'[s].revision = S.revision
           /\ sessions'[s].pending = S.pending /\ sessions'[s].running = S.running
           /\ sessions'[s].lastOk = S.lastOk
<1>1. sessions' = [sessions EXCEPT ![s] = [S EXCEPT !.scheduled = @ \/ CanSchedule(S)]]
  BY DEF ScheduleSession
<1>2. sessions'[s] = [S EXCEPT !.scheduled = @ \/ CanSchedule(S)] /\ \A r \in Sessions \ {s} : sessions'[r] = sessions[r]
  BY <1>1 DEF TypeInv, TypeOK
<1>3. QED
  BY <1>2 DEF Session

(* finishSession gives the running slot back, and only then counts a        *)
(* success.                                                                 *)
LEMMA FinishSlots ==
    ASSUME TypeInv, NEW j \in Jobs, NEW known, FinishSession(j, known), NEW r \in Sessions
    PROVE  /\ sessions'[r].status = sessions[r].status /\ sessions'[r].revision = sessions[r].revision
           /\ sessions'[r].pending = sessions[r].pending
           /\ \/ sessions'[r].running = sessions[r].running /\ sessions'[r].lastOk = sessions[r].lastOk
              \/ /\ r = jobs[j].session /\ j \notin Deferred /\ FinalStatus(j, known) \in Terminal /\ OwnsSlot(j)
                 /\ sessions[r].running = j /\ sessions'[r].running = NoJob
                 /\ \/ sessions'[r].lastOk = sessions[r].lastOk
                    \/ FinalStatus(j, known) = "succeeded" /\ sessions'[r].lastOk = j
<1> DEFINE s == jobs[j].session
           final == FinalStatus(j, known)
           S == [sessions[s] EXCEPT !.running = NoJob, !.lastOk = IF final = "succeeded" THEN j ELSE @]
<1>1. CASE j \notin Deferred /\ final \in Terminal /\ OwnsSlot(j)
  <2>1. s \in Sessions /\ sessions[s] \in Session
    BY <1>1 DEF OwnsSlot, LiveSessions, TypeInv, TypeOK
  <2>2. /\ S \in Session /\ S.status = sessions[s].status /\ S.revision = sessions[s].revision
        /\ S.pending = sessions[s].pending /\ S.running = NoJob
        /\ S.lastOk = IF final = "succeeded" THEN j ELSE sessions[s].lastOk
    BY <2>1 DEF Session, NoJob
  <2>3. ScheduleSession(s, S)
    BY <1>1 DEF FinishSession
  <2> HIDE DEF S
  <2>4. CASE r # s
    BY <2>1, <2>2, <2>3, <2>4, ScheduleSlots
  <2>5. CASE r = s
    BY <1>1, <2>1, <2>2, <2>3, <2>5, ScheduleSlots DEF OwnsSlot
  <2>6. QED
    BY <2>4, <2>5
<1>2. CASE ~(j \notin Deferred /\ final \in Terminal /\ OwnsSlot(j))
  BY <1>2 DEF FinishSession
<1>3. QED
  BY <1>1, <1>2

-----------------------------------------------------------------------------
(* Which steps touch a session or its tokens. *)

Once(q, t) == \A i, k \in DOMAIN q : q[i] = t /\ q[k] = t => i = k

(* The tokens of all sessions stay where they are. *)
ChannelTokensSame == \A s \in Sessions : (Once(queue, s) => Once(queue', s)) /\ (In(queue', s) <=> In(queue, s))
WorkerTokensSame == \A w \in Workers, s \in Sessions : worker'[w].token = s <=> worker[w].token = s

SessionMoves ==
    \/ \E s \in Sessions : \/ CreateSession(s) \/ RenewSession(s) \/ LeaseTick(s) \/ CloseSession(s)
                           \/ MaintainSession(s)
    \/ \E s \in Sessions, j \in Jobs, p \in Snapshots : SubmitRevision(s, j, p)
    \/ \E w \in Workers : Receive(w) \/ TakeSession(w) \/ \E o \in Outcomes : SettleSession(w, o)
    \/ RecoverSession
    \/ Restart
Elsewhere == sessions' = sessions /\ ChannelTokensSame /\ WorkerTokensSame

(* Sending a token that is not in the channel leaves it there once. *)
LEMMA SendOnce ==
    ASSUME NEW T, NEW q \in Seq(T), NEW e \in T, NEW t
    PROVE  (Once(q, t) /\ (e = t => ~In(q, t)) => Once(Append(q, e), t)) /\ (e # t => (In(Append(q, e), t) <=> In(q, t)))
<1>1. /\ DOMAIN q = 1 .. Len(q) /\ Len(q) \in Nat
      /\ DOMAIN Append(q, e) = 1 .. Len(q) + 1
      /\ \A i \in 1 .. Len(q) : Append(q, e)[i] = q[i]
      /\ Append(q, e)[Len(q) + 1] = e
  OBVIOUS
<1>2. Once(q, t) /\ (e = t => ~In(q, t)) => Once(Append(q, e), t)
  BY <1>1 DEF In, Once
<1>3. QED
  BY <1>2, SendFacts

(* Steps on the tokens of plain jobs leave those of the sessions alone. *)
LEMMA TokensStill ==
    ASSUME TypeInv
    PROVE  /\ queue' = queue => ChannelTokensSame
           /\ worker' = worker => WorkerTokensSame
           /\ \A j \in Jobs : queue' = Append(queue, j) => ChannelTokensSame
           /\ \A w \in Workers : \A pc, known : Goto(w, pc, known) => WorkerTokensSame
           /\ \A w \in Workers : worker[w].token \in Jobs \cup {NoJob} /\ Idle(w) => WorkerTokensSame
<1> USE DEF TypeInv
<1>1. ASSUME NEW j \in Jobs, queue' = Append(queue, j)
      PROVE  ChannelTokensSame
  <2>1. queue \in Seq(Jobs \cup Sessions) /\ j \in Jobs \cup Sessions /\ j \notin Sessions
    BY SessionsNotJobs DEF TypeOK
  <2>2. QED
    BY <1>1, <2>1, SendOnce DEF ChannelTokensSame
<1>2. ASSUME NEW w \in Workers, NEW pc, NEW known, Goto(w, pc, known)
      PROVE  WorkerTokensSame
  BY <1>2, GotoWorkers DEF WorkerTokensSame
<1>3. ASSUME NEW w \in Workers, worker[w].token \in Jobs \cup {NoJob}, Idle(w)
      PROVE  WorkerTokensSame
  <2>1. worker'[w].token = NoJob /\ \A v \in Workers \ {w} : worker'[v] = worker[v]
    BY <1>3 DEF Idle, IdleWorker, TypeOK
  <2>2. QED
    BY <1>3, <2>1, SessionsNotJobs DEF WorkerTokensSame
<1>4. QED
  BY <1>1, <1>2, <1>3 DEF ChannelTokensSame, WorkerTokensSame

(* Every step is one of the few that change a session, or happens          *)
(* elsewhere.                                                              *)
LEMMA NextSessions ==
    ASSUME TypeInv, Next
    PROVE  SessionMoves \/ Elsewhere
<1> USE DEF TypeInv
<1>1. CASE ClientNext
  <2>1. ASSUME NEW j \in Jobs, NEW p \in Snapshots, NEW o \in Outcomes, Enqueue(j, p, o)
        PROVE  Elsewhere
    BY <2>1, TokensStill DEF Enqueue, Elsewhere
  <2>2. QED
    BY <1>1, <2>1, TokensStill DEF ClientNext, CancelQueued, CancelRunning, CleanupProject, Elsewhere
<1>2. CASE SessionNext
  <2>1. ASSUME NEW s \in Sessions, NEW j \in Jobs, NEW p \in Snapshots, NEW o, NEW r,
               SubmitLost(s, j, p) \/ SubmitFailed(s, j, p, o, r)
        PROVE  Elsewhere
    BY <2>1, TokensStill DEF SubmitLost, SubmitFailed, Elsewhere
  <2>2. ASSUME NEW s \in Sessions, NEW o, ClosePendingLost(s) \/ CloseRunningFailed(s, o)
        PROVE  Elsewhere
    BY <2>2, TokensStill DEF ClosePendingLost, CloseRunningFailed, Elsewhere
  <2>3. QED
    BY <1>2, <2>1, <2>2 DEF SessionNext, SessionMoves
<1>3. ASSUME NEW w \in Workers, WorkerNext(w)
      PROVE  SessionMoves \/ Elsewhere
  <2>1. ASSUME NEW o \in Outcomes, LoadJob(w, o)
        PROVE  Elsewhere
    BY <2>1, HeldJob, TokensStill DEF LoadJob, LoadFailed, Elsewhere
  <2>2. ASSUME NEW o \in Outcomes, RejectJob(w, o) \/ StartJob(w, o) \/ PublishJob(w, o)
        PROVE  Elsewhere
    BY <2>2, TokensStill DEF RejectJob, StartJob, PublishJob, Elsewhere
  <2>3. ASSUME NEW out, NEW o \in Outcomes, FinishJob(w, out, o)
        PROVE  Elsewhere
    BY <2>3, TokensStill DEF FinishJob, Elsewhere
  <2>4. CASE SkipPublish(w) \/ Deactivate(w) \/ OpenGate(w)
    BY <2>4, HeldJob, TokensStill DEF SkipPublish, Deactivate, OpenGate, Elsewhere
  <2>5. CASE Requeue(w)
    <3>1. worker[w].token \in Jobs /\ queue' = Append(queue, worker[w].token) /\ sessions' = sessions
      BY <2>5, HeldJob DEF Requeue
    <3>2. WorkerTokensSame
      BY <2>5, <3>1, RequeueType, SessionsNotJobs DEF WorkerTokensSame
    <3>3. QED
      BY <3>1, <3>2, TokensStill DEF Elsewhere
  <2>6. CASE Forget(w)
    BY <2>6, TokensStill DEF Forget, Elsewhere, WorkerHolds
  <2>7. QED
    BY <1>3, <2>1, <2>2, <2>3, <2>4, <2>5, <2>6 DEF WorkerNext, SessionMoves
<1>4. CASE RecoveryNext
  BY <1>4, TokensStill DEF RecoveryNext, RetryCompletion, RetryLost, RecoverGate, SessionMoves, Elsewhere
<1>5. CASE BackgroundNext
  <2>1. ASSUME NEW j \in Jobs, NEW o, FeedRecovered(j) \/ PruneTerminal(j) \/ CancelUnsent(j, o)
        PROVE  Elsewhere
    BY <2>1, TokensStill DEF FeedRecovered, PruneTerminal, CancelUnsent, Elsewhere
  <2>2. QED
    BY <1>5, <2>1 DEF BackgroundNext, SessionMoves
<1>6. QED
  BY <1>1, <1>2, <1>3, <1>4, <1>5 DEF Next

-----------------------------------------------------------------------------
(* The slots are kept in order. *)

(* One case per step that changes a session, and one for all others. *)
LEMMA NextSlots ==
    ASSUME TypeInv, TypeInv', TokenInv, GateInv, Settled, Slots, Next
    PROVE  Slots'
<1> USE DEF TypeInv
<1>1. SUFFICES ASSUME NEW r \in Sessions
               PROVE  Good(jobs', r, sessions'[r])
  BY DEF Slots
<1>2. /\ Good(jobs', r, sessions[r]) /\ jobs' \in [Jobs -> Job] /\ sessions[r] \in Session
      /\ sessions'[r] \in Session
  BY GoodRows DEF Slots, TypeOK
<1>3. /\ /\ sessions'[r].status = sessions[r].status /\ sessions'[r].revision = sessions[r].revision
         /\ sessions'[r].pending = sessions[r].pending /\ sessions'[r].running = sessions[r].running
         /\ sessions'[r].lastOk = sessions[r].lastOk
      => Good(jobs', r, sessions'[r])
  BY <1>2, GoodRecords
<1>4. /\ sessions'[r].status = "closed" \/ (sessions'[r].status = "live" /\ sessions[r].status = "none")
      /\ sessions'[r].pending = NoJob /\ sessions'[r].running = NoJob /\ sessions'[r].lastOk = NoJob
      => Good(jobs', r, sessions'[r])
  BY <1>2, GoodRecords
<1>5. CASE Elsewhere
  BY <1>3, <1>5 DEF Elsewhere
<1>6. ASSUME NEW s \in Sessions, CreateSession(s) \/ CloseSession(s)
      PROVE  Good(jobs', r, sessions'[r])
  <2>1. r # s => sessions'[r] = sessions[r]
    BY <1>6 DEF CreateSession, CloseSession, TypeOK
  <2>2. r = s => /\ sessions'[r].status = "closed" \/ (sessions'[r].status = "live" /\ sessions[r].status = "none")
                 /\ sessions'[r].pending = NoJob /\ sessions'[r].running = NoJob /\ sessions'[r].lastOk = NoJob
    <3>1. CASE CreateSession(s)
      BY <3>1 DEF CreateSession, NoLease, TypeOK
    <3>2. CASE CloseSession(s)
      BY <3>2 DEF CloseSession, ClosedLease, NoLease, TypeOK
    <3>3. QED
      BY <1>6, <3>1, <3>2
  <2>3. QED
    BY <1>3, <1>4, <2>1, <2>2
<1>7. ASSUME NEW s \in Sessions, RenewSession(s) \/ LeaseTick(s)
      PROVE  Good(jobs', r, sessions'[r])
  <2>1. \E n : sessions' = [sessions EXCEPT ![s] = [sessions[s] EXCEPT !.lease = n]]
    BY <1>7 DEF RenewSession, LeaseTick
  <2>2. sessions'[r] = sessions[r] \/ \E n : sessions'[r] = [sessions[r] EXCEPT !.lease = n]
    BY <2>1 DEF TypeOK
  <2>3. QED
    BY <1>2, <1>3, <2>2 DEF Session
<1>8. ASSUME NEW s \in Sessions, MaintainSession(s)
      PROVE  Good(jobs', r, sessions'[r])
  <2>1. ScheduleSession(s, sessions[s]) /\ sessions[s] \in Session
    BY <1>8 DEF MaintainSession, TypeOK
  <2>2. QED
    BY <1>3, <2>1, ScheduleSlots
<1>9. ASSUME NEW w \in Workers, Receive(w)
      PROVE  Good(jobs', r, sessions'[r])
  BY <1>3, <1>9 DEF Receive
<1>10. ASSUME NEW w \in Workers, TakeSession(w)
       PROVE  Good(jobs', r, sessions'[r])
  <2> DEFINE s == worker[w].token
             S == sessions[s]
  <2>1. s \in Sessions /\ S \in Session
    BY <1>10 DEF TakeSession, WorkerHolds, TypeOK
  <2>2. CASE r # s
    BY <1>3, <1>10, <2>2 DEF TakeSession, TypeOK
  <2>3. CASE r = s /\ S.status = "live" /\ S.running = NoJob /\ S.pending # NoJob
    <3>1. sessions'[r] = Taken(S)
      BY <1>10, <2>1, <2>3 DEF TakeSession, TypeOK
    <3>2. /\ sessions'[r].status = S.status /\ sessions'[r].revision = S.revision
          /\ sessions'[r].running = S.pending /\ sessions'[r].pending = NoJob /\ sessions'[r].lastOk = S.lastOk
      BY <2>1, <3>1 DEF Taken, Session
    <3>3. QED
      BY <1>2, <2>3, <3>2, GoodRecords
  <2>4. CASE r = s /\ ~(S.status = "live" /\ S.running = NoJob /\ S.pending # NoJob)
    <3>1. sessions' = sessions \/ sessions' = [sessions EXCEPT ![s].scheduled = FALSE]
      BY <1>10, <2>4 DEF TakeSession
    <3>2. QED
      BY <1>2, <1>3, <2>1, <2>4, <3>1 DEF TypeOK, Session
  <2>5. QED
    BY <2>2, <2>3, <2>4
<1>11. ASSUME NEW j \in Jobs, NEW known, FinishSession(j, known), jobs' = jobs,
              j \notin Deferred /\ FinalStatus(j, known) \in Terminal => jobs[j].status # "running"
       PROVE  Good(jobs', r, sessions'[r])
  <2>1. /\ sessions'[r].status = sessions[r].status /\ sessions'[r].revision = sessions[r].revision
        /\ sessions'[r].pending = sessions[r].pending
        /\ \/ sessions'[r].running = sessions[r].running /\ sessions'[r].lastOk = sessions[r].lastOk
           \/ /\ jobs[j].status # "running" /\ sessions[r].running = j /\ sessions'[r].running = NoJob
              /\ sessions'[r].lastOk \in {sessions[r].lastOk, j}
    BY <1>11, FinishSlots
  <2>2. j # NoJob
    BY SessionsNotJobs
  <2>3. QED
    BY <1>2, <1>3, <1>11, <2>1, <2>2, GoodRecords
<1>12. ASSUME NEW w \in Workers, NEW o \in Outcomes, SettleSession(w, o)
       PROVE  Good(jobs', r, sessions'[r])
  <2> DEFINE j == worker[w].token
  <2>1. /\ worker[w].pc = "settle" /\ jobs' = jobs
        /\ sessions' = sessions \/ FinishSession(j, worker[w].known)
    BY <1>12 DEF SettleSession
  <2>2. j \in Jobs
    BY <2>1, HeldJob
  <2>3. j \notin Deferred /\ FinalStatus(j, worker[w].known) \in Terminal => jobs[j].status # "running"
    BY <2>1 DEF Settled, WorkersSettled, Concludes, Closing, FinalStatus, Ended, Terminal
  <2>4. QED
    BY <1>3, <1>11, <2>1, <2>2, <2>3
<1>13. CASE RecoverSession
  <2>1. recovery.job \in Jobs /\ FinishSession(recovery.job, recovery.known) /\ jobs' = jobs /\ recovery.pc = "settle"
    BY <1>13 DEF RecoverSession, RecoveryHolds
  <2>2. jobs[recovery.job].status # "running"
    BY <2>1 DEF Settled, RecoverySettled, Ended, Terminal
  <2>3. QED
    BY <1>11, <2>1, <2>2
<1>14. ASSUME NEW s \in Sessions, NEW j \in Jobs, NEW p \in Snapshots, SubmitRevision(s, j, p)
       PROVE  Good(jobs', r, sessions'[r])
  <2> DEFINE S == [sessions[s] EXCEPT !.revision = @ + 1, !.pending = j, !.snapshot = p, !.lease = LeaseTTL]
             row == NewRevision(s, j, p)
  <2>1. /\ AdmitRevision(s, j) /\ ScheduleSession(s, S)
        /\ jobs' = row \/ (sessions[s].pending \in Jobs /\ jobs' = Transition(row, sessions[s].pending, "queued", "cancelled"))
    BY <1>14, PendingType DEF SubmitRevision, Supersedes
  <2>2. sessions[s] \in Session /\ LeaseTTL \in 0 .. LeaseTTL /\ sessions[s].revision + 1 \in Nat
    BY JobManagerAssumption DEF TypeOK, Session
  <2>3. /\ S \in Session /\ S.status = sessions[s].status /\ S.revision = sessions[s].revision + 1 /\ S.pending = j
        /\ S.running = sessions[s].running /\ S.lastOk = sessions[s].lastOk
    BY <2>2 DEF Session
  <2> HIDE DEF S
  <2>4. CASE r # s
    BY <1>3, <2>1, <2>3, <2>4, ScheduleSlots
  <2>5. CASE r = s
    <3>1. /\ sessions'[s].status = sessions[s].status /\ sessions'[s].revision = sessions[s].revision + 1
          /\ sessions'[s].pending = j /\ sessions'[s].running = sessions[s].running
          /\ sessions'[s].lastOk = sessions[s].lastOk
      BY <2>1, <2>3, ScheduleSlots
    <3>2. /\ row \in [Jobs -> Job] /\ row[j].session = s /\ row[j].revision = sessions[s].revision + 1
          /\ row[j].status = "queued"
      <4>1. NewRow(p, s, sessions[s].revision + 1) \in Job
        BY <2>2, NewRowType
      <4>2. QED
        BY <4>1 DEF NewRevision, NewRow, TypeOK
    <3>3. jobs'[j].session = s /\ jobs'[j].revision = sessions[s].revision + 1
      <4>1. RowsSame(row, jobs')
        BY <2>1, <3>2, SameFacts, SameStill
      <4>2. QED
        BY <3>2, <4>1 DEF RowsSame, SameRow
    <3>4. jobs'[j].status \in {"queued", "cancelled"}
      BY <2>1, <3>2 DEF Transition, SetStatus, Job
    <3>5. Good(jobs', s, sessions[s])
      BY <1>2, <2>5
    <3>6. Owns(jobs', s, sessions'[s])
      BY <3>1, <3>3, <3>4, <3>5 DEF Good, Owns, OfSession
    <3>7. /\ sessions[s].revision \in Nat
          /\ sessions[s].running \in Jobs \cup {NoJob} /\ sessions[s].lastOk \in Jobs \cup {NoJob}
      BY <2>2 DEF Session
    <3>8. /\ Rev(jobs', sessions[s].running) \in Nat /\ Rev(jobs', sessions[s].lastOk) \in Nat
          /\ Rev(jobs', j) = sessions[s].revision + 1
      BY <1>2, <3>3, <3>7, RevType, SessionsNotJobs DEF Rev
    <3>9. InOrder(jobs', sessions'[s])
      BY <3>1, <3>5, <3>7, <3>8 DEF Good, InOrder
    <3>10. QED
      BY <2>5, <3>6, <3>9 DEF Good
  <2>6. QED
    BY <2>4, <2>5
<1>15. CASE Restart
  <2>1. sessions'[r] = IF sessions[r].status = "live" THEN ClosedLease ELSE sessions[r]
    BY <1>15 DEF Restart
  <2>2. QED
    BY <1>3, <1>4, <2>1 DEF ClosedLease, NoLease
<1>16. QED
  BY <1>5, <1>6, <1>7, <1>8, <1>9, <1>10, <1>12, <1>13, <1>14, <1>15, NextSessions DEF SessionMoves

-----------------------------------------------------------------------------
(* The last success. *)

(* The caller of finishSession reports the success of job j. *)
Reported(j) ==
    \/ \E w \in Workers : /\ worker[w].pc = "settle" /\ worker[w].token = j
                          /\ FinalStatus(j, worker[w].known) = "succeeded"
    \/ recovery.pc = "settle" /\ recovery.job = j /\ FinalStatus(j, recovery.known) = "succeeded"

(* A step leaves a live session's last success, or puts the job of the      *)
(* running slot in its place.                                               *)
LEMMA LastOkMoves ==
    ASSUME TypeInv, Next, NEW r \in Sessions, sessions'[r].status = "live"
    PROVE  \/ sessions[r].status = "none" /\ sessions'[r].lastOk = NoJob
           \/ /\ sessions[r].status = "live"
              /\ \/ sessions'[r].lastOk = sessions[r].lastOk
                 \/ /\ sessions[r].running \in Jobs /\ sessions'[r].lastOk = sessions[r].running
                    /\ Reported(sessions[r].running)
<1> USE DEF TypeInv
<1>1. sessions \in [Sessions -> Session] /\ sessions[r] \in Session
  BY DEF TypeOK
<1> DEFINE Same == sessions'[r].status = sessions[r].status /\ sessions'[r].lastOk = sessions[r].lastOk
<1>2. CASE Elsewhere
  BY <1>2 DEF Elsewhere
<1>3. ASSUME NEW s \in Sessions, CreateSession(s)
      PROVE  Same \/ (sessions[r].status = "none" /\ sessions'[r].lastOk = NoJob)
  BY <1>1, <1>3 DEF CreateSession, NoLease
<1>4. ASSUME NEW s \in Sessions, CloseSession(s)
      PROVE  Same
  <2>1. r # s
    BY <1>1, <1>4 DEF CloseSession, ClosedLease, NoLease
  <2>2. QED
    BY <1>1, <1>4, <2>1 DEF CloseSession
<1>5. ASSUME NEW s \in Sessions, RenewSession(s) \/ LeaseTick(s)
      PROVE  Same
  BY <1>1, <1>5 DEF RenewSession, LeaseTick, Session
<1>6. ASSUME NEW s \in Sessions, MaintainSession(s)
      PROVE  Same
  BY <1>1, <1>6, ScheduleSlots DEF MaintainSession
<1>7. ASSUME NEW s \in Sessions, NEW j \in Jobs, NEW p \in Snapshots, SubmitRevision(s, j, p)
      PROVE  Same
  <2> DEFINE S == [sessions[s] EXCEPT !.revision = @ + 1, !.pending = j, !.snapshot = p, !.lease = LeaseTTL]
  <2>1. ScheduleSession(s, S)
    BY <1>7 DEF SubmitRevision
  <2>2. sessions[s] \in Session /\ LeaseTTL \in 0 .. LeaseTTL /\ sessions[s].revision + 1 \in Nat
    BY JobManagerAssumption DEF TypeOK, Session
  <2>3. S \in Session /\ S.status = sessions[s].status /\ S.lastOk = sessions[s].lastOk
    BY <2>2 DEF Session
  <2> HIDE DEF S
  <2>4. QED
    BY <2>1, <2>3, ScheduleSlots
<1>8. ASSUME NEW w \in Workers, Receive(w) \/ TakeSession(w)
      PROVE  Same
  <2>1. CASE Receive(w)
    BY <2>1 DEF Receive
  <2>2. CASE TakeSession(w)
    <3>1. worker[w].token \in Sessions
      BY <2>2 DEF TakeSession, WorkerHolds
    <3>2. \/ sessions' = sessions
          \/ sessions' = [sessions EXCEPT ![worker[w].token] = Taken(sessions[worker[w].token])]
          \/ sessions' = [sessions EXCEPT ![worker[w].token].scheduled = FALSE]
      BY <2>2 DEF TakeSession
    <3>3. /\ Taken(sessions[r]).lastOk = sessions[r].lastOk /\ Taken(sessions[r]).status = sessions[r].status
          /\ [sessions[r] EXCEPT !.scheduled = FALSE].lastOk = sessions[r].lastOk
          /\ [sessions[r] EXCEPT !.scheduled = FALSE].status = sessions[r].status
      BY <1>1 DEF Taken, Session
    <3>4. \/ sessions'[r] = sessions[r] \/ sessions'[r] = Taken(sessions[r])
          \/ sessions'[r] = [sessions[r] EXCEPT !.scheduled = FALSE]
      BY <1>1, <3>1, <3>2
    <3>5. QED
      BY <3>3, <3>4
  <2>3. QED
    BY <1>8, <2>1, <2>2
<1>9. ASSUME NEW j \in Jobs, NEW known, FinishSession(j, known)
      PROVE  /\ sessions'[r].status = sessions[r].status
             /\ \/ sessions'[r].lastOk = sessions[r].lastOk
                \/ sessions[r].running = j /\ sessions'[r].lastOk = j /\ FinalStatus(j, known) = "succeeded"
  BY <1>9, FinishSlots
<1>10. ASSUME NEW w \in Workers, NEW o \in Outcomes, SettleSession(w, o)
       PROVE  /\ sessions'[r].status = sessions[r].status
              /\ \/ sessions'[r].lastOk = sessions[r].lastOk
                 \/ /\ sessions[r].running \in Jobs /\ sessions'[r].lastOk = sessions[r].running
                    /\ Reported(sessions[r].running)
  <2>1. /\ worker[w].pc = "settle" /\ worker[w].token \in Jobs
        /\ sessions' = sessions \/ FinishSession(worker[w].token, worker[w].known)
    BY <1>10, HeldJob DEF SettleSession
  <2>2. CASE sessions' = sessions
    BY <2>2
  <2>3. CASE FinishSession(worker[w].token, worker[w].known)
    <3>1. \/ Same
          \/ /\ sessions'[r].status = sessions[r].status /\ sessions[r].running = worker[w].token
             /\ sessions'[r].lastOk = worker[w].token /\ FinalStatus(worker[w].token, worker[w].known) = "succeeded"
      BY <1>9, <2>1, <2>3
    <3>2. QED
      BY <2>1, <3>1 DEF Reported
  <2>4. QED
    BY <2>1, <2>2, <2>3
<1>11. CASE RecoverSession
  <2>1. recovery.pc = "settle" /\ recovery.job \in Jobs /\ FinishSession(recovery.job, recovery.known)
    BY <1>11 DEF RecoverSession, RecoveryHolds
  <2>2. \/ Same
        \/ /\ sessions'[r].status = sessions[r].status /\ sessions[r].running = recovery.job
           /\ sessions'[r].lastOk = recovery.job /\ FinalStatus(recovery.job, recovery.known) = "succeeded"
    BY <1>9, <2>1
  <2>3. QED
    BY <2>1, <2>2 DEF Reported
<1>12. CASE Restart
  BY <1>12 DEF Restart, ClosedLease, NoLease
<1>13. QED
  BY <1>2, <1>3, <1>4, <1>5, <1>6, <1>7, <1>8, <1>10, <1>11, <1>12, NextSessions DEF SessionMoves

-----------------------------------------------------------------------------
(* The theorems about the slots. *)

(* No session and no row at the start. *)
LEMMA InitSettled == Init => Settled /\ Slots
<1> SUFFICES ASSUME Init PROVE Settled /\ Slots
  OBVIOUS
<1>1. Settled
  BY DEF Init, Settled, WorkersSettled, RecoverySettled, AccountingSettled, Concludes, Closing,
         IdleWorker, IdleRecovery, NoCompletion
<1>2. \A s \in Sessions : sessions[s].status = "none" /\ sessions[s].running = NoJob /\ sessions[s].pending = NoJob
                          /\ sessions[s].lastOk = NoJob /\ sessions[s].revision = 0
  BY DEF Init, NoLease
<1>3. \A j \in Jobs : jobs[j].session \notin Sessions
  BY JobManagerAssumption DEF Init, NoRow, NoSession
<1>4. Slots
  BY <1>2, <1>3 DEF Slots, Good, Owns, InOrder, OfSession, Rev
<1>5. QED
  BY <1>1, <1>4

(* Stuttering. *)
LEMMA SettledUnchanged == Settled /\ Slots /\ UNCHANGED vars => (Settled /\ Slots)'
<1> SUFFICES ASSUME Settled, Slots, UNCHANGED vars PROVE (Settled /\ Slots)'
  OBVIOUS
<1>1. Settled'
  BY DEF vars, Settled, WorkersSettled, RecoverySettled, AccountingSettled, Deferred
<1>2. Slots'
  BY DEF vars, Slots
<1>3. QED
  BY <1>1, <1>2

(* Every step keeps the copies settled and the slots in order. *)
LEMMA NextSlotsKept ==
    TypeInv /\ TypeInv' /\ TokenInv /\ GateInv /\ Settled /\ Slots /\ [Next]_vars => (Settled /\ Slots)'
BY NextSettled, NextSlots, SettledUnchanged

(* A session never has two attempts running, and what runs is older than    *)
(* what waits: SubmitRevision, takeSession, finishSession, CloseSession,    *)
(* recovery and Restart in any order keep one running row per session.      *)
THEOREM OneAttemptHolds == Spec => []OneAttempt
<1>1. Slots => OneAttempt
  BY DEF Slots, Good, Owns, InOrder, Rev, OneAttempt, LiveSessions
<1>2. QED
  BY InitType, NextType, InitTokens, NextTokens, InitGates, NextGates, InitSettled, NextSlotsKept, <1>1, PTL
     DEF Spec

(* The last successful revision of a session never goes back, however late  *)
(* finishSession is called for a deferred completion.                       *)
THEOREM LastSuccessMonotoneHolds == Spec => LastSuccessMonotone
<1>1. TypeInv /\ Slots /\ [Next]_vars
      => [\A s \in Sessions : sessions[s].status = "live" /\ sessions'[s].status = "live"
             => RevisionOf(sessions[s].lastOk) <= RevisionOf(sessions'[s].lastOk)]_vars
  <2>1. SUFFICES ASSUME TypeInv, Slots, Next, NEW s \in Sessions,
                        sessions[s].status = "live", sessions'[s].status = "live"
                 PROVE  RevisionOf(sessions[s].lastOk) <= RevisionOf(sessions'[s].lastOk)
    OBVIOUS
  <2>2. /\ RevisionOf(sessions[s].lastOk) = Rev(jobs, sessions[s].lastOk)
        /\ RevisionOf(sessions'[s].lastOk) = Rev(jobs, sessions'[s].lastOk)
    BY DEF RevisionOf, Rev
  <2>3. jobs \in [Jobs -> Job] /\ sessions[s].lastOk \in Jobs \cup {NoJob}
    BY <2>1 DEF TypeInv, TypeOK, Session
  <2>4. Rev(jobs, sessions[s].lastOk) \in Nat
    BY <2>3, RevType
  <2>5. sessions[s].running # NoJob => Rev(jobs, sessions[s].lastOk) <= Rev(jobs, sessions[s].running)
    BY <2>1 DEF Slots, Good, InOrder
  <2>6. \/ sessions'[s].lastOk = sessions[s].lastOk
        \/ sessions[s].running # NoJob /\ sessions'[s].lastOk = sessions[s].running
    BY <2>1, LastOkMoves, SessionsNotJobs
  <2>7. CASE sessions'[s].lastOk = sessions[s].lastOk
    BY <2>2, <2>4, <2>7
  <2>8. CASE sessions[s].running # NoJob /\ sessions'[s].lastOk = sessions[s].running
    BY <2>2, <2>5, <2>8
  <2>9. QED
    BY <2>6, <2>7, <2>8
<1>2. QED
  BY InitType, NextType, InitTokens, NextTokens, InitGates, NextGates, InitSettled, NextSlotsKept, <1>1, PTL
     DEF Spec, LastSuccessMonotone

-----------------------------------------------------------------------------
(* The tokens of a session. *)

Carries(W, s) == \E w \in Workers : W[w].token = s
Single(q, W, s) ==
    /\ Once(q, s)
    /\ \A v, w \in Workers : W[v].token = s /\ W[w].token = s => v = w
    /\ ~(In(q, s) /\ Carries(W, s))

(* One token at most, and a live session's flag says whether there is one.  *)
(* A closed session may leave a token behind; one that was never created    *)
(* has none, so its first revision starts with the flag down.               *)
TokenOf(q, W, s, S) ==
    /\ Single(q, W, s)
    /\ S.status = "live" => (S.scheduled <=> In(q, s) \/ Carries(W, s))
    /\ S.status = "none" => ~In(q, s) /\ ~Carries(W, s)
SessionTokenInv == \A s \in Sessions : TokenOf(queue, worker, s, sessions[s])

(* A step that moves no token. *)
LEMMA TokenStill ==
    ASSUME NEW s \in Sessions, TokenOf(queue, worker, s, sessions[s]),
           Once(queue, s) => Once(queue', s), In(queue', s) <=> In(queue, s),
           \A w \in Workers : worker'[w].token = s <=> worker[w].token = s,
           sessions'[s].status = "live" => \/ sessions[s].status = "none" /\ ~sessions'[s].scheduled
                                           \/ sessions[s].status = "live" /\ sessions'[s].scheduled = sessions[s].scheduled,
           sessions'[s].status = "none" => sessions[s].status = "none"
    PROVE  TokenOf(queue', worker', s, sessions'[s])
<1>1. Carries(worker', s) <=> Carries(worker, s)
  BY DEF Carries
<1>2. Single(queue', worker', s)
  BY <1>1 DEF TokenOf, Single
<1>3. QED
  BY <1>1, <1>2 DEF TokenOf

(* scheduleSessionLocked sends a token only while there is none. *)
LEMMA ScheduleTokens ==
    ASSUME TypeInv, SessionTokenInv, NEW s \in Sessions, NEW S \in Session, ScheduleSession(s, S),
           sessions[s].status = "live", S.status = "live", S.scheduled = sessions[s].scheduled, WorkerTokensSame
    PROVE  SessionTokenInv'
<1> SUFFICES ASSUME NEW r \in Sessions
             PROVE  TokenOf(queue', worker', r, sessions'[r])
  BY DEF SessionTokenInv
<1>1. TokenOf(queue, worker, r, sessions[r])
  BY DEF SessionTokenInv
<1>2. queue \in Seq(Jobs \cup Sessions) /\ s \in Jobs \cup Sessions /\ sessions \in [Sessions -> Session]
  BY DEF TypeInv, TypeOK
<1>3. \A w \in Workers : worker'[w].token = r <=> worker[w].token = r
  BY DEF WorkerTokensSame
<1>4. CASE r # s
  <2>1. sessions'[r] = sessions[r]
    BY <1>4, ScheduleSlots
  <2>2. (Once(queue, r) => Once(queue', r)) /\ (In(queue', r) <=> In(queue, r))
    BY <1>2, <1>4, SendOnce DEF ScheduleSession
  <2>3. QED
    BY <1>1, <1>3, <2>1, <2>2, TokenStill
<1>5. CASE r = s /\ ~CanSchedule(S)
  <2>1. queue' = queue /\ sessions'[s] = [S EXCEPT !.scheduled = @ \/ FALSE]
    BY <1>2, <1>5 DEF ScheduleSession
  <2>2. sessions'[s].status = "live" /\ sessions'[s].scheduled = S.scheduled
    BY <2>1 DEF Session
  <2>3. QED
    BY <1>1, <1>3, <1>5, <2>1, <2>2, TokenStill
<1>6. CASE r = s /\ CanSchedule(S)
  <2>1. queue' = Append(queue, s) /\ sessions'[s] = [S EXCEPT !.scheduled = @ \/ TRUE]
    BY <1>2, <1>6 DEF ScheduleSession
  <2>2. sessions'[s].status = "live" /\ sessions'[s].scheduled
    BY <2>1 DEF Session
  <2>3. ~In(queue, s) /\ ~Carries(worker, s) /\ Once(queue, s)
    BY <1>1, <1>6 DEF TokenOf, Single, CanSchedule
  <2>4. In(queue', s) /\ Once(queue', s)
    BY <1>2, <2>1, <2>3, SendFacts, SendOnce
  <2>5. ~Carries(worker', s)
    BY <1>3, <1>6, <2>3 DEF Carries
  <2>6. QED
    BY <1>6, <2>2, <2>4, <2>5 DEF TokenOf, Single, Carries
<1>7. QED
  BY <1>4, <1>5, <1>6

(* finishSession schedules a session that is not scheduled, once. *)
LEMMA FinishTokens ==
    ASSUME TypeInv, SessionTokenInv, NEW j \in Jobs, NEW known, FinishSession(j, known), WorkerTokensSame
    PROVE  SessionTokenInv'
<1> DEFINE s == jobs[j].session
           final == FinalStatus(j, known)
           S == [sessions[s] EXCEPT !.running = NoJob, !.lastOk = IF final = "succeeded" THEN j ELSE @]
<1>1. CASE j \notin Deferred /\ final \in Terminal /\ OwnsSlot(j)
  <2>1. s \in Sessions /\ sessions[s] \in Session /\ sessions[s].status = "live"
    BY <1>1 DEF OwnsSlot, LiveSessions, TypeInv, TypeOK
  <2>2. S \in Session /\ S.status = sessions[s].status /\ S.scheduled = sessions[s].scheduled
    BY <2>1 DEF Session, NoJob
  <2>3. ScheduleSession(s, S)
    BY <1>1 DEF FinishSession
  <2> HIDE DEF S
  <2>4. QED
    BY <2>1, <2>2, <2>3, ScheduleTokens
<1>2. CASE ~(j \notin Deferred /\ final \in Terminal /\ OwnsSlot(j))
  <2>1. sessions' = sessions /\ queue' = queue
    BY <1>2 DEF FinishSession
  <2>2. QED
    BY <2>1, TokenStill DEF SessionTokenInv, WorkerTokensSame, TokenOf
<1>3. QED
  BY <1>1, <1>2

(* What a receive does to the tokens of one kind. *)
LEMMA ReceiveOnce ==
    ASSUME NEW T, NEW q \in Seq(T), q # <<>>, NEW t, Once(q, t)
    PROVE  /\ Once(Tail(q), t)
           /\ t = Head(q) => ~In(Tail(q), t)
           /\ t # Head(q) => (In(Tail(q), t) <=> In(q, t))
<1>1. /\ DOMAIN q = 1 .. Len(q) /\ Len(q) \in Nat \ {0}
      /\ DOMAIN Tail(q) = 1 .. Len(q) - 1
      /\ \A i \in 1 .. Len(q) - 1 : Tail(q)[i] = q[i + 1]
      /\ Head(q) = q[1]
  OBVIOUS
<1>2. Once(Tail(q), t)
  BY <1>1 DEF Once
<1>3. t = Head(q) => ~In(Tail(q), t)
  BY <1>1 DEF Once, In
<1>4. ASSUME t # Head(q), In(q, t)
      PROVE  In(Tail(q), t)
  <2>1. PICK i \in 1 .. Len(q) : q[i] = t
    BY <1>1, <1>4 DEF In
  <2>2. i # 1 /\ i - 1 \in 1 .. Len(q) - 1 /\ (i - 1) + 1 = i
    BY <1>1, <1>4, <2>1
  <2>3. Tail(q)[i - 1] = t
    BY <1>1, <2>1, <2>2
  <2>4. QED
    BY <1>1, <2>2, <2>3 DEF In
<1>5. QED
  BY <1>2, <1>3, <1>4, ReceiveFacts

(* Every step keeps the tokens of every session. *)
LEMMA StepSessionTokens ==
    ASSUME TypeInv, TypeInv', SessionTokenInv, Next
    PROVE  SessionTokenInv'
<1> USE DEF TypeInv
<1>1. sessions \in [Sessions -> Session] /\ queue \in Seq(Jobs \cup Sessions)
  BY DEF TypeOK
<1>2. /\ queue' = queue => ChannelTokensSame
      /\ worker' = worker => WorkerTokensSame
  BY DEF ChannelTokensSame, WorkerTokensSame
<1>3. ASSUME ChannelTokensSame, WorkerTokensSame,
             \A s \in Sessions :
                /\ sessions'[s].status = "live" =>
                      \/ sessions[s].status = "none" /\ ~sessions'[s].scheduled
                      \/ sessions[s].status = "live" /\ sessions'[s].scheduled = sessions[s].scheduled
                /\ sessions'[s].status = "none" => sessions[s].status = "none"
      PROVE  SessionTokenInv'
  <2>1. ASSUME NEW s \in Sessions
        PROVE  TokenOf(queue', worker', s, sessions'[s])
    BY <1>3, TokenStill DEF SessionTokenInv, ChannelTokensSame, WorkerTokensSame
  <2>2. QED
    BY <2>1 DEF SessionTokenInv
<1>4. CASE Elsewhere
  <2>1. \A s \in Sessions : sessions[s].status \in {"none", "live", "closed"} /\ sessions'[s] = sessions[s]
    BY <1>1, <1>4 DEF Elsewhere, Session
  <2>2. QED
    BY <1>3, <1>4, <2>1 DEF Elsewhere
<1>5. ASSUME NEW s \in Sessions, CreateSession(s)
      PROVE  SessionTokenInv'
  <2>1. /\ queue' = queue /\ worker' = worker /\ sessions[s].status = "none"
        /\ sessions'[s].status = "live" /\ sessions'[s].scheduled = FALSE
        /\ \A r \in Sessions \ {s} : sessions'[r] = sessions[r]
    BY <1>1, <1>5 DEF CreateSession, NoLease
  <2>2. QED
    BY <1>2, <1>3, <2>1
<1>6. ASSUME NEW s \in Sessions, CloseSession(s)
      PROVE  SessionTokenInv'
  <2>1. /\ queue' = queue /\ worker' = worker /\ sessions'[s].status = "closed"
        /\ \A r \in Sessions \ {s} : sessions'[r] = sessions[r]
    BY <1>1, <1>6 DEF CloseSession, ClosedLease, NoLease
  <2>2. QED
    BY <1>2, <1>3, <2>1
<1>7. ASSUME NEW s \in Sessions, RenewSession(s) \/ LeaseTick(s)
      PROVE  SessionTokenInv'
  <2>1. /\ queue' = queue /\ worker' = worker
        /\ \E n : sessions' = [sessions EXCEPT ![s] = [sessions[s] EXCEPT !.lease = n]]
    BY <1>7 DEF RenewSession, LeaseTick
  <2>2. \A r \in Sessions : sessions'[r].status = sessions[r].status /\ sessions'[r].scheduled = sessions[r].scheduled
    BY <1>1, <2>1 DEF Session
  <2>3. QED
    BY <1>2, <1>3, <2>1, <2>2
<1>8. ASSUME NEW s \in Sessions, MaintainSession(s)
      PROVE  SessionTokenInv'
  BY <1>1, <1>2, <1>8, ScheduleTokens DEF MaintainSession, LiveSessions
<1>9. ASSUME NEW s \in Sessions, NEW j \in Jobs, NEW p \in Snapshots, SubmitRevision(s, j, p)
      PROVE  SessionTokenInv'
  <2> DEFINE S == [sessions[s] EXCEPT !.revision = @ + 1, !.pending = j, !.snapshot = p, !.lease = LeaseTTL]
  <2>1. ScheduleSession(s, S) /\ worker' = worker /\ sessions[s].status = "live"
    BY <1>9 DEF SubmitRevision, AdmitRevision, LeaseHeld
  <2>2. sessions[s] \in Session /\ LeaseTTL \in 0 .. LeaseTTL /\ sessions[s].revision + 1 \in Nat
    BY JobManagerAssumption DEF TypeOK, Session
  <2>3. S \in Session /\ S.status = sessions[s].status /\ S.scheduled = sessions[s].scheduled
    BY <2>2 DEF Session
  <2> HIDE DEF S
  <2>4. QED
    BY <1>2, <2>1, <2>3, ScheduleTokens
<1>10. ASSUME NEW w \in Workers, Receive(w)
       PROVE  SessionTokenInv'
  <2>1. /\ queue # <<>> /\ queue' = Tail(queue) /\ sessions' = sessions /\ worker[w].token = NoJob
        /\ worker'[w].token = Head(queue) /\ \A v \in Workers \ {w} : worker'[v] = worker[v]
    BY <1>10 DEF Receive, WorkerHolds, TypeOK
  <2>2. ASSUME NEW s \in Sessions
        PROVE  TokenOf(queue', worker', s, sessions'[s])
    <3>1. TokenOf(queue, worker, s, sessions[s]) /\ Once(queue, s)
      BY DEF SessionTokenInv, TokenOf, Single
    <3>2. CASE s # Head(queue)
      <4>1. Once(queue', s) /\ (In(queue', s) <=> In(queue, s))
        BY <1>1, <2>1, <3>1, <3>2, ReceiveOnce
      <4>2. \A v \in Workers : worker'[v].token = s <=> worker[v].token = s
        BY <2>1, <3>2, SessionsNotJobs
      <4>3. sessions[s].status \in {"none", "live", "closed"} /\ sessions'[s] = sessions[s]
        BY <1>1, <2>1 DEF Session
      <4>4. QED
        BY <3>1, <4>1, <4>2, <4>3, TokenStill
    <3>3. CASE s = Head(queue)
      <4>1. Once(queue', s) /\ ~In(queue', s) /\ In(queue, s)
        BY <1>1, <2>1, <3>1, <3>3, ReceiveOnce, ReceiveFacts
      <4>2. \A v \in Workers : worker[v].token # s
        BY <3>1, <4>1 DEF TokenOf, Single, Carries
      <4>3. \A v \in Workers : worker'[v].token = s <=> v = w
        BY <2>1, <3>3, <4>2
      <4>4. Single(queue', worker', s) /\ Carries(worker', s)
        BY <4>1, <4>3 DEF Single, Carries
      <4>5. QED
        BY <2>1, <3>1, <4>1, <4>4 DEF TokenOf
    <3>4. QED
      BY <3>2, <3>3
  <2>3. QED
    BY <2>2 DEF SessionTokenInv
<1>11. ASSUME NEW w \in Workers, TakeSession(w)
       PROVE  SessionTokenInv'
  <2>0. PICK s \in Sessions : s = worker[w].token
    BY <1>11 DEF TakeSession, WorkerHolds
  <2>1. /\ queue' = queue /\ worker'[w].token \notin Sessions
        /\ \A v \in Workers \ {w} : worker'[v] = worker[v]
    <3>1. /\ queue' = queue
          /\ \/ worker' = [worker EXCEPT ![w] = IdleWorker]
             \/ /\ sessions[s].pending # NoJob
                /\ worker' = [worker EXCEPT ![w] = [pc |-> "load", token |-> sessions[s].pending, known |-> "none"]]
      BY <1>11, <2>0 DEF TakeSession
    <3>2. sessions[s].pending # NoJob => sessions[s].pending \in Jobs
      BY PendingType
    <3>3. QED
      BY <3>1, <3>2, SessionsNotJobs DEF TypeOK, IdleWorker
  <2>2. /\ \A r \in Sessions \ {s} : sessions'[r] = sessions[r]
        /\ sessions'[s].status = sessions[s].status
        /\ sessions[s].status = "live" => ~sessions'[s].scheduled
    <3>1. \/ sessions' = sessions /\ sessions[s].status # "live"
          \/ sessions' = [sessions EXCEPT ![s] = Taken(sessions[s])]
          \/ sessions' = [sessions EXCEPT ![s].scheduled = FALSE]
      BY <1>11, <2>0 DEF TakeSession
    <3>2. sessions[s] \in Session
      BY <1>1
    <3>3. /\ Taken(sessions[s]).status = sessions[s].status /\ Taken(sessions[s]).scheduled = FALSE
          /\ [sessions[s] EXCEPT !.scheduled = FALSE].status = sessions[s].status
          /\ [sessions[s] EXCEPT !.scheduled = FALSE].scheduled = FALSE
      BY <3>2 DEF Taken, Session
    <3>4. QED
      BY <1>1, <3>1, <3>3
  <2>3. ASSUME NEW r \in Sessions
        PROVE  TokenOf(queue', worker', r, sessions'[r])
    <3>1. TokenOf(queue, worker, r, sessions[r])
      BY DEF SessionTokenInv
    <3>2. CASE r # s
      <4>1. \A v \in Workers : worker'[v].token = r <=> worker[v].token = r
        BY <2>0, <2>1, <3>2
      <4>2. sessions[r].status \in {"none", "live", "closed"} /\ sessions'[r] = sessions[r]
        BY <1>1, <2>2, <3>2 DEF Session
      <4>3. QED
        BY <2>1, <3>1, <4>1, <4>2, TokenStill
    <3>3. CASE r = s
      <4>1. Carries(worker, r)
        BY <2>0, <3>3 DEF Carries
      <4>2. /\ Once(queue, r) /\ ~In(queue, r) /\ sessions[r].status # "none"
            /\ \A v \in Workers : worker[v].token = r => v = w
        BY <2>0, <3>1, <3>3, <4>1 DEF TokenOf, Single
      <4>3. ~Carries(worker', r)
        BY <2>1, <4>2 DEF Carries
      <4>4. Single(queue', worker', r)
        BY <2>1, <4>2, <4>3 DEF Single, Carries
      <4>5. QED
        BY <2>1, <2>2, <3>3, <4>2, <4>3, <4>4 DEF TokenOf
    <3>4. QED
      BY <3>2, <3>3
  <2>4. QED
    BY <2>3 DEF SessionTokenInv
<1>12. ASSUME NEW w \in Workers, NEW o \in Outcomes, SettleSession(w, o)
       PROVE  SessionTokenInv'
  <2>1. /\ worker[w].token \in Jobs /\ WorkerTokensSame
        /\ (sessions' = sessions /\ queue' = queue) \/ FinishSession(worker[w].token, worker[w].known)
    BY <1>12, HeldJob, TokensStill DEF SettleSession
  <2>2. \A s \in Sessions : sessions[s].status \in {"none", "live", "closed"}
    BY <1>1 DEF Session
  <2>3. QED
    BY <1>2, <1>3, <2>1, <2>2, FinishTokens
<1>13. CASE RecoverSession
  BY <1>2, <1>13, FinishTokens DEF RecoverSession, RecoveryHolds
<1>14. CASE Restart
  <2>1. /\ queue' = <<>> /\ \A w \in Workers : worker'[w].token = NoJob
        /\ \A s \in Sessions : sessions'[s].status # "live"
    BY <1>14 DEF Restart, IdleWorker, ClosedLease, NoLease
  <2>2. QED
    BY <2>1, SessionsNotJobs DEF SessionTokenInv, TokenOf, Single, Once, In, Carries
<1>15. QED
  BY <1>4, <1>5, <1>6, <1>7, <1>8, <1>9, <1>10, <1>11, <1>12, <1>13, <1>14, NextSessions DEF SessionMoves

(* One case per action. *)
LEMMA NextSessionTokens == TypeInv /\ TypeInv' /\ SessionTokenInv /\ [Next]_vars => SessionTokenInv'
<1>1. SUFFICES ASSUME TypeInv, TypeInv', SessionTokenInv, [Next]_vars PROVE SessionTokenInv'
  OBVIOUS
<1>2. CASE UNCHANGED vars
  BY <1>1, <1>2 DEF vars, SessionTokenInv
<1>3. QED
  BY <1>1, <1>2, StepSessionTokens

(* No token at the start. *)
LEMMA InitSessionTokens == Init => SessionTokenInv
BY SessionsNotJobs DEF Init, SessionTokenInv, TokenOf, Single, Once, In, Carries, NoLease, IdleWorker

(* A set with one member at most. *)
LEMMA SoleMember ==
    ASSUME NEW T, \A x, y \in T : x = y
    PROVE  Cardinality(T) = IF T = {} THEN 0 ELSE 1
<1>1. CASE T = {}
  BY <1>1, FS_EmptySet
<1>2. ASSUME NEW x \in T
      PROVE  Cardinality(T) = 1
  <2>1. T = {x}
    BY <1>2
  <2>2. QED
    BY <2>1, FS_Singleton
<1>3. QED
  BY <1>1, <1>2

(* "Only one queue token exists per idle session": a live session's flag    *)
(* tells exactly whether its token is in the channel or at a worker, so no  *)
(* session is scheduled twice and none is forgotten with its flag up.       *)
THEOREM OneSessionTokenHolds == Spec => []OneSessionToken
<1>1. TypeInv /\ SessionTokenInv => OneSessionToken
  <2> SUFFICES ASSUME TypeInv, SessionTokenInv, NEW s \in LiveSessions
               PROVE  SessionTokens(s) = IF sessions[s].scheduled THEN 1 ELSE 0
    BY DEF OneSessionToken
  <2> DEFINE I == {i \in DOMAIN queue : queue[i] = s}
             W == {w \in Workers : worker[w].token = s}
  <2>1. s \in Sessions /\ sessions[s].status = "live" /\ TokenOf(queue, worker, s, sessions[s])
    BY DEF LiveSessions, SessionTokenInv
  <2>2. Cardinality(I) = (IF I = {} THEN 0 ELSE 1) /\ (In(queue, s) <=> I # {})
    <3>1. \A x, y \in I : x = y
      BY <2>1 DEF TokenOf, Single, Once
    <3> HIDE DEF I
    <3>2. Cardinality(I) = IF I = {} THEN 0 ELSE 1
      BY <3>1, SoleMember
    <3>3. In(queue, s) <=> I # {}
      BY DEF In, I
    <3>4. QED
      BY <3>2, <3>3
  <2>3. Cardinality(W) = (IF W = {} THEN 0 ELSE 1) /\ (Carries(worker, s) <=> W # {})
    <3>1. \A x, y \in W : x = y
      BY <2>1 DEF TokenOf, Single
    <3> HIDE DEF W
    <3>2. Cardinality(W) = IF W = {} THEN 0 ELSE 1
      BY <3>1, SoleMember
    <3>3. Carries(worker, s) <=> W # {}
      BY DEF Carries, W
    <3>4. QED
      BY <3>2, <3>3
  <2>4. SessionTokens(s) = Cardinality(I) + Cardinality(W)
    BY DEF SessionTokens
  <2> HIDE DEF I, W
  <2>5. (sessions[s].scheduled <=> I # {} \/ W # {}) /\ ~(I # {} /\ W # {})
    BY <2>1, <2>2, <2>3 DEF TokenOf, Single
  <2>6. QED
    BY <2>2, <2>3, <2>4, <2>5
<1>2. QED
  BY InitType, NextType, InitSessionTokens, NextSessionTokens, <1>1, PTL DEF Spec

-----------------------------------------------------------------------------
(* Until the first database call fails. *)

Past == {"compile", "publish", "unwind", "settle", "gate"}
Begun(st) == st \notin {"none", "queued"}
Won(st) == st \in {"succeeded", "deleted"}

(* A worker whose copy of the job says succeeded. *)
Claims(r) == r.pc = "publish" \/ (r.pc \in Closing /\ r.known = "succeeded")

NoneDeferred == Deferred = {} /\ recovery.pc = "idle"
PastBegun == \A w \in Workers : worker[w].pc \in Past => Begun(jobs[worker[w].token].status)
ClaimsWon == \A w \in Workers : Claims(worker[w]) => Won(jobs[worker[w].token].status)
UpInv == NoneDeferred /\ PastBegun /\ ClaimsWon /\ QueuedIsScheduled /\ LastSuccessDurable

(* While no call has failed, none fails. *)
LEMMA CallOk ==
    ASSUME TypeOK, faults' = 0, NEW o, DbCall(o)
    PROVE  o = "ok" /\ faults = 0
BY DEF DbCall, TypeOK

(* What one step does to a worker's claims. *)
WorkerUp(w) ==
    /\ worker'[w].pc \in Past => \/ worker[w].pc \in Past /\ worker'[w].token = worker[w].token
                                 \/ Begun(jobs'[worker'[w].token].status)
    /\ Claims(worker'[w]) => \/ Claims(worker[w]) /\ worker'[w].token = worker[w].token
                             \/ Won(jobs'[worker'[w].token].status)

(* A queued job is new, or was queued and is still on its way. *)
JobUp(j) ==
    jobs'[j].status = "queued" /\ jobs'[j].session = NoSession
    => Placed(j)' \/ (jobs[j].status = "queued" /\ ~Placed(j))
JobsUp == \A j \in Jobs : JobUp(j)

(* The facts about a step that UpInv needs. *)
LEMMA UpStep ==
    ASSUME TypeInv, TypeInv', TokenInv, GateInv, UpInv, Next, ~Restart,
           completions' = completions, recovery' = recovery,
           \A w \in Workers : WorkerUp(w), JobsUp
    PROVE  UpInv'
<1>1. \A j \in Jobs : jobs[j].status \in Status /\ jobs'[j].status \in Lifecycle!Moves(jobs[j].status)
  BY StepGates DEF GatesObeyed, TypeInv, TypeOK, Job
<1>2. \A j \in Jobs : /\ Begun(jobs[j].status) => Begun(jobs'[j].status)
                      /\ Won(jobs[j].status) => Won(jobs'[j].status)
  BY <1>1 DEF Lifecycle!Moves, Lifecycle!Final, Begun, Won, Status, Terminal, Pending
<1>3. NoneDeferred'
  BY DEF UpInv, NoneDeferred, Deferred
<1>4. \A w \in Workers : worker'[w].pc \in Past \/ Claims(worker'[w]) => worker'[w].token \in Jobs
  BY DEF TypeInv, WorkerHolds, Past, Claims, Closing
<1>5. PastBegun'
  BY <1>2, <1>4 DEF PastBegun, UpInv, WorkerUp
<1>6. ClaimsWon'
  <2> SUFFICES ASSUME NEW w \in Workers, Claims(worker'[w])
               PROVE  Won(jobs'[worker'[w].token].status)
    BY DEF ClaimsWon, Claims
  <2>1. QED
    BY <1>2, <1>4 DEF ClaimsWon, UpInv, WorkerUp
<1>7. QueuedIsScheduled'
  <2> SUFFICES ASSUME NEW j \in Jobs, jobs'[j].status = "queued", jobs'[j].session = NoSession
               PROVE  Placed(j)'
    BY DEF QueuedIsScheduled, Queued
  <2>1. jobs[j].status = "queued" => jobs[j].session = NoSession
    BY NextNamed DEF RowsNamed, SameRow
  <2>2. QED
    BY <2>1 DEF JobsUp, JobUp, UpInv, QueuedIsScheduled, Queued
<1>8. LastSuccessDurable'
  <2> SUFFICES ASSUME NEW s \in Sessions, sessions'[s].status = "live", sessions'[s].lastOk # NoJob
               PROVE  jobs'[sessions'[s].lastOk].status \in {"succeeded", "deleted"}
    BY DEF LastSuccessDurable, LiveSessions
  <2>1. sessions[s].lastOk \in Jobs \cup {NoJob}
    BY DEF TypeInv, TypeOK, Session
  <2>2. CASE sessions[s].status = "live" /\ sessions'[s].lastOk = sessions[s].lastOk
    BY <1>2, <2>1, <2>2 DEF UpInv, LastSuccessDurable, LiveSessions, Won
  <2>3. ASSUME NEW j \in Jobs, j = sessions[s].running, sessions'[s].lastOk = j, Reported(j)
        PROVE  Won(jobs'[j].status)
    <3>1. PICK w \in Workers : worker[w].pc = "settle" /\ worker[w].token = j /\ FinalStatus(j, worker[w].known) = "succeeded"
      BY <2>3 DEF Reported, UpInv, NoneDeferred
    <3>2. Won(jobs[j].status)
      BY <3>1 DEF FinalStatus, UpInv, ClaimsWon, Claims, Closing, Won, Terminal
    <3>3. QED
      BY <1>2, <3>2
  <2>4. QED
    BY <2>2, <2>3, LastOkMoves DEF Won
<1>9. QED
  BY <1>3, <1>5, <1>6, <1>7, <1>8 DEF UpInv

(* The jobs stay where they are. *)
StillPlaced ==
    /\ \A j \in Jobs : In(queue, j) => In(queue', j)
    /\ \A w \in Workers : worker[w].token \in Jobs => worker'[w].token = worker[w].token
    /\ recovering \subseteq recovering' /\ unsent \subseteq unsent'
(* No row becomes queued. *)
NoneNew(js, ks) == \A j \in Jobs : ks[j].status = "queued" => js[j].status = "queued"

(* Jobs that keep their place are still on their way. *)
LEMMA StillUp ==
    ASSUME TypeInv, StillPlaced
    PROVE  /\ \A j \in Jobs : Placed(j) => Placed(j)'
           /\ NoneNew(jobs, jobs') => JobsUp
<1>1. \A j \in Jobs : Placed(j) => Placed(j)'
  BY DEF StillPlaced, Placed, InChannel, In
<1>2. QED
  BY <1>1 DEF NoneNew, JobsUp, JobUp

(* Status changes to anything but queued queue nothing. *)
LEMMA NoneNewFacts ==
    ASSUME NEW js \in [Jobs -> Job], NEW j \in Jobs
    PROVE  /\ NoneNew(js, js)
           /\ \A from, to : to # "queued" => NoneNew(js, Transition(js, j, from, to)) /\ NoneNew(js, SetStatus(js, j, to))
           /\ NoneNew(js, Account(js, j))
<1>1. \A to : to # "queued" => NoneNew(js, SetStatus(js, j, to))
  BY DEF NoneNew, SetStatus, Job
<1>2. NoneNew(js, js)
  BY DEF NoneNew
<1>3. \A from, to : to # "queued" => NoneNew(js, Transition(js, j, from, to))
  BY <1>1, <1>2 DEF Transition
<1>4. NoneNew(js, Account(js, j))
  BY DEF NoneNew, Account, Job
<1>5. QED
  BY <1>1, <1>2, <1>3, <1>4

(* Sending and moving on keep a job placed. *)
LEMMA PlacedFacts ==
    ASSUME TypeInv
    PROVE  /\ \A t \in Jobs \cup Sessions : queue' = Append(queue, t)
                 => In(queue', t) /\ \A j \in Jobs : In(queue, j) => In(queue', j)
           /\ \A w \in Workers, j \in Jobs : worker[w].token = j /\ worker' = worker => worker'[w].token = j
           /\ \A w \in Workers : \A pc, known : Goto(w, pc, known)
                 => \A v \in Workers : worker'[v].token = worker[v].token
<1>1. queue \in Seq(Jobs \cup Sessions)
  BY DEF TypeInv, TypeOK
<1>2. \A t \in Jobs \cup Sessions : queue' = Append(queue, t)
         => In(queue', t) /\ \A j \in Jobs : In(queue, j) => In(queue', j)
  BY <1>1, SendFacts
<1>3. QED
  BY <1>2, GotoWorkers

(* A restart that counts no failure. *)
LEMMA RestartUp ==
    ASSUME TypeInv, Restart, faults' = 0
    PROVE  faults = 0 /\ (RestartListed({}) \/ (~Durable /\ RestartBlind))
<1>0. faults \in Nat
  BY DEF TypeInv, TypeOK
<1>1. ASSUME NEW bad \in SUBSET Jobs, RestartListed(bad)
      PROVE  faults = 0 /\ bad = {}
  <2>1. faults' = faults + Cardinality(bad) /\ IsFiniteSet(bad) /\ Cardinality(bad) \in Nat
    BY <1>1, JobSets DEF RestartListed
  <2>2. faults = 0 /\ Cardinality(bad) = 0
    BY <1>0, <2>1
  <2>3. QED
    BY <2>1, <2>2, FS_EmptySet
<1>2. ASSUME RestartBlind
      PROVE  faults = 0 /\ ~Durable
  BY <1>0, <1>2 DEF RestartBlind
<1>3. \/ RestartListed({}) \/ RestartBlind
      \/ \E bad \in SUBSET PendingRows : RestartListed(bad)
  BY DEF Restart
<1>4. QED
  BY <1>1, <1>2, <1>3 DEF PendingRows

(* Failures are counted and never forgotten. *)
LEMMA NextUp ==
    ASSUME TypeInv, Next, faults' = 0
    PROVE  faults = 0
<1> USE DEF TypeInv
<1>0. faults \in Nat
  BY DEF TypeOK
<1>1. \A o : DbCall(o) => faults = 0
  BY CallOk
<1>2. CASE ClientNext
  BY <1>1, <1>2 DEF ClientNext, Enqueue, CancelQueued, CancelRunning, CleanupProject
<1>3. CASE SessionNext
  <2>1. ASSUME NEW s \in Sessions, NEW j \in Jobs, NEW p \in Snapshots, NEW o, NEW r, SubmitFailed(s, j, p, o, r)
        PROVE  FALSE
    BY <1>0, <2>1 DEF SubmitFailed
  <2>2. ASSUME NEW s \in Sessions, NEW j \in Jobs, NEW p \in Snapshots, SubmitRevision(s, j, p) \/ SubmitLost(s, j, p)
        PROVE  faults = 0
    BY <1>1, <2>2 DEF SubmitRevision, SubmitLost
  <2>3. ASSUME NEW s \in Sessions, NEW o, CloseRunningFailed(s, o)
        PROVE  faults = 0
    BY <1>1, <2>3 DEF CloseRunningFailed
  <2>4. ASSUME NEW s \in Sessions, \/ CreateSession(s) \/ RenewSession(s) \/ LeaseTick(s)
                                   \/ CloseSession(s) \/ ClosePendingLost(s)
        PROVE  faults = 0
    BY <1>1, <2>4 DEF CreateSession, RenewSession, LeaseTick, CloseSession, ClosePendingLost
  <2>5. QED
    BY <1>3, <2>1, <2>2, <2>3, <2>4 DEF SessionNext
<1>4. ASSUME NEW w \in Workers, WorkerNext(w)
      PROVE  faults = 0
  <2>1. faults' = faults \/ \E o \in Outcomes : DbCall(o)
    BY <1>4 DEF WorkerNext, Receive, TakeSession, LoadJob, RejectJob, StartJob, FinishJob, PublishJob,
                SkipPublish, Deactivate, SettleSession, OpenGate, Requeue, Forget
  <2>2. QED
    BY <1>1, <2>1
<1>5. CASE RecoveryNext
  BY <1>1, <1>5 DEF RecoveryNext, RetryCompletion, RetryLost, RecoverSession, RecoverGate
<1>6. CASE BackgroundNext
  BY <1>1, <1>6, RestartUp DEF BackgroundNext, CancelUnsent, FeedRecovered, PruneTerminal, MaintainSession
<1>7. QED
  BY <1>2, <1>3, <1>4, <1>5, <1>6 DEF Next

-----------------------------------------------------------------------------
(* While no call fails, only a native map whose row is gone makes a worker  *)
(* requeue a start, and that row stays gone: the late deletion from         *)
(* m.active takes nobody's entry.                                           *)

Owning == {"compile", "publish", "unwind"}
Gone(j) == j \in Jobs /\ j \notin active /\ jobs[j].status = "deleted"
ActiveOwned == \A j \in active : \E w \in Workers : worker[w].pc \in Owning /\ worker[w].token = j
LeaversGone ==
    \A w \in Workers : /\ worker[w].pc = "requeue" /\ worker[w].known = "running" => Gone(worker[w].token)
                       /\ worker[w].pc = "forget" => Gone(leaving[w])
MarkInv == unmarked = {} /\ ActiveOwned /\ LeaversGone

DeletedKept == \A j \in Jobs : jobs[j].status = "deleted" => jobs'[j].status = "deleted"

(* A row that is gone does not come back. *)
LEMMA NextDeleted ==
    ASSUME TypeInv, TypeInv', TokenInv, GateInv, Next
    PROVE  DeletedKept
<1>1. CASE GatesObeyed
  BY <1>1 DEF GatesObeyed, Lifecycle!Moves, Lifecycle!Final, DeletedKept
<1>2. CASE Restart
  BY <1>2, RestartGates DEF DeletedKept, Terminal, Pending
<1>3. QED
  BY <1>1, <1>2, StepGates

(* Only workers touch m.active. *)
LEMMA OutsideMarks ==
    ASSUME ~Restart, ClientNext \/ SessionNext \/ BackgroundNext \/ RecoveryNext
    PROVE  worker' = worker /\ active' = active /\ leaving' = leaving /\ unmarked' = unmarked
<1>1. CASE ClientNext
  BY <1>1 DEF ClientNext, Enqueue, CancelQueued, CancelRunning, CleanupProject, asideVars
<1>2. CASE SessionNext
  BY <1>2, SessionNextStill
<1>3. CASE BackgroundNext
  BY <1>3 DEF BackgroundNext, CancelUnsent, FeedRecovered, PruneTerminal, MaintainSession, asideVars
<1>4. CASE RecoveryNext
  BY <1>4 DEF RecoveryNext, RetryCompletion, RetryLost, RecoverSession, RecoverGate, asideVars
<1>5. QED
  BY <1>1, <1>2, <1>3, <1>4

(* A step of one worker that starts no attempt. *)
LEMMA MarkStep ==
    ASSUME TypeInv, MarkInv, DeletedKept, NEW w \in Workers, unmarked' = unmarked, active' \subseteq active,
           \A v \in Workers \ {w} : worker'[v] = worker[v] /\ leaving'[v] = leaving[v],
           worker[w].token \in active' /\ worker[w].pc \in Owning
               => worker'[w].pc \in Owning /\ worker'[w].token = worker[w].token,
           worker'[w].pc = "requeue" /\ worker'[w].known = "running" => Gone(worker[w].token) /\ worker'[w].token = worker[w].token,
           worker'[w].pc = "forget" => Gone(leaving'[w])
    PROVE  MarkInv'
<1>1. \A j : Gone(j) => j \in Jobs /\ j \notin active' /\ jobs'[j].status = "deleted"
  BY DEF Gone, DeletedKept
<1>2. ActiveOwned'
  <2> SUFFICES ASSUME NEW j \in active'
               PROVE  \E v \in Workers : worker'[v].pc \in Owning /\ worker'[v].token = j
    BY DEF ActiveOwned
  <2>1. PICK v \in Workers : worker[v].pc \in Owning /\ worker[v].token = j
    BY DEF MarkInv, ActiveOwned
  <2>2. QED
    BY <2>1
<1>3. LeaversGone'
  <2> SUFFICES ASSUME NEW v \in Workers
               PROVE  /\ worker'[v].pc = "requeue" /\ worker'[v].known = "running" => Gone(worker'[v].token)
                      /\ worker'[v].pc = "forget" => Gone(leaving'[v])
    BY <1>1 DEF LeaversGone, Gone
  <2>1. CASE v = w
    BY <2>1
  <2>2. CASE v # w
    BY <2>2 DEF MarkInv, LeaversGone
  <2>3. QED
    BY <2>1, <2>2
<1>4. QED
  BY <1>2, <1>3 DEF MarkInv

(* A worker's step that only moves it on. *)
LEMMA MarkGoto ==
    ASSUME TypeInv, MarkInv, DeletedKept, NEW w \in Workers, NEW pc, NEW known, Goto(w, pc, known),
           active' = active, leaving' = leaving, unmarked' = unmarked,
           worker[w].pc \in Owning => pc \in Owning, pc # "forget",
           pc = "requeue" /\ known = "running" => Gone(worker[w].token)
    PROVE  MarkInv'
<1>1. /\ worker'[w].pc = pc /\ worker'[w].known = known /\ worker'[w].token = worker[w].token
      /\ \A v \in Workers \ {w} : worker'[v] = worker[v]
  BY DEF Goto, TypeInv, TypeOK, Worker
<1>2. QED
  BY <1>1, MarkStep

(* While no call fails, no worker takes another's entry out of m.active. *)
LEMMA WorkerMarks ==
    ASSUME TypeInv, TokenInv, MarkInv, DeletedKept, faults' = 0, NEW w \in Workers, WorkerNext(w)
    PROVE  MarkInv'
<1> USE DEF TypeInv
<1>1. worker \in [Workers -> Worker] /\ leaving \in [Workers -> Jobs \cup {NoJob}]
  BY DEF TypeOK
<1>2. ASSUME NEW j, j = worker[w].token, worker[w].pc \in {"load", "start", "requeue"}
      PROVE  j \notin active
  <2> SUFFICES ASSUME j \in active
               PROVE  FALSE
    OBVIOUS
  <2>1. PICK v \in Workers : worker[v].pc \in Owning /\ worker[v].token = j
    BY DEF MarkInv, ActiveOwned
  <2>2. v # w /\ worker[w].token \in Jobs
    BY <1>2, <2>1, HeldJob DEF Owning
  <2>3. QED
    BY <1>2, <2>1, <2>2 DEF TokenInv, SoleToken
<1>3. CASE Receive(w) \/ TakeSession(w)
  <2>1. /\ worker'[w].pc \notin {"requeue", "forget"} /\ worker[w].pc \notin Owning
        /\ \A v \in Workers \ {w} : worker'[v] = worker[v]
        /\ active' = active /\ leaving' = leaving /\ unmarked' = unmarked
    BY <1>1, <1>3 DEF Receive, TakeSession, IdleWorker, Owning, asideVars
  <2>2. QED
    BY <2>1, MarkStep
<1>4. ASSUME NEW o \in Outcomes, LoadJob(w, o)
      PROVE  MarkInv'
  <2>1. /\ worker[w].pc = "load" /\ active' = active /\ leaving' = leaving /\ unmarked' = unmarked
        /\ \/ Idle(w) \/ \E pc \in {"start", "settle"}, known \in Status : Goto(w, pc, known)
           \/ Goto(w, "requeue", "none")
    <3>1. worker[w].pc = "load" /\ jobs[worker[w].token].status \in Status
      BY <1>4, HeldJob DEF LoadJob
    <3>2. QED
      BY <1>4, <3>1 DEF LoadJob, LoadFailed, asideVars
  <2>2. CASE Idle(w)
    <3>1. worker'[w].pc = "idle" /\ \A v \in Workers \ {w} : worker'[v] = worker[v]
      BY <1>1, <2>2 DEF Idle, IdleWorker
    <3>2. QED
      BY <2>1, <3>1, MarkStep DEF Owning
  <2>3. QED
    BY <2>1, <2>2, MarkGoto DEF Owning
<1>5. ASSUME NEW o \in Outcomes, RejectJob(w, o) \/ SettleSession(w, o)
      PROVE  MarkInv'
  <2>1. /\ worker[w].pc \notin Owning /\ active' = active /\ leaving' = leaving /\ unmarked' = unmarked
        /\ \E pc \in {"settle", "gate"} : \E known : Goto(w, pc, known)
    BY <1>5 DEF RejectJob, SettleSession, Owning, asideVars
  <2>2. QED
    BY <2>1, MarkGoto
<1>6. ASSUME NEW o \in Outcomes, StartJob(w, o)
      PROVE  MarkInv'
  <2> DEFINE j == worker[w].token
  <2>1. j \in Jobs /\ j \notin active /\ worker[w].pc = "start"
    BY <1>2, <1>6, HeldJob DEF StartJob
  <2>2. /\ leaving' = leaving /\ unmarked' = unmarked /\ o = "ok"
        /\ active' = IF jobs[j].status = "queued" THEN active \cup {j} ELSE active
    BY <1>6, CallOk DEF StartJob, asideVars
  <2>3. CASE jobs[j].status = "queued"
    <3>1. Goto(w, "compile", "running") /\ active' = active \cup {j}
      BY <1>6, <2>2, <2>3 DEF StartJob, TransitionErr
    <3>2. /\ worker'[w].pc = "compile" /\ worker'[w].token = j
          /\ \A v \in Workers \ {w} : worker'[v] = worker[v]
      BY <1>1, <3>1 DEF Goto, Worker
    <3>3. ActiveOwned'
      <4> SUFFICES ASSUME NEW k \in active, k # j
                   PROVE  \E v \in Workers : worker'[v].pc \in Owning /\ worker'[v].token = k
        BY <3>1, <3>2 DEF ActiveOwned, Owning
      <4>1. PICK v \in Workers : worker[v].pc \in Owning /\ worker[v].token = k
        BY DEF MarkInv, ActiveOwned
      <4>2. QED
        BY <3>2, <4>1
    <3>4. LeaversGone'
      <4> SUFFICES ASSUME NEW v \in Workers \ {w}
                   PROVE  /\ worker[v].pc = "requeue" /\ worker[v].known = "running" => Gone(worker[v].token)'
                          /\ worker[v].pc = "forget" => Gone(leaving[v])'
        BY <2>2, <3>2 DEF LeaversGone, Gone
      <4>1. \A k : Gone(k) => k \in Jobs /\ k \notin active' /\ jobs'[k].status = "deleted"
        BY <2>3, <3>1 DEF Gone, DeletedKept
      <4>2. /\ worker[v].pc = "requeue" /\ worker[v].known = "running" => Gone(worker[v].token)
            /\ worker[v].pc = "forget" => Gone(leaving[v])
        BY DEF MarkInv, LeaversGone
      <4>3. QED
        BY <2>2, <3>2, <4>1, <4>2 DEF Gone
    <3>5. QED
      BY <2>2, <3>3, <3>4 DEF MarkInv
  <2>4. CASE jobs[j].status # "queued"
    <3>1. active' = active
      BY <2>2, <2>4
    <3>2. \/ jobs[j].status = "deleted" /\ Goto(w, "requeue", "running")
          \/ Goto(w, "unwind", "running")
      BY <1>6, <2>2, <2>4 DEF StartJob, TransitionErr
    <3>3. QED
      BY <2>1, <2>2, <3>1, <3>2, MarkGoto DEF Gone, Owning
  <2>5. QED
    BY <2>3, <2>4
<1>7. ASSUME \/ SkipPublish(w) \/ \E o \in Outcomes : PublishJob(w, o)
             \/ \E out \in {"succeeded", "failed"}, o \in Outcomes : FinishJob(w, out, o)
      PROVE  MarkInv'
  <2>1. /\ active' = active /\ leaving' = leaving /\ unmarked' = unmarked
        /\ \E pc \in {"publish", "unwind"} : \E known : Goto(w, pc, known)
    BY <1>7 DEF SkipPublish, PublishJob, FinishJob, asideVars
  <2>2. QED
    BY <2>1, MarkGoto DEF Owning
<1>8. CASE Deactivate(w)
  <2>1. /\ active' = active \ {worker[w].token} /\ leaving' = leaving /\ unmarked' = unmarked
        /\ worker'[w].pc = "settle" /\ \A v \in Workers \ {w} : worker'[v] = worker[v]
    BY <1>1, <1>8 DEF Deactivate, Goto, Worker, asideVars
  <2>2. QED
    BY <2>1, MarkStep
<1>9. CASE OpenGate(w)
  <2>1. /\ active' = active /\ leaving' = leaving /\ unmarked' = unmarked /\ worker[w].pc = "gate"
        /\ worker'[w].pc = "idle" /\ \A v \in Workers \ {w} : worker'[v] = worker[v]
    BY <1>1, <1>9 DEF OpenGate, Idle, IdleWorker, asideVars
  <2>2. QED
    BY <2>1, MarkStep DEF Owning
<1>10. CASE Requeue(w)
  <2>1. /\ active' = active /\ unmarked' = unmarked /\ worker[w].pc = "requeue"
        /\ \A v \in Workers \ {w} : worker'[v] = worker[v] /\ leaving'[v] = leaving[v]
        /\ worker'[w].pc \in {"idle", "forget"}
    BY <1>1, <1>10, RequeueType DEF Requeue
  <2>2. worker'[w].pc = "forget" => worker[w].known = "running" /\ leaving'[w] = worker[w].token
    BY <1>1, <1>10 DEF Requeue, IdleWorker
  <2>3. worker'[w].pc = "forget" => Gone(leaving'[w])
    BY <2>1, <2>2 DEF MarkInv, LeaversGone
  <2>4. QED
    BY <2>1, <2>3, MarkStep DEF Owning
<1>11. CASE Forget(w)
  <2>1. Gone(leaving[w]) /\ worker[w].pc = "forget"
    BY <1>11 DEF Forget, MarkInv, LeaversGone
  <2>2. active' = active /\ unmarked' = unmarked
    BY <1>11, <2>1 DEF Forget, Gone
  <2>3. /\ worker'[w].pc = "idle"
        /\ \A v \in Workers \ {w} : worker'[v] = worker[v] /\ leaving'[v] = leaving[v]
    BY <1>1, <1>11 DEF Forget, Idle, IdleWorker
  <2>4. QED
    BY <2>1, <2>2, <2>3, MarkStep DEF Owning
<1>12. QED
  BY <1>3, <1>4, <1>5, <1>6, <1>7, <1>8, <1>9, <1>10, <1>11 DEF WorkerNext

(* MarkInv holds until the first failure. *)
LEMMA NextMarks ==
    TypeInv /\ TypeInv' /\ TokenInv /\ GateInv /\ (DatabaseUp => MarkInv) /\ [Next]_vars => (DatabaseUp => MarkInv)'
<1>1. SUFFICES ASSUME TypeInv, TypeInv', TokenInv, GateInv, DatabaseUp => MarkInv, [Next]_vars, faults' = 0
               PROVE  MarkInv'
  BY DEF DatabaseUp
<1>2. CASE UNCHANGED vars
  BY <1>1, <1>2 DEF vars, DatabaseUp, MarkInv, ActiveOwned, LeaversGone, Gone
<1>3. CASE Next
  <2>1. MarkInv /\ DeletedKept
    BY <1>1, <1>3, NextUp, NextDeleted DEF DatabaseUp
  <2>2. CASE Restart
    <3>1. active' = {} /\ unmarked' = {} /\ \A w \in Workers : worker'[w] = IdleWorker
      BY <2>2 DEF Restart
    <3>2. QED
      BY <3>1 DEF MarkInv, ActiveOwned, LeaversGone, IdleWorker
  <2>3. CASE ~Restart /\ \E w \in Workers : WorkerNext(w)
    BY <1>1, <2>1, <2>3, WorkerMarks
  <2>4. CASE ~Restart /\ (ClientNext \/ SessionNext \/ BackgroundNext \/ RecoveryNext)
    <3>1. worker' = worker /\ active' = active /\ leaving' = leaving /\ unmarked' = unmarked
      BY <2>4, OutsideMarks
    <3>2. ActiveOwned' /\ unmarked' = {}
      BY <2>1, <3>1 DEF MarkInv, ActiveOwned
    <3>3. LeaversGone'
      BY <2>1, <3>1 DEF MarkInv, LeaversGone, Gone, DeletedKept
    <3>4. QED
      BY <3>2, <3>3 DEF MarkInv
  <2>5. QED
    BY <1>3, <2>2, <2>3, <2>4 DEF Next
<1>4. QED
  BY <1>1, <1>2, <1>3

(* Nobody is active or leaving at the start. *)
LEMMA InitMarks == Init => MarkInv
BY DEF Init, MarkInv, ActiveOwned, LeaversGone, IdleWorker

-----------------------------------------------------------------------------
(* Start puts every row it can resume on the way to a worker. *)
LEMMA RestartIsUp ==
    ASSUME TypeInv, Restart, faults' = 0
    PROVE  UpInv'
<1>1. /\ \A w \in Workers : worker'[w] = IdleWorker
      /\ recovery'.pc = "idle" /\ \A j \in Jobs : completions'[j] = NoCompletion
      /\ \A s \in Sessions : sessions'[s].status # "live"
  BY DEF Restart, IdleRecovery, ClosedLease, NoLease
<1>2. ASSUME NEW j \in Jobs, jobs'[j].status = "queued", jobs'[j].session = NoSession
      PROVE  j \in recovering'
  <2>1. jobs[j] \in Job
    BY DEF TypeInv, TypeOK
  <2>2. CASE RestartListed({})
    <3>1. /\ jobs'[j] = IF j \in PendingRows THEN [jobs[j] EXCEPT !.status = RecoveredStatusAtStart(j)] ELSE jobs[j]
          /\ recovering' = {k \in PendingRows : Resumes(k)}
      BY <2>2 DEF RestartListed
    <3>2. j \in PendingRows
      BY <1>2, <3>1 DEF PendingRows, Pending
    <3>3. jobs'[j].session = jobs[j].session
      BY <2>1, <3>1 DEF Job
    <3>4. QED
      BY <1>2, <3>1, <3>2, <3>3 DEF Resumes
  <2>3. CASE ~Durable /\ RestartBlind
    <3>1. jobs'[j] = IF jobs[j].status = "none" THEN jobs[j] ELSE [jobs[j] EXCEPT !.status = "deleted"]
      BY <2>3 DEF RestartBlind
    <3>2. QED
      BY <1>2, <2>1, <3>1 DEF Job
  <2>4. QED
    BY <2>2, <2>3, RestartUp
<1>3. NoneDeferred' /\ PastBegun' /\ ClaimsWon'
  BY <1>1 DEF NoneDeferred, Deferred, NoCompletion, PastBegun, ClaimsWon, Past, Claims, Closing, IdleWorker
<1>4. QueuedIsScheduled' /\ LastSuccessDurable'
  BY <1>1, <1>2 DEF QueuedIsScheduled, Queued, Placed, LastSuccessDurable, LiveSessions
<1>5. QED
  BY <1>3, <1>4 DEF UpInv

(* Requests, sessions and the background, while no call fails. *)
LEMMA OutsideUp ==
    ASSUME TypeInv, TypeInv', TokenInv, GateInv, UpInv, Next, ~Restart, faults' = 0,
           ClientNext \/ SessionNext \/ BackgroundNext
    PROVE  UpInv'
<1> USE DEF TypeInv
<1>1. jobs \in [Jobs -> Job] /\ queue \in Seq(Jobs \cup Sessions)
  BY DEF TypeOK
<1>2. worker' = worker /\ completions' = completions /\ recovery' = recovery
  <2>1. CASE ClientNext
    BY <2>1 DEF ClientNext, Enqueue, CancelQueued, CancelRunning, CleanupProject
  <2>2. CASE SessionNext
    BY <2>2, SessionNextStill
  <2>3. CASE BackgroundNext
    BY <2>3 DEF BackgroundNext, CancelUnsent, FeedRecovered, PruneTerminal, MaintainSession
  <2>4. QED
    BY <2>1, <2>2, <2>3
<1>3. JobsUp => UpInv'
  <2>1. \A w \in Workers : WorkerUp(w)
    BY <1>2 DEF WorkerUp
  <2>2. QED
    BY <1>2, <2>1, UpStep
<1>4. queue' = queue /\ recovering' = recovering /\ unsent' = unsent /\ NoneNew(jobs, jobs') => JobsUp
  BY <1>2, StillUp DEF StillPlaced
<1>5. ASSUME NEW j \in Jobs, NEW o, DbCall(o), CancelRow(j, o)
      PROVE  NoneNew(jobs, jobs') /\ jobs'[j].status # "queued"
  <2>1. jobs' = Transition(jobs, j, "queued", "cancelled")
    BY <1>5, CallOk DEF CancelRow
  <2>2. QED
    BY <1>1, <2>1, NoneNewFacts DEF Transition, SetStatus, Job
<1>6. ASSUME NEW j \in Jobs, NEW p \in Snapshots, NEW o \in Outcomes, Enqueue(j, p, o)
      PROVE  JobsUp
  <2>1. /\ jobs' = [jobs EXCEPT ![j] = NewRow(p, NoSession, 0)] /\ recovering' = recovering
        /\ \/ Len(queue) < QueueCap /\ queue' = Append(queue, j) /\ unsent' = unsent
           \/ queue' = queue /\ unsent' = unsent \cup {j}
    BY <1>6, CallOk DEF Enqueue, UnsentAfter, asideVars
  <2>2. StillPlaced
    BY <1>2, <2>1, PlacedFacts DEF StillPlaced
  <2>3. Placed(j)'
    <3>1. In(queue', j) \/ j \in unsent'
      BY <2>1, PlacedFacts
    <3>2. QED
      BY <3>1 DEF Placed, InChannel, In
  <2>4. \A k \in Jobs \ {j} : jobs'[k] = jobs[k]
    BY <1>1, <2>1
  <2>5. QED
    BY <2>2, <2>3, <2>4, StillUp DEF JobsUp, JobUp
<1>7. CASE ClientNext
  <2>1. ASSUME NEW j \in Jobs, NEW o \in Outcomes, CancelQueued(j, o)
        PROVE  JobsUp
    BY <1>4, <1>5, <2>1 DEF CancelQueued, asideVars
  <2>2. ASSUME NEW j \in Jobs, NEW o \in Outcomes, CancelRunning(j, o)
        PROVE  JobsUp
    BY <1>1, <1>4, <2>2, NoneNewFacts DEF CancelRunning, asideVars
  <2>3. CASE CleanupProject
    <3>1. \A j \in Jobs : jobs'[j] = jobs[j] \/ jobs'[j] = [jobs[j] EXCEPT !.status = "deleted"]
      BY <2>3 DEF CleanupProject
    <3>2. NoneNew(jobs, jobs')
      BY <1>1, <3>1 DEF NoneNew, Job
    <3>3. queue' = queue /\ recovering' = recovering /\ unsent' = unsent
      BY <2>3 DEF CleanupProject, asideVars
    <3>4. QED
      BY <1>3, <1>4, <3>2, <3>3
  <2>4. QED
    BY <1>3, <1>6, <1>7, <2>1, <2>2, <2>3 DEF ClientNext
<1>8. ASSUME NEW s \in Sessions, NEW S, ScheduleSession(s, S), recovering' = recovering, unsent' = unsent
      PROVE  StillPlaced
  BY <1>2, <1>8, PlacedFacts DEF StillPlaced, ScheduleSession
<1>9. CASE SessionNext
  <2>1. ASSUME NEW s \in Sessions, CreateSession(s) \/ RenewSession(s) \/ LeaseTick(s)
        PROVE  JobsUp
    BY <1>4, <2>1 DEF CreateSession, RenewSession, LeaseTick, NoneNew, asideVars
  <2>2. ASSUME NEW s \in Sessions, NEW j \in Jobs, NEW p \in Snapshots, SubmitRevision(s, j, p)
        PROVE  JobsUp
    <3> DEFINE row == NewRevision(s, j, p)
    <3>1. StillPlaced
      BY <1>8, <2>2 DEF SubmitRevision, asideVars
    <3>2. row \in [Jobs -> Job] /\ row[j].session = s /\ \A k \in Jobs \ {j} : row[k] = jobs[k]
      <4>1. sessions[s].revision + 1 \in Nat
        BY DEF TypeOK, Session
      <4>2. NewRow(p, s, sessions[s].revision + 1) \in Job
        BY <4>1, NewRowType
      <4>3. QED
        BY <1>1, <4>2 DEF NewRevision, NewRow
    <3>3. jobs' = row \/ (sessions[s].pending \in Jobs /\ jobs' = Transition(row, sessions[s].pending, "queued", "cancelled"))
      BY <2>2, PendingType DEF SubmitRevision, Supersedes
    <3> HIDE DEF row
    <3>4. NoneNew(row, jobs') /\ RowsSame(row, jobs')
      BY <3>2, <3>3, NoneNewFacts, SameFacts, SameStill
    <3>5. jobs'[j].session # NoSession
      BY <3>2, <3>4, JobManagerAssumption DEF RowsSame, SameRow, NoSession
    <3>6. \A k \in Jobs \ {j} : jobs'[k].status = "queued" => jobs[k].status = "queued"
      BY <3>2, <3>4 DEF NoneNew
    <3>7. QED
      BY <3>1, <3>5, <3>6, StillUp DEF JobsUp, JobUp
  <2>3. ASSUME NEW s \in Sessions, NEW j \in Jobs, NEW p \in Snapshots, NEW o, NEW r,
               SubmitLost(s, j, p) \/ SubmitFailed(s, j, p, o, r)
        PROVE  FALSE
    <3>1. CASE SubmitFailed(s, j, p, o, r)
      BY <3>1 DEF SubmitFailed, TypeOK
    <3>2. CASE SubmitLost(s, j, p)
      BY <3>2, CallOk DEF SubmitLost
    <3>3. QED
      BY <2>3, <3>1, <3>2
  <2>4. ASSUME NEW s \in Sessions, CloseSession(s)
        PROVE  JobsUp
    <3>1. CancelPending(s) \in [Jobs -> Job]
      BY SessionRowsType
    <3>2. NoneNew(jobs, CancelPending(s))
      BY <1>1, NoneNewFacts, PendingType DEF CancelPending, NoneNew
    <3>3. NoneNew(CancelPending(s), CancelBoth(s))
      <4>1. StopsRunning(s) => sessions[s].running \in Jobs
        BY DEF StopsRunning, Deferred, TypeOK
      <4>2. QED
        BY <3>1, <4>1, NoneNewFacts DEF CancelBoth, NoneNew
    <3>4. NoneNew(jobs, jobs')
      BY <2>4, <3>2, <3>3 DEF CloseSession, NoneNew
    <3>5. QED
      BY <1>4, <2>4, <3>4 DEF CloseSession, asideVars
  <2>5. ASSUME NEW s \in Sessions, NEW o, ClosePendingLost(s) \/ CloseRunningFailed(s, o)
        PROVE  FALSE
    BY <2>5, CallOk DEF ClosePendingLost, CloseRunningFailed
  <2>6. QED
    BY <1>3, <1>9, <2>1, <2>2, <2>3, <2>4, <2>5 DEF SessionNext
<1>10. CASE BackgroundNext
  <2>1. ASSUME NEW j \in Jobs, NEW o \in Outcomes, CancelUnsent(j, o)
        PROVE  JobsUp
    <3>1. NoneNew(jobs, jobs') /\ jobs'[j].status # "queued" /\ queue' = queue /\ recovering' = recovering /\ unsent' = unsent \ {j}
      BY <1>5, <2>1 DEF CancelUnsent, asideVars
    <3>2. \A k \in Jobs \ {j} : Placed(k) => Placed(k)'
      BY <1>2, <3>1 DEF Placed, InChannel
    <3>3. QED
      BY <3>1, <3>2 DEF JobsUp, JobUp, NoneNew
  <2>2. ASSUME NEW j \in Jobs, FeedRecovered(j)
        PROVE  JobsUp
    <3>1. queue' = Append(queue, j) /\ jobs' = jobs /\ recovering' = recovering \ {j} /\ unsent' = unsent
      BY <2>2 DEF FeedRecovered, Fed
    <3>2. In(queue', j) /\ \A k \in Jobs : In(queue, k) => In(queue', k)
      BY <3>1, PlacedFacts
    <3>3. \A k \in Jobs : Placed(k) => Placed(k)'
      BY <1>2, <3>1, <3>2 DEF Placed, InChannel, In
    <3>4. QED
      BY <3>1, <3>3 DEF JobsUp, JobUp
  <2>3. ASSUME NEW j \in Jobs, PruneTerminal(j)
        PROVE  JobsUp
    BY <1>1, <1>4, <2>3, NoneNewFacts DEF PruneTerminal, asideVars
  <2>4. ASSUME NEW s \in Sessions, MaintainSession(s)
        PROVE  JobsUp
    BY <1>8, <2>4, StillUp DEF MaintainSession, NoneNew, asideVars
  <2>5. QED
    BY <1>3, <1>10, <2>1, <2>2, <2>3, <2>4 DEF BackgroundNext
<1>11. QED
  BY <1>7, <1>9, <1>10

(* A worker's own step, while no call fails. *)
LEMMA WorkerIsUp ==
    ASSUME TypeInv, TypeInv', TokenInv, GateInv, MarkInv, UpInv, Next, ~Restart, faults' = 0,
           NEW w \in Workers, WorkerNext(w)
    PROVE  UpInv'
<1> USE DEF TypeInv
<1>1. jobs \in [Jobs -> Job] /\ queue \in Seq(Jobs \cup Sessions) /\ worker \in [Workers -> Worker]
  BY DEF TypeOK
<1>2. ASSUME completions' = completions, recovery' = recovery, WorkerUp(w), JobsUp,
             \A v \in Workers \ {w} : worker'[v] = worker[v]
      PROVE  UpInv'
  <2>1. \A v \in Workers \ {w} : WorkerUp(v)
    BY <1>2 DEF WorkerUp
  <2>2. QED
    BY <1>2, <2>1, UpStep
<1>3. ASSUME recovering' = recovering, unsent' = unsent, NoneNew(jobs, jobs'),
             \A j \in Jobs : In(queue, j) => In(queue', j),
             \A v \in Workers \ {w} : worker'[v] = worker[v],
             \/ worker[w].token \notin Jobs \/ worker'[w].token = worker[w].token
             \/ In(queue', worker[w].token) \/ jobs'[worker[w].token].status # "queued"
      PROVE  JobsUp
  <2> SUFFICES ASSUME NEW j \in Jobs, jobs'[j].status = "queued", Placed(j)
               PROVE  Placed(j)'
    BY <1>3 DEF JobsUp, JobUp, NoneNew
  <2>1. In(queue, j) \/ j \in recovering \/ j \in unsent \/ \E v \in Workers : worker[v].token = j
    BY DEF Placed, InChannel, In
  <2>2. In(queue', j) \/ j \in recovering' \/ j \in unsent' \/ \E v \in Workers : worker'[v].token = j
    BY <1>3, <2>1
  <2>3. QED
    BY <2>2 DEF Placed, InChannel, In
<1>4. ASSUME NEW pc, NEW known, Goto(w, pc, known), worker[w].token \in Jobs,
             recovering' = recovering, unsent' = unsent, NoneNew(jobs, jobs'),
             \A j \in Jobs : In(queue, j) => In(queue', j),
             completions' = completions, recovery' = recovery,
             pc \in Past => worker[w].pc \in Past \/ Begun(jobs'[worker[w].token].status),
             pc \in Closing /\ (pc = "publish" \/ known = "succeeded")
                 => Claims(worker[w]) \/ Won(jobs'[worker[w].token].status)
      PROVE  UpInv'
  <2>1. /\ worker'[w].pc = pc /\ worker'[w].known = known /\ worker'[w].token = worker[w].token
        /\ \A v \in Workers \ {w} : worker'[v] = worker[v]
    BY <1>1, <1>4 DEF Goto, Worker
  <2>2. WorkerUp(w)
    BY <1>4, <2>1 DEF WorkerUp, Claims, Closing
  <2>3. JobsUp
    BY <1>3, <1>4, <2>1
  <2>4. QED
    BY <1>2, <1>4, <2>1, <2>2, <2>3
<1>5. CASE Receive(w)
  <2>1. /\ queue # <<>> /\ queue' = Tail(queue) /\ worker[w].token = NoJob /\ jobs' = jobs
        /\ worker'[w].token = Head(queue) /\ worker'[w].pc \notin Past /\ worker'[w].known = "none"
        /\ \A v \in Workers \ {w} : worker'[v] = worker[v]
        /\ recovering' = recovering /\ unsent' = unsent /\ completions' = completions /\ recovery' = recovery
    BY <1>1, <1>5 DEF Receive, WorkerHolds, asideVars, Past
  <2>2. WorkerUp(w)
    BY <2>1 DEF WorkerUp, Claims, Closing, Past
  <2>3. \A j \in Jobs : In(queue, j) => In(queue', j) \/ worker'[w].token = j
    <3>1. /\ DOMAIN queue = 1 .. Len(queue) /\ Len(queue) \in Nat \ {0}
          /\ DOMAIN Tail(queue) = 1 .. Len(queue) - 1
          /\ \A i \in 1 .. Len(queue) - 1 : Tail(queue)[i] = queue[i + 1]
          /\ Head(queue) = queue[1]
      BY <1>1, <2>1
    <3>2. ASSUME NEW i \in DOMAIN queue, i # 1
          PROVE  In(Tail(queue), queue[i])
      <4>1. i - 1 \in DOMAIN Tail(queue) /\ Tail(queue)[i - 1] = queue[i]
        BY <3>1, <3>2
      <4>2. QED
        BY <4>1 DEF In
    <3>3. QED
      BY <2>1, <3>1, <3>2 DEF In
  <2>4. JobsUp
    <3> SUFFICES ASSUME NEW j \in Jobs, Placed(j)
                 PROVE  Placed(j)'
      BY <2>1 DEF JobsUp, JobUp
    <3>1. In(queue, j) \/ j \in recovering \/ j \in unsent \/ \E v \in Workers \ {w} : worker[v].token = j
      BY <2>1, SessionsNotJobs DEF Placed, InChannel, In
    <3>2. In(queue', j) \/ j \in recovering' \/ j \in unsent' \/ \E v \in Workers : worker'[v].token = j
      BY <2>1, <2>3, <3>1
    <3>3. QED
      BY <3>2 DEF Placed, InChannel, In
  <2>5. QED
    BY <1>2, <2>1, <2>2, <2>4
<1>6. CASE TakeSession(w)
  <2>1. /\ queue' = queue /\ jobs' = jobs /\ worker[w].token \in Sessions /\ worker'[w].pc \notin Past
        /\ \A v \in Workers \ {w} : worker'[v] = worker[v]
        /\ recovering' = recovering /\ unsent' = unsent /\ completions' = completions /\ recovery' = recovery
    BY <1>1, <1>6 DEF TakeSession, WorkerHolds, asideVars, Past, IdleWorker
  <2>2. WorkerUp(w)
    BY <2>1 DEF WorkerUp, Claims, Closing, Past
  <2>3. JobsUp
    BY <1>3, <2>1, SessionsNotJobs DEF NoneNew
  <2>4. QED
    BY <1>2, <2>1, <2>2, <2>3
<1>7. ASSUME Idle(w), worker[w].token \in Jobs, jobs' = jobs, recovering' = recovering, unsent' = unsent,
             \A j \in Jobs : In(queue, j) => In(queue', j), completions' = completions, recovery' = recovery,
             In(queue', worker[w].token) \/ jobs[worker[w].token].status # "queued"
      PROVE  UpInv'
  <2>1. worker'[w] = IdleWorker /\ \A v \in Workers \ {w} : worker'[v] = worker[v]
    BY <1>1, <1>7 DEF Idle
  <2>2. WorkerUp(w)
    BY <2>1 DEF WorkerUp, Claims, Closing, Past, IdleWorker
  <2>3. JobsUp
    BY <1>3, <1>7, <2>1 DEF NoneNew
  <2>4. QED
    BY <1>2, <1>7, <2>1, <2>2, <2>3
<1>8. ASSUME NEW o \in Outcomes, LoadJob(w, o)
      PROVE  UpInv'
  <2> DEFINE st == jobs[worker[w].token].status
  <2>1. /\ worker[w].pc = "load" /\ worker[w].token \in Jobs /\ jobs' = jobs /\ queue' = queue
        /\ recovering' = recovering /\ unsent' = unsent /\ completions' = completions /\ recovery' = recovery
        /\ \/ st = "deleted" /\ Idle(w)
           \/ Goto(w, "requeue", "none") \/ Goto(w, "start", st)
           \/ st \notin {"queued", "deleted"} /\ Goto(w, "settle", st)
    BY <1>8, CallOk, HeldJob DEF LoadJob, LoadFailed, asideVars
  <2>2. st # "none"
    BY <2>1 DEF TokenInv, UnbornUnplaced, Placed
  <2>3. NoneNew(jobs, jobs')
    BY <2>1 DEF NoneNew
  <2>4. CASE st = "deleted" /\ Idle(w)
    BY <1>7, <2>1, <2>4
  <2>5. CASE Goto(w, "requeue", "none") \/ Goto(w, "start", st)
    BY <1>4, <2>1, <2>3, <2>5 DEF Past, Closing
  <2>6. CASE st \notin {"queued", "deleted"} /\ Goto(w, "settle", st)
    BY <1>4, <2>1, <2>2, <2>3, <2>6 DEF Begun, Won
  <2>7. QED
    BY <2>1, <2>4, <2>5, <2>6

<1>9. ASSUME NEW o \in Outcomes, RejectJob(w, o)
      PROVE  UpInv'
  <2>1. /\ worker[w].pc = "start" /\ worker[w].token \in Jobs /\ queue' = queue
        /\ jobs' = Transition(jobs, worker[w].token, "queued", "cancelled") /\ Goto(w, "settle", "queued")
        /\ recovering' = recovering /\ unsent' = unsent /\ completions' = completions /\ recovery' = recovery
    BY <1>9, CallOk, HeldJob DEF RejectJob, CancelRow, asideVars
  <2>2. jobs[worker[w].token].status # "none"
    BY <2>1 DEF TokenInv, UnbornUnplaced, Placed
  <2>3. NoneNew(jobs, jobs') /\ Begun(jobs'[worker[w].token].status)
    BY <1>1, <2>1, <2>2, NoneNewFacts DEF Transition, SetStatus, Job, Begun
  <2>4. QED
    BY <1>4, <2>1, <2>3
<1>10. ASSUME NEW o \in Outcomes, StartJob(w, o)
       PROVE  UpInv'
  <2>1. /\ worker[w].pc = "start" /\ worker[w].token \in Jobs /\ queue' = queue
        /\ jobs' = Transition(jobs, worker[w].token, "queued", "running")
        /\ \E pc \in {"requeue", "compile", "unwind"} : Goto(w, pc, "running")
        /\ recovering' = recovering /\ unsent' = unsent /\ completions' = completions /\ recovery' = recovery
    BY <1>10, CallOk, HeldJob DEF StartJob, asideVars
  <2>2. jobs[worker[w].token].status # "none"
    BY <2>1 DEF TokenInv, UnbornUnplaced, Placed
  <2>3. NoneNew(jobs, jobs') /\ Begun(jobs'[worker[w].token].status)
    BY <1>1, <2>1, <2>2, NoneNewFacts DEF Transition, SetStatus, Job, Begun
  <2>4. QED
    BY <1>4, <2>1, <2>3 DEF Closing
<1>11. ASSUME NEW out \in {"succeeded", "failed"}, NEW o \in Outcomes, FinishJob(w, out, o)
       PROVE  UpInv'
  <2> DEFINE final == FinishedStatus(worker[w].token, out)
  <2>0. o = "ok" /\ jobs[worker[w].token].status # "deleted"
    BY <1>11, CallOk DEF FinishJob, MarkInv, GateInv, AttemptGated, Attempts, RowKept, Terminal
  <2>1. /\ worker[w].pc = "compile" /\ worker[w].token \in Jobs /\ queue' = queue
        /\ jobs' = Transition(jobs, worker[w].token, "running", out)
        /\ Goto(w, IF final = "succeeded" THEN "publish" ELSE "unwind", final)
        /\ recovering' = recovering /\ unsent' = unsent /\ completions' = completions /\ recovery' = recovery
    BY <1>11, <2>0, HeldJob DEF FinishJob, asideVars
  <2>2. NoneNew(jobs, jobs')
    BY <1>1, <2>1, NoneNewFacts
  <2>3. jobs'[worker[w].token].status = final
    BY <1>1, <2>1 DEF Transition, SetStatus, Job, FinishedStatus
  <2> HIDE DEF final
  <2>4. final = "succeeded" => Won(jobs'[worker[w].token].status)
    BY <2>3 DEF Won
  <2>5. worker[w].pc \in Past
    BY <2>1 DEF Past
  <2>6. QED
    BY <1>4, <2>1, <2>2, <2>4, <2>5
<1>12. ASSUME Goto(w, "unwind", "succeeded"), worker[w].pc = "publish", NoneNew(jobs, jobs'), queue' = queue,
              recovering' = recovering, unsent' = unsent, completions' = completions, recovery' = recovery
       PROVE  UpInv'
  BY <1>4, <1>12, HeldJob DEF Past, Claims
<1>13. ASSUME NEW o \in Outcomes, PublishJob(w, o)
       PROVE  UpInv'
  <2>0. o = "ok" /\ jobs[worker[w].token].status # "deleted"
    BY <1>13, CallOk DEF PublishJob, MarkInv, GateInv, AttemptGated, Attempts, RowKept, Terminal
  <2>1. /\ jobs' = Account(jobs, worker[w].token) /\ worker[w].token \in Jobs
        /\ Goto(w, "unwind", "succeeded") /\ worker[w].pc = "publish" /\ queue' = queue
        /\ recovering' = recovering /\ unsent' = unsent /\ completions' = completions /\ recovery' = recovery
    BY <1>13, <2>0, HeldJob DEF PublishJob, TransitionErr, asideVars
  <2>2. QED
    BY <1>1, <1>12, <2>1, NoneNewFacts
<1>14. CASE SkipPublish(w)
  BY <1>12, <1>14 DEF SkipPublish, NoneNew, asideVars
<1>15. CASE Deactivate(w)
  <2>1. /\ worker[w].pc = "unwind" /\ worker[w].token \in Jobs /\ jobs' = jobs /\ queue' = queue
        /\ Goto(w, "settle", worker[w].known)
        /\ recovering' = recovering /\ unsent' = unsent /\ completions' = completions /\ recovery' = recovery
    BY <1>15, HeldJob DEF Deactivate, asideVars
  <2>2. NoneNew(jobs, jobs')
    BY <2>1 DEF NoneNew
  <2>3. worker[w].pc \in Past /\ (worker[w].known = "succeeded" => Claims(worker[w]))
    BY <2>1 DEF Past, Claims, Closing
  <2>4. QED
    BY <1>4, <2>1, <2>2, <2>3
<1>16. ASSUME NEW o \in Outcomes, SettleSession(w, o)
       PROVE  UpInv'
  <2>1. /\ worker[w].pc = "settle" /\ worker[w].token \in Jobs /\ jobs' = jobs
        /\ queue' = queue \/ FinishSession(worker[w].token, worker[w].known)
        /\ Goto(w, "gate", worker[w].known)
        /\ recovering' = recovering /\ unsent' = unsent /\ completions' = completions /\ recovery' = recovery
    BY <1>16, HeldJob DEF SettleSession, asideVars
  <2>2. \A j \in Jobs : In(queue, j) => In(queue', j)
    <3>1. queue' = queue \/ (OwnsSlot(worker[w].token) /\ queue' = Append(queue, jobs[worker[w].token].session))
      BY <2>1 DEF FinishSession, ScheduleSession
    <3>2. QED
      BY <3>1, PlacedFacts DEF OwnsSlot, LiveSessions
  <2>3. NoneNew(jobs, jobs') /\ worker[w].pc \in Past
    BY <2>1 DEF NoneNew, Past
  <2>4. QED
    BY <1>4, <2>1, <2>2, <2>3 DEF Closing
<1>17. CASE OpenGate(w)
  <2>1. /\ worker[w].pc = "gate" /\ worker[w].token \in Jobs /\ jobs' = jobs /\ queue' = queue /\ Idle(w)
        /\ recovering' = recovering /\ unsent' = unsent /\ completions' = completions /\ recovery' = recovery
    BY <1>17, HeldJob DEF OpenGate, asideVars
  <2>2. jobs[worker[w].token].status # "queued"
    BY <2>1 DEF UpInv, PastBegun, Past, Begun
  <2>3. QED
    BY <1>7, <2>1, <2>2
<1>18. CASE Requeue(w)
  <2>1. /\ worker[w].token \in Jobs /\ jobs' = jobs /\ queue' = Append(queue, worker[w].token)
        /\ recovering' = recovering /\ unsent' = unsent /\ completions' = completions /\ recovery' = recovery
    BY <1>18, HeldJob DEF Requeue
  <2>2. In(queue', worker[w].token) /\ \A j \in Jobs : In(queue, j) => In(queue', j)
    BY <2>1, PlacedFacts
  <2>3. worker'[w].pc \in {"idle", "forget"} /\ \A v \in Workers \ {w} : worker'[v] = worker[v]
    BY <1>18, RequeueType
  <2>4. WorkerUp(w)
    BY <2>3 DEF WorkerUp, Claims, Closing, Past
  <2>5. JobsUp
    BY <1>3, <2>1, <2>2, <2>3 DEF NoneNew
  <2>6. QED
    BY <1>2, <2>1, <2>3, <2>4, <2>5
<1>19. CASE Forget(w)
  <2>1. /\ worker[w].token = NoJob /\ jobs' = jobs /\ queue' = queue
        /\ recovering' = recovering /\ unsent' = unsent /\ completions' = completions /\ recovery' = recovery
    BY <1>19 DEF Forget, WorkerHolds
  <2>2. worker'[w].pc = "idle" /\ \A v \in Workers \ {w} : worker'[v] = worker[v]
    BY <1>1, <1>19 DEF Forget, Idle, IdleWorker
  <2>3. WorkerUp(w)
    BY <2>2 DEF WorkerUp, Claims, Closing, Past
  <2>4. JobsUp
    BY <1>3, <2>1, <2>2, SessionsNotJobs DEF NoneNew
  <2>5. QED
    BY <1>2, <2>1, <2>2, <2>3, <2>4
<1>20. QED
  BY <1>5, <1>6, <1>8, <1>9, <1>10, <1>11, <1>13, <1>14, <1>15, <1>16, <1>17, <1>18, <1>19 DEF WorkerNext

(* UpInv holds until the first failure. *)
LEMMA NextIsUp ==
    TypeInv /\ TypeInv' /\ TokenInv /\ GateInv /\ (DatabaseUp => MarkInv) /\ (DatabaseUp => UpInv) /\ [Next]_vars
    => (DatabaseUp => UpInv)'
<1>1. SUFFICES ASSUME TypeInv, TypeInv', TokenInv, GateInv, DatabaseUp => MarkInv, DatabaseUp => UpInv,
                      [Next]_vars, faults' = 0
               PROVE  UpInv'
  BY DEF DatabaseUp
<1>2. CASE UNCHANGED vars
  BY <1>1, <1>2
     DEF vars, DatabaseUp, UpInv, NoneDeferred, PastBegun, ClaimsWon, QueuedIsScheduled, LastSuccessDurable,
         Deferred, Queued, Placed, InChannel, LiveSessions
<1>3. CASE Next
  <2>1. UpInv /\ MarkInv
    BY <1>1, <1>3, NextUp DEF DatabaseUp
  <2>2. ~RecoveryNext
    BY <2>1 DEF UpInv, NoneDeferred, RecoveryNext, RetryCompletion, RetryLost, RecoverSession, RecoverGate
  <2>3. CASE Restart
    BY <1>1, <2>3, RestartIsUp
  <2>4. CASE ~Restart
    BY <1>1, <1>3, <2>1, <2>2, <2>4, OutsideUp, WorkerIsUp DEF Next
  <2>5. QED
    BY <2>3, <2>4
<1>4. QED
  BY <1>1, <1>2, <1>3

(* Nothing is queued at the start. *)
LEMMA InitIsUp == Init => UpInv
BY DEF Init, UpInv, NoneDeferred, Deferred, NoCompletion, IdleRecovery, PastBegun, ClaimsWon, Claims, Past,
       Closing, IdleWorker, QueuedIsScheduled, Queued, NoRow, LastSuccessDurable, LiveSessions, NoLease

(* Until a database call fails, every queued job outside the sessions is on *)
(* its way to a worker, or about to be cancelled by its Enqueue: no cancel, *)
(* requeue, full channel or clean restart strands one.                      *)
THEOREM QueuedIsScheduledWhileUp == Spec => [](DatabaseUp => QueuedIsScheduled)
<1>1. UpInv => QueuedIsScheduled
  BY DEF UpInv
<1>2. QED
  BY InitType, NextType, InitTokens, NextTokens, InitGates, NextGates, InitMarks, NextMarks,
     InitIsUp, NextIsUp, <1>1, PTL DEF Spec

(* Until a database call fails, the last successful job a session names has *)
(* a durable row that says succeeded: finishSession never reports a success *)
(* that a cancellation overtook.                                            *)
THEOREM LastSuccessDurableWhileUp == Spec => [](DatabaseUp => LastSuccessDurable)
<1>1. UpInv => LastSuccessDurable
  BY DEF UpInv
<1>2. QED
  BY InitType, NextType, InitTokens, NextTokens, InitGates, NextGates, InitMarks, NextMarks,
     InitIsUp, NextIsUp, <1>1, PTL DEF Spec

-----------------------------------------------------------------------------
(***************************************************************************)
(* The source pins: the proof of PinExact for a database whose failed      *)
(* calls have no effect.  (A lost answer leaks a pin: the handlers roll    *)
(* their pin back although the row was written.)                           *)
(*                                                                         *)
(* PinExact needs to know that a running row always has an owner, a worker *)
(* that compiles it or a deferred completion: a row cancelled while it     *)
(* runs keeps its pin until that owner gives it back.                      *)
(***************************************************************************)
Compiles(j) == \E w \in Workers : worker[w].pc = "compile" /\ worker[w].token = j
RunningOwned == \A j \in Jobs : jobs[j].status = "running" => completions[j].from = "running" \/ Compiles(j)

Holders(p) == {j \in Jobs : HoldsPin(j) /\ jobs[j].snapshot = p}
Owners(p) == {s \in LiveSessions : sessions[s].snapshot = p}
PinInv == RunningOwned /\ IsFiniteSet(LiveSessions) /\ PinExact

(* A failed call has no effect, and Start reads every row. *)
CleanFailures == FaultKinds \subseteq {"fail"}

-----------------------------------------------------------------------------
(* Counting. *)

One(b) == IF b THEN 1 ELSE 0

(* Two sets that differ in one element at most. *)
LEMMA ChangeOne ==
    ASSUME NEW S, NEW T, NEW x, IsFiniteSet(S), \A y : y # x => (y \in T <=> y \in S)
    PROVE  /\ IsFiniteSet(T) /\ Cardinality(S) \in Nat /\ Cardinality(T) \in Nat
           /\ Cardinality(T) + One(x \in S) = Cardinality(S) + One(x \in T)
           /\ One(x \in S) <= Cardinality(S)
<1> DEFINE M == S \ {x}
<1>1. IsFiniteSet(M) /\ Cardinality(M) \in Nat /\ x \notin M
  BY FS_RemoveElement, FS_CardinalityType
<1>2. (x \in S => S = M \cup {x}) /\ (x \notin S => S = M) /\ (x \in T => T = M \cup {x}) /\ (x \notin T => T = M)
  OBVIOUS
<1>3. IsFiniteSet(M \cup {x}) /\ Cardinality(M \cup {x}) = Cardinality(M) + 1
  BY <1>1, FS_AddElement
<1> HIDE DEF M
<1>4. Cardinality(S) = Cardinality(M) + One(x \in S)
  BY <1>1, <1>2, <1>3 DEF One
<1>5. Cardinality(T) = Cardinality(M) + One(x \in T) /\ IsFiniteSet(T)
  <2>1. CASE x \in T
    BY <1>2, <1>3, <2>1 DEF One
  <2>2. CASE x \notin T
    BY <1>1, <1>2, <2>2 DEF One
  <2>3. QED
    BY <2>1, <2>2
<1>6. One(x \in S) \in Nat /\ One(x \in T) \in Nat
  BY DEF One
<1>7. QED
  BY <1>1, <1>4, <1>5, <1>6

(* Taking and giving back one pin. *)
LEMMA PinCount ==
    ASSUME NEW P \in [Snapshots -> Nat], NEW q, NEW p \in Snapshots
    PROVE  /\ Pin(P, q)[p] = P[p] + One(p = q)
           /\ One(p = q) <= P[p] => Release(P, q)[p] = P[p] - One(p = q)
<1>1. P[p] \in Nat
  OBVIOUS
<1>2. CASE p = q
  BY <1>1, <1>2 DEF Pin, Release, One
<1>3. CASE p # q
  BY <1>1, <1>3 DEF Pin, Release, One
<1>4. QED
  BY <1>2, <1>3

-----------------------------------------------------------------------------
(* Who holds a pin. *)

(* Rows that leave the queue unstarted, and rows that enter it. *)
Dropped(j) == jobs[j].status = "queued" /\ jobs'[j].status = "cancelled"
Entered(j) == jobs[j].status = "none" /\ jobs'[j].status = "queued"

(* No attempt starts, ends or is wound up. *)
Steady ==
    \A j \in Jobs : /\ completions'[j].from = "running" <=> completions[j].from = "running"
                    /\ Compiles(j)' <=> Compiles(j)
NoStart == \A j \in Jobs : jobs'[j].status = "running" => jobs[j].status = "running"

(* A job without a row has no pin; a queued one has, and is neither        *)
(* compiled nor deferred.                                                  *)
LEMMA HoldsFacts ==
    ASSUME TypeInv, TokenInv, GateInv, NEW j \in Jobs
    PROVE  /\ jobs[j].status = "none" => ~HoldsPin(j)
           /\ jobs[j].status = "queued" => HoldsPin(j) /\ completions[j].from # "running" /\ ~Compiles(j)
<1>1. jobs[j].status \in {"none", "queued"} => j \notin Deferred /\ ~Compiles(j)
  BY DEF GateInv, DeferredGated, AttemptGated, RowKept, Attempts, Compiles, Terminal
<1>2. QED
  BY <1>1 DEF HoldsPin, Deferred, Pending, Compiles

(* A step in which no attempt starts or ends: only dropped rows lose their  *)
(* pin and only entered rows get one.                                       *)
LEMMA HoldsMove ==
    ASSUME TypeInv, TypeInv', TokenInv, GateInv, RunningOwned, Next, ~Restart, Steady, NEW j \in Jobs
    PROVE  /\ Dropped(j) => HoldsPin(j) /\ ~HoldsPin(j)'
           /\ Entered(j) => ~HoldsPin(j) /\ HoldsPin(j)'
           /\ ~Dropped(j) /\ ~Entered(j) => (HoldsPin(j)' <=> HoldsPin(j))
<1>1. jobs[j].status \in Status /\ jobs'[j].status \in Lifecycle!Moves(jobs[j].status)
  BY StepGates DEF GatesObeyed, TypeInv, TypeOK, Job
<1>2. (completions'[j].from = "running" <=> completions[j].from = "running") /\ (Compiles(j)' <=> Compiles(j))
  BY DEF Steady
<1>3. /\ HoldsPin(j) <=> jobs[j].status \in Pending \/ completions[j].from = "running" \/ Compiles(j)
      /\ HoldsPin(j)' <=> jobs'[j].status \in Pending \/ completions[j].from = "running" \/ Compiles(j)
  BY <1>2 DEF HoldsPin, Compiles
<1>4. jobs[j].status = "running" => HoldsPin(j) /\ HoldsPin(j)'
  BY <1>3 DEF RunningOwned, Pending
<1>5. CASE jobs[j].status = "none"
  BY <1>1, <1>3, <1>5, HoldsFacts DEF Lifecycle!Moves, Dropped, Entered, Pending
<1>6. CASE jobs[j].status = "queued"
  <2>1. jobs'[j].status \in {"queued", "running", "cancelled"}
    BY <1>1, <1>6 DEF Lifecycle!Moves, Lifecycle!Final
  <2>2. HoldsPin(j) /\ completions[j].from # "running" /\ ~Compiles(j)
    BY <1>6, HoldsFacts
  <2>3. HoldsPin(j)' <=> jobs'[j].status \in Pending
    BY <1>3, <2>2
  <2>4. QED
    BY <1>6, <2>1, <2>2, <2>3 DEF Dropped, Entered, Pending
<1>7. CASE jobs[j].status = "running"
  BY <1>4, <1>7 DEF Dropped, Entered
<1>8. CASE jobs[j].status \in Terminal \cup {"deleted"}
  BY <1>1, <1>3, <1>8 DEF Lifecycle!Moves, Lifecycle!Final, Dropped, Entered, Pending, Terminal
<1>9. QED
  BY <1>1, <1>5, <1>6, <1>7, <1>8 DEF Status, Pending

(* A job enters or leaves the holders of a snapshot exactly when its       *)
(* status says so.                                                         *)
LEMMA HoldersMove ==
    ASSUME TypeInv, TypeInv', TokenInv, GateInv, RunningOwned, Next, ~Restart, Steady, NEW j \in Jobs, NEW p
    PROVE  /\ Dropped(j) => j \notin Holders(p)' /\ (j \in Holders(p) <=> p = jobs[j].snapshot)
           /\ Entered(j) => j \notin Holders(p) /\ (j \in Holders(p)' <=> p = jobs'[j].snapshot)
           /\ ~Dropped(j) /\ ~Entered(j) => (j \in Holders(p)' <=> j \in Holders(p))
<1>1. SameRow(jobs'[j], jobs[j]) \/ jobs[j].status = "none"
  BY NextNamed DEF RowsNamed
<1>2. jobs[j].status = "none" => ~HoldsPin(j)
  BY HoldsFacts
<1>3. QED
  BY <1>1, <1>2, HoldsMove DEF Holders, SameRow

(* At most one row is dropped or entered. *)
LEMMA HoldersCount ==
    ASSUME TypeInv, TypeInv', TokenInv, GateInv, RunningOwned, Next, ~Restart, Steady,
           NEW x \in Jobs, \A k \in Jobs \ {x} : ~Dropped(k) /\ ~Entered(k), NEW p
    PROVE  /\ Cardinality(Holders(p)) \in Nat /\ Cardinality(Holders(p)') \in Nat
           /\ One(Dropped(x) /\ p = jobs[x].snapshot) <= Cardinality(Holders(p))
           /\ Cardinality(Holders(p)') = Cardinality(Holders(p)) - One(Dropped(x) /\ p = jobs[x].snapshot)
                                         + One(Entered(x) /\ p = jobs'[x].snapshot)
<1> DEFINE S == Holders(p)
           T == Holders(p)'
           out == Dropped(x) /\ p = jobs[x].snapshot
           in == Entered(x) /\ p = jobs'[x].snapshot
<1>1. S \in SUBSET Jobs /\ T \in SUBSET Jobs
  BY DEF Holders
<1>2. \A k \in Jobs \ {x} : k \in T <=> k \in S
  BY HoldersMove
<1>3. /\ Dropped(x) => x \notin T /\ (x \in S <=> p = jobs[x].snapshot)
      /\ Entered(x) => x \notin S /\ (x \in T <=> p = jobs'[x].snapshot)
      /\ ~Dropped(x) /\ ~Entered(x) => (x \in T <=> x \in S)
      /\ ~(Dropped(x) /\ Entered(x))
  BY HoldersMove DEF Dropped, Entered
<1> HIDE DEF S, T
<1>4. IsFiniteSet(S) /\ \A y : y # x => (y \in T <=> y \in S)
  BY <1>1, <1>2, JobSets
<1>5. /\ Cardinality(S) \in Nat /\ Cardinality(T) \in Nat
      /\ Cardinality(T) + One(x \in S) = Cardinality(S) + One(x \in T) /\ One(x \in S) <= Cardinality(S)
  BY <1>4, ChangeOne
<1>6. CASE Dropped(x)
  <2>1. One(x \in T) = 0 /\ One(in) = 0 /\ One(out) = One(x \in S)
    BY <1>3, <1>6 DEF One
  <2>2. One(x \in S) \in Nat
    BY DEF One
  <2>3. QED
    BY <1>5, <2>1, <2>2 DEF S, T
<1>7. CASE Entered(x)
  <2>1. One(x \in S) = 0 /\ One(out) = 0 /\ One(in) = One(x \in T)
    BY <1>3, <1>7 DEF One
  <2>2. One(x \in T) \in Nat
    BY DEF One
  <2>3. QED
    BY <1>5, <2>1, <2>2 DEF S, T
<1>8. CASE ~Dropped(x) /\ ~Entered(x)
  <2>1. One(in) = 0 /\ One(out) = 0 /\ One(x \in S) = One(x \in T)
    BY <1>3, <1>8 DEF One
  <2>2. One(x \in T) \in Nat
    BY DEF One
  <2>3. QED
    BY <1>5, <2>1, <2>2 DEF S, T
<1>9. QED
  BY <1>6, <1>7, <1>8

(* Running jobs keep the worker or the deferred completion that owes their *)
(* pin.                                                                    *)
LEMMA OwnedStill ==
    ASSUME RunningOwned, Steady, NoStart
    PROVE  RunningOwned'
BY DEF RunningOwned, Steady, NoStart

(* The steps in which no session gives or takes a pin. *)
OwnersStill == IsFiniteSet(LiveSessions)' /\ \A p \in Snapshots : Owners(p)' = Owners(p)
(* The owners of a snapshot can be counted. *)
LEMMA OwnerTypes ==
    ASSUME IsFiniteSet(LiveSessions), NEW p
    PROVE  IsFiniteSet(Owners(p)) /\ Cardinality(Owners(p)) \in Nat
<1>1. Owners(p) \subseteq LiveSessions
  BY DEF Owners
<1>2. QED
  BY <1>1, FS_Subset, FS_CardinalityType

(* A step that moves at most one job in or out of the holders, with the    *)
(* matching pin.                                                           *)
LEMMA PinQuiet ==
    ASSUME TypeInv, TypeInv', TokenInv, GateInv, PinInv, Next, ~Restart, Steady, NoStart, OwnersStill,
           \/ pins' = pins /\ \A j \in Jobs : ~Dropped(j) /\ ~Entered(j)
           \/ \E x \in Jobs :
                /\ \A k \in Jobs \ {x} : ~Dropped(k) /\ ~Entered(k)
                /\ Dropped(x) => pins' = Release(pins, jobs[x].snapshot)
                /\ Entered(x) => pins' = Pin(pins, jobs'[x].snapshot)
                /\ ~Dropped(x) /\ ~Entered(x) => pins' = pins
    PROVE  PinInv'
<1>1. RunningOwned'
  BY OwnedStill DEF PinInv
<1>2. SUFFICES ASSUME NEW p \in Snapshots
               PROVE  pins'[p] = Cardinality(Holders(p)') + Cardinality(Owners(p)')
  BY <1>1 DEF PinInv, PinExact, OwnersStill, Holders, Owners
<1>3. /\ pins \in [Snapshots -> Nat] /\ pins[p] = Cardinality(Holders(p)) + Cardinality(Owners(p))
      /\ Cardinality(Owners(p)) \in Nat /\ Owners(p)' = Owners(p)
  BY OwnerTypes DEF PinInv, PinExact, Holders, Owners, TypeInv, TypeOK, OwnersStill
<1>4. CASE pins' = pins /\ \A j \in Jobs : ~Dropped(j) /\ ~Entered(j)
  <2>1. Holders(p)' = Holders(p)
    <3>1. Holders(p) \subseteq Jobs /\ Holders(p)' \subseteq Jobs
      BY DEF Holders
    <3>2. \A j \in Jobs : j \in Holders(p)' <=> j \in Holders(p)
      BY <1>4, HoldersMove DEF PinInv
    <3>3. QED
      BY <3>1, <3>2
  <2>2. QED
    BY <1>3, <1>4, <2>1
<1>5. ASSUME NEW x \in Jobs, \A k \in Jobs \ {x} : ~Dropped(k) /\ ~Entered(k),
             Dropped(x) => pins' = Release(pins, jobs[x].snapshot),
             Entered(x) => pins' = Pin(pins, jobs'[x].snapshot),
             ~Dropped(x) /\ ~Entered(x) => pins' = pins
      PROVE  pins'[p] = Cardinality(Holders(p)') + Cardinality(Owners(p)')
  <2> DEFINE out == One(Dropped(x) /\ p = jobs[x].snapshot)
             in == One(Entered(x) /\ p = jobs'[x].snapshot)
  <2>1. /\ Cardinality(Holders(p)) \in Nat /\ out <= Cardinality(Holders(p))
        /\ Cardinality(Holders(p)') = Cardinality(Holders(p)) - out + in
    BY <1>5, HoldersCount DEF PinInv
  <2>2. out \in Nat /\ in \in Nat
    BY DEF One
  <2>3. pins'[p] = pins[p] - out + in
    <3>1. CASE Dropped(x)
      <4>1. out = One(p = jobs[x].snapshot) /\ in = 0
        BY <3>1 DEF Dropped, Entered, One
      <4>2. out <= pins[p]
        BY <1>3, <2>1, <2>2
      <4> HIDE DEF out, in
      <4>3. Release(pins, jobs[x].snapshot)[p] = pins[p] - out
        BY <1>3, <4>1, <4>2, PinCount
      <4>4. QED
        BY <1>3, <1>5, <2>2, <3>1, <4>1, <4>3
    <3>2. CASE Entered(x)
      <4>1. in = One(p = jobs'[x].snapshot) /\ out = 0
        BY <3>2 DEF Dropped, Entered, One
      <4> HIDE DEF out, in
      <4>2. Pin(pins, jobs'[x].snapshot)[p] = pins[p] + in
        BY <1>3, <4>1, PinCount
      <4>3. QED
        BY <1>3, <1>5, <2>2, <3>2, <4>1, <4>2
    <3>3. CASE ~Dropped(x) /\ ~Entered(x)
      <4>1. in = 0 /\ out = 0
        BY <3>3 DEF One
      <4> HIDE DEF out, in
      <4>2. QED
        BY <1>3, <1>5, <3>3, <4>1
    <3>4. QED
      BY <3>1, <3>2, <3>3
  <2> HIDE DEF out, in
  <2>4. QED
    BY <1>3, <2>1, <2>2, <2>3
<1>6. QED
  BY <1>4, <1>5

-----------------------------------------------------------------------------
(* The facts PinQuiet asks for. *)

(* A call of the database that fails has no effect. *)
LEMMA CallClean ==
    ASSUME CleanFailures, NEW o, DbCall(o)
    PROVE  o \in {"ok", "fail"}
BY DEF CleanFailures, DbCall

RowsStill == NoStart /\ \A j \in Jobs : ~Dropped(j) /\ ~Entered(j)
(* Which rows a status change moves in or out of the holders. *)
LEMMA RowsQuiet ==
    ASSUME TypeInv, NEW j \in Jobs
    PROVE  /\ jobs' = jobs => RowsStill
           /\ \A to \in Terminal : jobs' = Transition(jobs, j, "running", to) => RowsStill
           /\ jobs' = Account(jobs, j) => RowsStill
           /\ jobs' = SetStatus(jobs, j, "deleted") => RowsStill
           /\ jobs' = Transition(jobs, j, "queued", "cancelled")
                 => /\ NoStart /\ (\A k \in Jobs \ {j} : ~Dropped(k)) /\ (\A k \in Jobs : ~Entered(k))
                    /\ Dropped(j) <=> jobs[j].status = "queued"
<1>1. jobs \in [Jobs -> Job]
  BY DEF TypeInv, TypeOK
<1>2. jobs' = jobs => RowsStill
  BY DEF RowsStill, NoStart, Dropped, Entered
<1>3. \A to : to \in Terminal /\ jobs' = Transition(jobs, j, "running", to) => RowsStill
  BY <1>1 DEF RowsStill, NoStart, Dropped, Entered, Transition, SetStatus, Job, Terminal
<1>4. jobs' = Account(jobs, j) => RowsStill
  BY <1>1 DEF RowsStill, NoStart, Dropped, Entered, Account, Job
<1>5. jobs' = SetStatus(jobs, j, "deleted") => RowsStill
  BY <1>1 DEF RowsStill, NoStart, Dropped, Entered, SetStatus, Job
<1>6. jobs' = Transition(jobs, j, "queued", "cancelled")
         => /\ NoStart /\ (\A k \in Jobs \ {j} : ~Dropped(k)) /\ (\A k \in Jobs : ~Entered(k))
            /\ Dropped(j) <=> jobs[j].status = "queued"
  BY <1>1 DEF NoStart, Dropped, Entered, Transition, SetStatus, Job
<1>7. QED
  BY <1>2, <1>3, <1>4, <1>5, <1>6

(* Which steps of a worker leave the compiling jobs alone. *)
LEMMA SteadyStill ==
    ASSUME TypeInv, \A j \in Jobs : completions'[j].from = "running" <=> completions[j].from = "running"
    PROVE  /\ worker' = worker => Steady
           /\ \A w \in Workers : /\ \A v \in Workers \ {w} : worker'[v] = worker[v]
                                 /\ worker[w].pc # "compile" /\ worker'[w].pc # "compile"
                                 => Steady
           /\ \A w \in Workers : \A pc, known : /\ Goto(w, pc, known) /\ worker[w].pc # "compile" /\ pc # "compile"
                                                => Steady
           /\ \A w \in Workers : Idle(w) /\ worker[w].pc # "compile" => Steady
<1>1. worker' = worker => Steady
  BY DEF Steady, Compiles
<1>2. ASSUME NEW w \in Workers, \A v \in Workers \ {w} : worker'[v] = worker[v],
             worker[w].pc # "compile", worker'[w].pc # "compile"
      PROVE  Steady
  <2>1. \A j \in Jobs : Compiles(j)' <=> Compiles(j)
    BY <1>2 DEF Compiles
  <2>2. QED
    BY <2>1 DEF Steady
<1>3. ASSUME NEW w \in Workers, NEW pc, NEW known, Goto(w, pc, known), worker[w].pc # "compile", pc # "compile"
      PROVE  Steady
  BY <1>2, <1>3, GotoWorkers
<1>4. ASSUME NEW w \in Workers, Idle(w), worker[w].pc # "compile"
      PROVE  Steady
  <2>1. worker'[w] = IdleWorker /\ \A v \in Workers \ {w} : worker'[v] = worker[v]
    BY <1>4 DEF Idle, TypeInv, TypeOK
  <2>2. QED
    BY <1>2, <1>4, <2>1 DEF IdleWorker
<1>5. QED
  BY <1>1, <1>2, <1>3, <1>4

(* Sessions that stay live with their snapshot stay its owners. *)
LEMMA OwnersQuiet ==
    ASSUME IsFiniteSet(LiveSessions),
           \A s \in Sessions : /\ sessions'[s].status = "live" <=> sessions[s].status = "live"
                               /\ sessions'[s].snapshot = sessions[s].snapshot
    PROVE  OwnersStill
<1>1. LiveSessions' = LiveSessions
  BY DEF LiveSessions
<1>2. \A p \in Snapshots : Owners(p)' = Owners(p)
  BY <1>1 DEF Owners, LiveSessions
<1>3. QED
  BY <1>1, <1>2 DEF OwnersStill

(* finishSession and takeSession leave the snapshots alone. *)
LEMMA ScheduleSnapshot ==
    ASSUME TypeInv, NEW s \in Sessions, NEW S \in Session, ScheduleSession(s, S)
    PROVE  /\ \A r \in Sessions \ {s} : sessions'[r] = sessions[r]
           /\ sessions'[s].status = S.status /\ sessions'[s].snapshot = S.snapshot
<1>1. sessions' = [sessions EXCEPT ![s] = [S EXCEPT !.scheduled = @ \/ CanSchedule(S)]]
  BY DEF ScheduleSession
<1>2. sessions'[s] = [S EXCEPT !.scheduled = @ \/ CanSchedule(S)] /\ \A r \in Sessions \ {s} : sessions'[r] = sessions[r]
  BY <1>1 DEF TypeInv, TypeOK
<1>3. QED
  BY <1>2 DEF Session

(* finishSession changes neither the status nor the snapshot of a session. *)
LEMMA FinishSnapshot ==
    ASSUME TypeInv, NEW j \in Jobs, NEW known, FinishSession(j, known), NEW r \in Sessions
    PROVE  sessions'[r].status = sessions[r].status /\ sessions'[r].snapshot = sessions[r].snapshot
<1> DEFINE s == jobs[j].session
           final == FinalStatus(j, known)
           S == [sessions[s] EXCEPT !.running = NoJob, !.lastOk = IF final = "succeeded" THEN j ELSE @]
<1>1. CASE j \notin Deferred /\ final \in Terminal /\ OwnsSlot(j)
  <2>1. s \in Sessions /\ sessions[s] \in Session
    BY <1>1 DEF OwnsSlot, LiveSessions, TypeInv, TypeOK
  <2>2. S \in Session /\ S.status = sessions[s].status /\ S.snapshot = sessions[s].snapshot
    BY <2>1 DEF Session, NoJob
  <2>3. ScheduleSession(s, S)
    BY <1>1 DEF FinishSession
  <2> HIDE DEF S
  <2>4. QED
    BY <2>1, <2>2, <2>3, ScheduleSnapshot
<1>2. CASE ~(j \notin Deferred /\ final \in Terminal /\ OwnsSlot(j))
  BY <1>2 DEF FinishSession
<1>3. QED
  BY <1>1, <1>2

-----------------------------------------------------------------------------
(* Requests and the background. *)

(* Enqueue pins for its row, cancellation and cleanup unpin what they end. *)
LEMMA ClientPins ==
    ASSUME CleanFailures, TypeInv, TypeInv', TokenInv, GateInv, PinInv, Next, ~Restart,
           ClientNext \/ BackgroundNext
    PROVE  PinInv'
<1> USE DEF TypeInv
<1>1. completions' = completions /\ worker' = worker
  BY DEF ClientNext, BackgroundNext, Enqueue, CancelQueued, CancelRunning, CleanupProject, CancelUnsent,
         FeedRecovered, PruneTerminal, MaintainSession
<1>2. Steady
  BY <1>1, SteadyStill
<1>3. sessions' = sessions => OwnersStill
  BY OwnersQuiet DEF PinInv
<1>4. ASSUME RowsStill, OwnersStill, pins' = pins
      PROVE  PinInv'
  BY <1>2, <1>4, PinQuiet DEF RowsStill
<1>5. ASSUME NEW j \in Jobs, NEW o, DbCall(o), CancelRow(j, o), sessions' = sessions
      PROVE  PinInv'
  <2>1. CASE o = "fail"
    BY <1>3, <1>4, <1>5, <2>1, RowsQuiet DEF CancelRow
  <2>2. CASE o = "ok"
    <3>1. /\ jobs' = Transition(jobs, j, "queued", "cancelled")
          /\ pins' = IF jobs[j].status = "queued" THEN Release(pins, jobs[j].snapshot) ELSE pins
      BY <1>5, <2>2 DEF CancelRow
    <3>2. /\ NoStart /\ (\A k \in Jobs \ {j} : ~Dropped(k)) /\ (\A k \in Jobs : ~Entered(k))
          /\ Dropped(j) <=> jobs[j].status = "queued"
      BY <3>1, RowsQuiet
    <3>3. QED
      BY <1>2, <1>3, <1>5, <3>1, <3>2, PinQuiet
  <2>3. QED
    BY <1>5, <2>1, <2>2, CallClean
<1>6. ASSUME NEW j \in Jobs, NEW q \in Snapshots, NEW o \in Outcomes, Enqueue(j, q, o)
      PROVE  PinInv'
  <2>1. /\ jobs' = [jobs EXCEPT ![j] = NewRow(q, NoSession, 0)] /\ pins' = Pin(pins, q)
        /\ jobs[j].status = "none" /\ sessions' = sessions
    BY <1>6, CallClean DEF Enqueue, Fresh
  <2>2. jobs'[j] = NewRow(q, NoSession, 0) /\ \A k \in Jobs \ {j} : jobs'[k] = jobs[k]
    BY <2>1 DEF TypeOK
  <2>3. /\ NoStart /\ \A k \in Jobs \ {j} : ~Dropped(k) /\ ~Entered(k)
        /\ Entered(j) /\ ~Dropped(j) /\ jobs'[j].snapshot = q
    BY <2>1, <2>2 DEF NoStart, Dropped, Entered, NewRow
  <2>4. QED
    BY <1>2, <1>3, <2>1, <2>3, PinQuiet
<1>7. ASSUME NEW j \in Jobs, NEW o \in Outcomes, CancelQueued(j, o) \/ CancelUnsent(j, o)
      PROVE  PinInv'
  BY <1>5, <1>7 DEF CancelQueued, CancelUnsent
<1>8. ASSUME NEW j \in Jobs, NEW o \in Outcomes, CancelRunning(j, o)
      PROVE  PinInv'
  BY <1>3, <1>4, <1>8, RowsQuiet DEF CancelRunning, Terminal
<1>9. CASE CleanupProject
  <2>1. \A j \in Jobs : jobs'[j] = jobs[j] \/ jobs'[j] = [jobs[j] EXCEPT !.status = "deleted"]
    BY <1>9 DEF CleanupProject
  <2>2. RowsStill
    BY <2>1 DEF RowsStill, NoStart, Dropped, Entered, TypeOK, Job
  <2>3. QED
    BY <1>3, <1>4, <1>9, <2>2 DEF CleanupProject
<1>10. ASSUME NEW j \in Jobs, FeedRecovered(j) \/ PruneTerminal(j)
       PROVE  PinInv'
  BY <1>3, <1>4, <1>10, RowsQuiet DEF FeedRecovered, PruneTerminal
<1>11. ASSUME NEW s \in Sessions, MaintainSession(s)
       PROVE  PinInv'
  <2>1. ScheduleSession(s, sessions[s]) /\ sessions[s] \in Session /\ jobs' = jobs /\ pins' = pins
    BY <1>11 DEF MaintainSession, TypeOK
  <2>2. \A r \in Sessions : sessions'[r].status = sessions[r].status /\ sessions'[r].snapshot = sessions[r].snapshot
    BY <2>1, ScheduleSnapshot
  <2>3. OwnersStill
    BY <2>2, OwnersQuiet DEF PinInv
  <2>4. RowsStill
    BY <2>1 DEF RowsStill, NoStart, Dropped, Entered
  <2>5. QED
    BY <1>4, <2>1, <2>3, <2>4
<1>12. QED
  BY <1>6, <1>7, <1>8, <1>9, <1>10, <1>11 DEF ClientNext, BackgroundNext

-----------------------------------------------------------------------------
(* The workers and the recovery goroutine. *)

(* A step that at most takes the pin of one job. *)
LEMMA PinTaken ==
    ASSUME TypeInv, PinInv, OwnersStill, RowsSame(jobs, jobs'), NEW x \in Jobs,
           \A k \in Jobs \ {x} : HoldsPin(k)' <=> HoldsPin(k),
           \/ pins' = pins /\ (HoldsPin(x)' <=> HoldsPin(x))
           \/ pins' = Release(pins, jobs[x].snapshot) /\ HoldsPin(x) /\ ~HoldsPin(x)'
    PROVE  PinExact'
<1>1. SUFFICES ASSUME NEW p \in Snapshots
               PROVE  pins'[p] = Cardinality(Holders(p)') + Cardinality(Owners(p)')
  BY <1>1 DEF PinExact, Holders, Owners
<1>2. /\ pins \in [Snapshots -> Nat] /\ pins[p] = Cardinality(Holders(p)) + Cardinality(Owners(p))
      /\ Cardinality(Owners(p)) \in Nat /\ Owners(p)' = Owners(p)
  BY OwnerTypes DEF PinInv, PinExact, Holders, Owners, TypeInv, TypeOK, OwnersStill
<1> DEFINE S == Holders(p)
           T == Holders(p)'
           out == One(x \in S /\ x \notin T)
<1>3. S \in SUBSET Jobs /\ T \in SUBSET Jobs
  BY DEF Holders
<1>4. \A k \in Jobs : jobs'[k].snapshot = jobs[k].snapshot
  BY DEF RowsSame, SameRow
<1>5. \A k \in Jobs \ {x} : k \in T <=> k \in S
  BY <1>4 DEF Holders
<1>6. \/ pins' = pins /\ (x \in T <=> x \in S)
      \/ pins' = Release(pins, jobs[x].snapshot) /\ x \notin T /\ (x \in S <=> p = jobs[x].snapshot)
  BY <1>4 DEF Holders
<1> HIDE DEF S, T
<1>7. IsFiniteSet(S) /\ \A y : y # x => (y \in T <=> y \in S)
  BY <1>3, <1>5, JobSets
<1>8. /\ Cardinality(S) \in Nat /\ Cardinality(T) \in Nat
      /\ Cardinality(T) + One(x \in S) = Cardinality(S) + One(x \in T) /\ One(x \in S) <= Cardinality(S)
  BY <1>7, ChangeOne
<1>9. CASE pins' = pins /\ (x \in T <=> x \in S)
  <2>1. One(x \in S) = One(x \in T) /\ One(x \in S) \in Nat
    BY <1>9 DEF One
  <2>2. Cardinality(T) = Cardinality(S)
    BY <1>8, <2>1
  <2>3. QED
    BY <1>2, <1>9, <2>2 DEF S, T
<1>10. CASE pins' = Release(pins, jobs[x].snapshot) /\ x \notin T /\ (x \in S <=> p = jobs[x].snapshot)
  <2>1. One(x \in S) = One(p = jobs[x].snapshot) /\ One(x \in S) \in Nat /\ One(x \in T) = 0
    BY <1>10 DEF One
  <2>2. Cardinality(T) = Cardinality(S) - One(p = jobs[x].snapshot)
    BY <1>8, <2>1
  <2>3. pins[p] = Cardinality(S) + Cardinality(Owners(p))
    BY <1>2 DEF S
  <2>4. One(p = jobs[x].snapshot) <= pins[p]
    BY <1>2, <1>8, <2>1, <2>3
  <2>5. Release(pins, jobs[x].snapshot)[p] = pins[p] - One(p = jobs[x].snapshot)
    BY <1>2, <2>4, PinCount
  <2>6. pins'[p] = Cardinality(T) + Cardinality(Owners(p))
    BY <1>2, <1>8, <1>10, <2>1, <2>2, <2>3, <2>5
  <2>7. QED
    BY <1>2, <2>6 DEF T
<1>11. QED
  BY <1>6, <1>9, <1>10

(* A compiling worker is alone with its job. *)
LEMMA CompilesAlone ==
    ASSUME TypeInv, TokenInv, NEW w \in Workers, worker[w].token \in Jobs,
           \A v \in Workers \ {w} : worker'[v] = worker[v], worker'[w].token = worker[w].token
    PROVE  /\ \A k \in Jobs \ {worker[w].token} : Compiles(k)' <=> Compiles(k)
           /\ Compiles(worker[w].token) <=> worker[w].pc = "compile"
           /\ Compiles(worker[w].token)' <=> worker'[w].pc = "compile"
<1>1. \A v \in Workers : worker[v].token = worker[w].token => v = w
  BY DEF TokenInv, SoleToken
<1>2. \A k \in Jobs \ {worker[w].token} : Compiles(k)' <=> Compiles(k)
  BY DEF Compiles
<1>3. Compiles(worker[w].token) <=> worker[w].pc = "compile"
  BY <1>1 DEF Compiles
<1>4. ASSUME NEW j, j = worker[w].token
      PROVE  (\E v \in Workers : worker'[v].pc = "compile" /\ worker'[v].token = j) <=> worker'[w].pc = "compile"
  BY <1>1, <1>4
<1>5. QED
  BY <1>2, <1>3, <1>4 DEF Compiles

(* cancel: the pin goes with the queued row. *)
LEMMA CancelPins ==
    ASSUME CleanFailures, TypeInv, TypeInv', TokenInv, GateInv, PinInv, Next, ~Restart,
           Steady, OwnersStill, NEW j \in Jobs, NEW o, DbCall(o), CancelRow(j, o)
    PROVE  PinInv'
<1>1. CASE o = "fail"
  <2>1. jobs' = jobs /\ pins' = pins
    BY <1>1 DEF CancelRow
  <2>2. RowsStill
    BY <2>1, RowsQuiet
  <2>3. QED
    BY <2>1, <2>2, PinQuiet DEF RowsStill
<1>2. CASE o = "ok"
  <2>1. /\ jobs' = Transition(jobs, j, "queued", "cancelled")
        /\ pins' = IF jobs[j].status = "queued" THEN Release(pins, jobs[j].snapshot) ELSE pins
    BY <1>2 DEF CancelRow
  <2>2. /\ NoStart /\ (\A k \in Jobs \ {j} : ~Dropped(k)) /\ (\A k \in Jobs : ~Entered(k))
        /\ Dropped(j) <=> jobs[j].status = "queued"
    BY <2>1, RowsQuiet
  <2>3. QED
    BY <2>1, <2>2, PinQuiet
<1>3. QED
  BY <1>1, <1>2, CallClean

(* Starting a job keeps its pin, with its new owner. *)
LEMMA StartPins ==
    ASSUME CleanFailures, TypeInv, TypeInv', TokenInv, GateInv, PinInv, Next, ~Restart,
           NEW w \in Workers, NEW o \in Outcomes, StartJob(w, o)
    PROVE  PinInv'
<1> USE DEF TypeInv
<1>1. PICK j \in Jobs : j = worker[w].token
  BY HeldJob DEF StartJob
<1>2. /\ worker[w].pc = "start" /\ completions' = completions /\ sessions' = sessions /\ pins' = pins
      /\ DbCall(o) /\ o \in {"ok", "fail"}
      /\ jobs' = IF o = "fail" THEN jobs ELSE Transition(jobs, j, "queued", "running")
  BY <1>1, CallClean DEF StartJob
<1>3. OwnersStill
  BY <1>2, OwnersQuiet DEF PinInv
<1>4. CASE o = "fail" \/ jobs[j].status # "queued"
  <2>1. PICK pc : Goto(w, pc, "running") /\ pc # "compile"
    BY <1>1, <1>2, <1>4 DEF StartJob, TransitionErr
  <2>2. Steady
    BY <1>2, <2>1, SteadyStill
  <2>3. jobs' = jobs
    BY <1>2, <1>4 DEF Transition
  <2>4. RowsStill
    BY <2>3, RowsQuiet
  <2>5. QED
    BY <1>2, <1>3, <2>2, <2>4, PinQuiet DEF RowsStill
<1>5. CASE o = "ok" /\ jobs[j].status = "queued"
  <2>1. Goto(w, "compile", "running") /\ jobs' = SetStatus(jobs, j, "running")
    BY <1>1, <1>2, <1>5 DEF StartJob, Transition, TransitionErr
  <2>2. /\ worker'[w].pc = "compile" /\ worker'[w].token = j /\ \A v \in Workers \ {w} : worker'[v] = worker[v]
    BY <1>1, <2>1, GotoWorkers
  <2>3. jobs'[j].status = "running" /\ RowsSame(jobs, jobs') /\ \A k \in Jobs \ {j} : jobs'[k] = jobs[k]
    BY <2>1, SameFacts DEF SetStatus, TypeOK, Job
  <2>4. \A k \in Jobs \ {j} : Compiles(k)' <=> Compiles(k)
    BY <1>1, <2>2, CompilesAlone
  <2>5. \A k \in Jobs \ {j} : HoldsPin(k)' <=> HoldsPin(k)
    BY <1>2, <2>3, <2>4 DEF HoldsPin, Compiles
  <2>6. HoldsPin(j) /\ HoldsPin(j)'
    BY <1>5, <2>3 DEF HoldsPin, Pending
  <2>7. PinExact'
    BY <1>2, <1>3, <2>3, <2>5, <2>6, PinTaken
  <2>8. Compiles(j)'
    BY <2>2 DEF Compiles
  <2>9. RunningOwned'
    BY <1>2, <2>3, <2>4, <2>8 DEF PinInv, RunningOwned
  <2>10. QED
    BY <1>3, <2>7, <2>9 DEF PinInv, OwnersStill
<1>6. QED
  BY <1>2, <1>4, <1>5

(* A finished job returns its pin, or leaves that to the deferred          *)
(* completion.                                                             *)
LEMMA FinishPins ==
    ASSUME CleanFailures, TypeInv, TypeInv', TokenInv, GateInv, PinInv, Next, ~Restart,
           NEW w \in Workers, NEW out \in {"succeeded", "failed"}, NEW o \in Outcomes, FinishJob(w, out, o)
    PROVE  PinInv'
<1> USE DEF TypeInv
<1>1. PICK j \in Jobs : j = worker[w].token
  BY HeldJob DEF FinishJob
<1> DEFINE read == o = "ok" /\ jobs[j].status # "deleted"
<1>2. /\ worker[w].pc = "compile" /\ sessions' = sessions /\ o \in {"ok", "fail"}
      /\ jobs' = IF o = "fail" THEN jobs ELSE Transition(jobs, j, "running", out)
      /\ read => pins' = Release(pins, jobs[j].snapshot) /\ completions' = completions
      /\ ~read => pins' = pins /\ Defer(j, "running", out)
      /\ \E pc, known : Goto(w, pc, known) /\ pc # "compile"
  BY <1>1, CallClean DEF FinishJob
<1>3. OwnersStill
  BY <1>2, OwnersQuiet DEF PinInv
<1>4. worker'[w].pc # "compile" /\ worker'[w].token = j /\ \A v \in Workers \ {w} : worker'[v] = worker[v]
  BY <1>1, <1>2, GotoWorkers
<1>5. /\ \A k \in Jobs \ {j} : Compiles(k)' <=> Compiles(k)
      /\ Compiles(j) /\ ~Compiles(j)'
  <2>1. Compiles(j)
    BY <1>1, <1>2 DEF Compiles
  <2>2. ~Compiles(j)'
    <3>1. \A v \in Workers : worker[v].token = j => v = w
      BY <1>1 DEF TokenInv, SoleToken
    <3>2. QED
      BY <1>4, <3>1 DEF Compiles
  <2>3. QED
    BY <1>1, <1>4, <2>1, <2>2, CompilesAlone
<1>6. j \notin Deferred /\ (read => jobs[j].status \in Terminal \cup {"running"})
  BY <1>1, <1>2 DEF GateInv, AttemptGated, RowKept, Attempts
<1>7. /\ RowsSame(jobs, jobs') /\ \A k \in Jobs \ {j} : jobs'[k] = jobs[k]
  <2>1. CASE o = "fail"
    BY <1>2, <2>1, SameStill
  <2>2. CASE o = "ok"
    BY <1>2, <2>2, SameFacts DEF TypeOK, Transition, SetStatus
  <2>3. QED
    BY <1>2, <2>1, <2>2
<1>8. \A k \in Jobs \ {j} : completions'[k] = completions[k]
  BY <1>2 DEF Defer, TypeOK
<1>9. \A k \in Jobs \ {j} : HoldsPin(k)' <=> HoldsPin(k)
  BY <1>5, <1>7, <1>8 DEF HoldsPin, Compiles
<1>10. HoldsPin(j)
  BY <1>5 DEF HoldsPin, Compiles
<1>11. CASE read
  <2>1. jobs'[j].status \notin Pending
    BY <1>2, <1>6, <1>11 DEF Transition, SetStatus, TypeOK, Job, Pending, Terminal
  <2>2. completions'[j].from # "running"
    BY <1>2, <1>6, <1>11 DEF Deferred
  <2>3. ~HoldsPin(j)'
    BY <1>5, <2>1, <2>2 DEF HoldsPin, Compiles
  <2>4. PinExact'
    BY <1>2, <1>3, <1>7, <1>9, <1>10, <1>11, <2>3, PinTaken
  <2>5. RunningOwned'
    BY <1>5, <1>7, <1>8, <2>1 DEF PinInv, RunningOwned, Pending
  <2>6. QED
    BY <1>3, <2>4, <2>5 DEF PinInv, OwnersStill
<1>12. CASE ~read
  <2>1. completions'[j].from = "running"
    BY <1>2, <1>12 DEF Defer, TypeOK
  <2>2. HoldsPin(j)'
    BY <2>1 DEF HoldsPin
  <2>3. PinExact'
    BY <1>2, <1>3, <1>7, <1>9, <1>10, <1>12, <2>2, PinTaken
  <2>4. RunningOwned'
    BY <1>5, <1>7, <1>8, <2>1 DEF PinInv, RunningOwned
  <2>5. QED
    BY <1>3, <2>3, <2>4 DEF PinInv, OwnersStill
<1>13. QED
  BY <1>2, <1>11, <1>12

(* The other steps of a worker leave its attempt's pin alone. *)
LEMMA WorkerPins ==
    ASSUME CleanFailures, TypeInv, TypeInv', TokenInv, GateInv, PinInv, Next, ~Restart,
           NEW w \in Workers, WorkerNext(w)
    PROVE  PinInv'
<1> USE DEF TypeInv
<1>1. sessions' = sessions => OwnersStill
  BY OwnersQuiet DEF PinInv
<1>2. jobs' = jobs => RowsStill
  BY DEF RowsStill, NoStart, Dropped, Entered
<1>3. ASSUME Steady, RowsStill, OwnersStill, pins' = pins
      PROVE  PinInv'
  BY <1>3, PinQuiet DEF RowsStill
<1>4. CASE Receive(w)
  <2>1. /\ worker[w].pc # "compile" /\ worker'[w].pc # "compile"
        /\ \A v \in Workers \ {w} : worker'[v] = worker[v]
    BY <1>4 DEF Receive, TypeOK
  <2>2. Steady
    BY <1>4, <2>1, SteadyStill DEF Receive
  <2>3. QED
    BY <1>1, <1>2, <1>3, <1>4, <2>2 DEF Receive
<1>5. CASE TakeSession(w)
  <2>1. /\ worker[w].pc # "compile" /\ worker'[w].pc # "compile"
        /\ \A v \in Workers \ {w} : worker'[v] = worker[v]
    BY <1>5 DEF TakeSession, TypeOK, IdleWorker
  <2>2. Steady
    BY <1>5, <2>1, SteadyStill DEF TakeSession
  <2>3. PICK s \in Sessions : s = worker[w].token
    BY <1>5 DEF TakeSession, WorkerHolds
  <2>4. \/ sessions' = sessions
        \/ sessions' = [sessions EXCEPT ![s] = Taken(sessions[s])]
        \/ sessions' = [sessions EXCEPT ![s].scheduled = FALSE]
    BY <1>5, <2>3 DEF TakeSession
  <2>5. \A r \in Sessions : sessions'[r].status = sessions[r].status /\ sessions'[r].snapshot = sessions[r].snapshot
    <3>1. CASE sessions' = [sessions EXCEPT ![s] = Taken(sessions[s])]
      <4>1. Taken(sessions[s]).status = sessions[s].status /\ Taken(sessions[s]).snapshot = sessions[s].snapshot
        BY DEF Taken, TypeOK, Session
      <4>2. QED
        BY <3>1, <4>1 DEF TypeOK
    <3>2. CASE sessions' = [sessions EXCEPT ![s].scheduled = FALSE]
      BY <3>2 DEF TypeOK, Session
    <3>3. QED
      BY <2>4, <3>1, <3>2
  <2>6. OwnersStill
    BY <2>5, OwnersQuiet DEF PinInv
  <2>7. QED
    BY <1>2, <1>3, <1>5, <2>2, <2>6 DEF TakeSession
<1>6. ASSUME NEW o \in Outcomes, LoadJob(w, o)
      PROVE  PinInv'
  <2>1. \/ Idle(w)
        \/ \E pc, known : Goto(w, pc, known) /\ pc # "compile"
    BY <1>6 DEF LoadJob, LoadFailed
  <2>2. Steady
    BY <1>6, <2>1, SteadyStill DEF LoadJob
  <2>3. QED
    BY <1>1, <1>2, <1>3, <1>6, <2>2 DEF LoadJob
<1>7. ASSUME NEW o \in Outcomes, RejectJob(w, o)
      PROVE  PinInv'
  <2>1. worker[w].token \in Jobs
    BY <1>7, HeldJob DEF RejectJob
  <2>2. Goto(w, "settle", "queued") /\ completions' = completions /\ worker[w].pc # "compile"
    BY <1>7 DEF RejectJob
  <2>3. Steady
    BY <2>2, SteadyStill
  <2>4. QED
    BY <1>1, <1>7, <2>1, <2>3, CancelPins DEF RejectJob
<1>8. ASSUME NEW o \in Outcomes, PublishJob(w, o)
      PROVE  PinInv'
  <2>1. PICK j \in Jobs : j = worker[w].token
    BY <1>8, HeldJob DEF PublishJob
  <2>2. j \notin Deferred
    BY <1>8, <2>1 DEF PublishJob, GateInv, AttemptGated, Attempts
  <2>3. completions' = completions \/ Defer(j, "succeeded", "succeeded")
    BY <1>8, <2>1 DEF PublishJob
  <2>4. \A k \in Jobs : completions'[k].from = "running" <=> completions[k].from = "running"
    <3>1. CASE Defer(j, "succeeded", "succeeded")
      <4>1. completions'[j].from = "succeeded" /\ \A k \in Jobs \ {j} : completions'[k] = completions[k]
        BY <3>1 DEF Defer, TypeOK
      <4>2. QED
        BY <2>2, <4>1 DEF Deferred
    <3>2. QED
      BY <2>3, <3>1
  <2>5. Goto(w, "unwind", "succeeded") /\ worker[w].pc # "compile"
    BY <1>8 DEF PublishJob
  <2>6. Steady
    BY <2>4, <2>5, SteadyStill
  <2>7. RowsStill
    BY <1>2, <1>8, <2>1, RowsQuiet DEF PublishJob
  <2>8. QED
    BY <1>1, <1>3, <1>8, <2>6, <2>7 DEF PublishJob
<1>9. CASE SkipPublish(w) \/ Deactivate(w)
  <2>1. (\E pc, known : Goto(w, pc, known) /\ pc # "compile") /\ worker[w].pc # "compile" /\ completions' = completions
    BY <1>9 DEF SkipPublish, Deactivate
  <2>2. Steady
    BY <2>1, SteadyStill
  <2>3. QED
    BY <1>1, <1>2, <1>3, <1>9, <2>2 DEF SkipPublish, Deactivate
<1>10. ASSUME NEW o \in Outcomes, SettleSession(w, o)
       PROVE  PinInv'
  <2>1. PICK j \in Jobs : j = worker[w].token
    BY <1>10, HeldJob DEF SettleSession
  <2>2. Goto(w, "gate", worker[w].known) /\ worker[w].pc # "compile" /\ completions' = completions
    BY <1>10 DEF SettleSession
  <2>3. Steady
    BY <2>2, SteadyStill
  <2>4. FinishSession(j, worker[w].known) \/ sessions' = sessions
    BY <1>10, <2>1 DEF SettleSession
  <2>5. \A r \in Sessions : sessions'[r].status = sessions[r].status /\ sessions'[r].snapshot = sessions[r].snapshot
    BY <2>4, FinishSnapshot
  <2>6. OwnersStill
    BY <2>5, OwnersQuiet DEF PinInv
  <2>7. QED
    BY <1>2, <1>3, <1>10, <2>3, <2>6 DEF SettleSession
<1>11. CASE OpenGate(w) \/ Forget(w)
  <2>1. Idle(w) /\ worker[w].pc # "compile" /\ completions' = completions
    BY <1>11 DEF OpenGate, Forget
  <2>2. Steady
    BY <2>1, SteadyStill
  <2>3. QED
    BY <1>1, <1>2, <1>3, <1>11, <2>2 DEF OpenGate, Forget
<1>12. CASE Requeue(w)
  <2>1. /\ worker[w].pc # "compile" /\ worker'[w].pc # "compile" /\ completions' = completions
        /\ \A v \in Workers \ {w} : worker'[v] = worker[v]
    BY <1>12, RequeueType DEF Requeue
  <2>2. Steady
    BY <2>1, SteadyStill
  <2>3. QED
    BY <1>1, <1>2, <1>3, <1>12, <2>2 DEF Requeue
<1>13. QED
  BY <1>4, <1>5, <1>6, <1>7, <1>8, <1>9, <1>10, <1>11, <1>12, StartPins, FinishPins DEF WorkerNext

(* Recovery gives back the pin of a completion that finish deferred. *)
LEMMA RecoveryPins ==
    ASSUME CleanFailures, TypeInv, TypeInv', TokenInv, GateInv, PinInv, Next, ~Restart, RecoveryNext
    PROVE  PinInv'
<1> USE DEF TypeInv
<1>1. sessions' = sessions => OwnersStill
  BY OwnersQuiet DEF PinInv
<1>2. jobs' = jobs => RowsStill
  BY DEF RowsStill, NoStart, Dropped, Entered
<1>3. ASSUME worker' = worker, completions' = completions, RowsStill, OwnersStill, pins' = pins
      PROVE  PinInv'
  <2>1. Steady
    BY <1>3, SteadyStill
  <2>2. QED
    BY <1>3, <2>1, PinQuiet DEF RowsStill
<1>4. ASSUME NEW j \in Jobs, RetryCompletion(j)
      PROVE  PinInv'
  <2>1. /\ j \in Deferred /\ jobs[j].status # "deleted" /\ worker' = worker /\ sessions' = sessions
        /\ jobs' = RecoveredRow(j) /\ completions' = [completions EXCEPT ![j] = NoCompletion]
        /\ pins' = IF OwesPin(completions[j]) THEN Release(pins, jobs[j].snapshot) ELSE pins
    BY <1>4 DEF RetryCompletion
  <2>2. jobs[j].status \in Terminal \cup {"running"} /\ ~Compiles(j)
    BY <2>1 DEF GateInv, DeferredGated, AttemptGated, RowKept, Attempts, Compiles
  <2>3. completions'[j].from = "none" /\ \A k \in Jobs \ {j} : completions'[k] = completions[k]
    BY <2>1 DEF NoCompletion, TypeOK
  <2>4. OwnersStill
    BY <1>1, <2>1
  <2>5. \A k \in Jobs : Compiles(k)' <=> Compiles(k)
    BY <2>1 DEF Compiles
  <2>6. CASE completions[j].from = "running"
    <3>1. jobs' = Transition(jobs, j, "running", completions[j].to) /\ pins' = Release(pins, jobs[j].snapshot)
      BY <2>1, <2>6 DEF RecoveredRow, OwesPin
    <3>2. completions[j].to \in {"succeeded", "failed"}
      BY <2>6 DEF TypeOK, Completion, NoCompletion
    <3>3. jobs'[j].status \notin Pending /\ RowsSame(jobs, jobs') /\ \A k \in Jobs \ {j} : jobs'[k] = jobs[k]
      <4>1. RowsSame(jobs, jobs')
        BY <3>1, SameFacts DEF TypeOK
      <4>2. \A k \in Jobs \ {j} : jobs'[k] = jobs[k]
        BY <3>1 DEF Transition, SetStatus, TypeOK
      <4>3. jobs'[j].status = IF jobs[j].status = "running" THEN completions[j].to ELSE jobs[j].status
        BY <3>1 DEF Transition, SetStatus, TypeOK, Job
      <4>4. QED
        BY <2>2, <3>2, <4>1, <4>2, <4>3 DEF Pending, Terminal
    <3>4. HoldsPin(j) /\ ~HoldsPin(j)'
      BY <2>2, <2>3, <2>5, <2>6, <3>3 DEF HoldsPin, Compiles
    <3>5. \A k \in Jobs \ {j} : HoldsPin(k)' <=> HoldsPin(k)
      BY <2>3, <2>5, <3>3 DEF HoldsPin, Compiles
    <3>6. PinExact'
      BY <2>4, <3>1, <3>3, <3>4, <3>5, PinTaken
    <3>7. RunningOwned'
      BY <2>3, <2>5, <3>3 DEF PinInv, RunningOwned, Pending
    <3>8. QED
      BY <2>4, <3>6, <3>7 DEF PinInv, OwnersStill
  <2>7. CASE completions[j].from # "running"
    <3>1. jobs' = Account(jobs, j) /\ pins' = pins
      BY <2>1, <2>7 DEF RecoveredRow, OwesPin
    <3>2. \A k \in Jobs : completions'[k].from = "running" <=> completions[k].from = "running"
      BY <2>3, <2>7
    <3>3. Steady
      BY <2>1, <3>2, SteadyStill
    <3>4. RowsStill
      BY <3>1, RowsQuiet
    <3>5. QED
      BY <2>4, <3>1, <3>3, <3>4, PinQuiet DEF RowsStill
  <2>8. QED
    BY <2>6, <2>7
<1>5. ASSUME NEW j \in Jobs, RetryLost(j)
      PROVE  PinInv'
  BY <1>5, CallClean DEF RetryLost
<1>6. CASE RecoverSession
  <2>1. FinishSession(recovery.job, recovery.known) /\ recovery.job \in Jobs
    BY <1>6 DEF RecoverSession, RecoveryHolds
  <2>2. \A r \in Sessions : sessions'[r].status = sessions[r].status /\ sessions'[r].snapshot = sessions[r].snapshot
    BY <2>1, FinishSnapshot
  <2>3. OwnersStill
    BY <2>2, OwnersQuiet DEF PinInv
  <2>4. QED
    BY <1>2, <1>3, <1>6, <2>3 DEF RecoverSession
<1>7. CASE RecoverGate
  BY <1>1, <1>2, <1>3, <1>7 DEF RecoverGate
<1>8. QED
  BY <1>4, <1>5, <1>6, <1>7 DEF RecoveryNext

-----------------------------------------------------------------------------
(* The sessions. *)

(* At most one row is dropped and at most one entered. *)
LEMMA HoldersSwap ==
    ASSUME TypeInv, TypeInv', TokenInv, GateInv, RunningOwned, Next, ~Restart, Steady,
           NEW x, NEW d \in BOOLEAN, d => x \in Jobs /\ Dropped(x), \A k \in Jobs : Dropped(k) => d /\ k = x,
           NEW y, NEW e \in BOOLEAN, e => y \in Jobs /\ Entered(y), \A k \in Jobs : Entered(k) => e /\ k = y,
           NEW q
    PROVE  /\ Cardinality(Holders(q)) \in Nat /\ Cardinality(Holders(q)') \in Nat
           /\ One(d /\ q = jobs[x].snapshot) <= Cardinality(Holders(q))
           /\ Cardinality(Holders(q)') = Cardinality(Holders(q)) - One(d /\ q = jobs[x].snapshot)
                                         + One(e /\ q = jobs'[y].snapshot)
<1> DEFINE S == Holders(q)
           T == Holders(q)'
           M == {k \in S : ~(d /\ k = x)}
           out == d /\ q = jobs[x].snapshot
           in == e /\ q = jobs'[y].snapshot
<1>1. S \in SUBSET Jobs /\ T \in SUBSET Jobs
  BY DEF Holders
<1>2. d => (x \in S <=> q = jobs[x].snapshot)
  BY HoldersMove
<1>3. e => y \notin S /\ (y \in T <=> q = jobs'[y].snapshot)
  BY HoldersMove
<1>4. \A k \in Jobs : ~(e /\ k = y) => (k \in T <=> k \in M)
  <2>1. SUFFICES ASSUME NEW k \in Jobs, ~(e /\ k = y) PROVE k \in T <=> k \in M
    OBVIOUS
  <2>2. ~Entered(k)
    BY <2>1
  <2>3. CASE Dropped(k)
    BY <2>3, HoldersMove
  <2>4. CASE ~Dropped(k)
    BY <2>2, <2>4, HoldersMove
  <2>5. QED
    BY <2>3, <2>4
<1> HIDE DEF S, T
<1>5. IsFiniteSet(S) /\ \A k : k # x => (k \in M <=> k \in S)
  BY <1>1, JobSets
<1>6. x \in M <=> x \in S /\ ~d
  OBVIOUS
<1>7. M \subseteq Jobs /\ (e => y \notin M)
  BY <1>1, <1>3
<1> HIDE DEF M
<1>8. /\ IsFiniteSet(M) /\ Cardinality(S) \in Nat /\ Cardinality(M) \in Nat
      /\ Cardinality(M) + One(x \in S) = Cardinality(S) + One(x \in M) /\ One(x \in S) <= Cardinality(S)
  BY <1>5, ChangeOne
<1>9. \A k : k # y => (k \in T <=> k \in M)
  BY <1>1, <1>4, <1>7
<1>10. /\ Cardinality(T) \in Nat
       /\ Cardinality(T) + One(y \in M) = Cardinality(M) + One(y \in T)
  BY <1>8, <1>9, ChangeOne
<1>11. /\ One(x \in S) = One(x \in M) + One(out) /\ One(x \in M) \in Nat /\ One(out) \in Nat
       /\ One(out) <= One(x \in S)
  <2>1. CASE d
    BY <1>2, <1>6, <2>1 DEF One
  <2>2. CASE ~d
    BY <1>6, <2>2 DEF One
  <2>3. QED
    BY <2>1, <2>2
<1>12. One(y \in T) = One(y \in M) + One(in) /\ One(y \in M) \in Nat /\ One(in) \in Nat
  <2>1. CASE e
    BY <1>3, <1>7, <2>1 DEF One
  <2>2. CASE ~e
    <3>1. y \in T <=> y \in M
      BY <1>1, <1>4, <1>7, <2>2
    <3>2. QED
      BY <2>2, <3>1 DEF One
  <2>3. QED
    BY <2>1, <2>2
<1> HIDE DEF out, in
<1>13. One(out) <= Cardinality(S) /\ Cardinality(T) = Cardinality(S) - One(out) + One(in)
  <2>1. One(x \in S) \in Nat /\ One(y \in T) \in Nat
    BY DEF One
  <2>2. QED
    BY <1>8, <1>10, <1>11, <1>12, <2>1
<1>14. QED
  BY <1>8, <1>10, <1>13 DEF S, T, out, in

(* One session changes its snapshot, or closes. *)
LEMMA OwnersSwap ==
    ASSUME IsFiniteSet(LiveSessions), NEW s \in Sessions, sessions[s].status = "live",
           \A r \in Sessions \ {s} : sessions'[r] = sessions[r], NEW q
    PROVE  /\ IsFiniteSet(LiveSessions)'
           /\ Cardinality(Owners(q)) \in Nat /\ Cardinality(Owners(q)') \in Nat
           /\ One(q = sessions[s].snapshot) <= Cardinality(Owners(q))
           /\ Cardinality(Owners(q)') = Cardinality(Owners(q)) - One(q = sessions[s].snapshot)
                                        + One(sessions'[s].status = "live" /\ q = sessions'[s].snapshot)
<1> DEFINE U == Owners(q)
           V == Owners(q)'
<1>1. \A r : r # s => (r \in LiveSessions' <=> r \in LiveSessions)
  BY DEF LiveSessions
<1>2. IsFiniteSet(LiveSessions')
  <2> DEFINE L == LiveSessions
             K == LiveSessions'
  <2>1. IsFiniteSet(L) /\ \A r : r # s => (r \in K <=> r \in L)
    BY <1>1
  <2> HIDE DEF L, K
  <2>2. IsFiniteSet(K)
    BY <2>1, ChangeOne
  <2>3. QED
    BY <2>2 DEF K
<1>3. IsFiniteSet(U)
  BY OwnerTypes
<1>4. \A r : r # s => (r \in V <=> r \in U)
  BY DEF Owners, LiveSessions
<1>5. /\ s \in U <=> q = sessions[s].snapshot
      /\ s \in V <=> sessions'[s].status = "live" /\ q = sessions'[s].snapshot
  BY DEF Owners, LiveSessions
<1> HIDE DEF U, V
<1>6. /\ Cardinality(U) \in Nat /\ Cardinality(V) \in Nat
      /\ Cardinality(V) + One(s \in U) = Cardinality(U) + One(s \in V) /\ One(s \in U) <= Cardinality(U)
  BY <1>3, <1>4, ChangeOne
<1>7. /\ One(s \in U) = One(q = sessions[s].snapshot) /\ One(s \in U) \in Nat
      /\ One(s \in V) = One(sessions'[s].status = "live" /\ q = sessions'[s].snapshot) /\ One(s \in V) \in Nat
  BY <1>5 DEF One
<1>8. QED
  BY <1>2, <1>6, <1>7 DEF U, V

(* The pins SubmitRevision and CloseSession leave. *)
LEMMA SessionPins ==
    ASSUME TypeOK, NEW s \in Sessions, NEW p \in Snapshots, NEW q \in Snapshots,
           NEW out, out = One(Supersedes(s) /\ q = jobs[sessions[s].pending].snapshot),
           NEW own, own = One(q = sessions[s].snapshot), out + own <= pins[q]
    PROVE  /\ PinsAfterSubmit(s, p)[q] = pins[q] + One(q = p) - out + One(q = p) - own
           /\ PinsAfterClose(s)[q] = pins[q] - out - own
<1> DEFINE dropped(P) == IF Supersedes(s) THEN Release(P, jobs[sessions[s].pending].snapshot) ELSE P
           freed(P) == IF sessions[s].snapshot = NoSnapshot THEN P ELSE Release(P, sessions[s].snapshot)
<1>1. ASSUME NEW P \in [Snapshots -> Nat], out <= P[q]
      PROVE  dropped(P) \in [Snapshots -> Nat] /\ dropped(P)[q] = P[q] - out
  <2>1. CASE Supersedes(s)
    <3>1. out = One(q = jobs[sessions[s].pending].snapshot)
      BY <2>1 DEF One
    <3>2. QED
      BY <1>1, <2>1, <3>1, PinCount, PinType
  <2>2. CASE ~Supersedes(s)
    <3>1. out = 0 /\ P[q] \in Nat
      BY <2>2 DEF One
    <3>2. QED
      BY <2>2, <3>1
  <2>3. QED
    BY <2>1, <2>2
<1>2. ASSUME NEW P \in [Snapshots -> Nat], own <= P[q]
      PROVE  freed(P)[q] = P[q] - own
  <2>1. CASE sessions[s].snapshot = NoSnapshot
    <3>1. own = 0 /\ P[q] \in Nat
      BY <2>1, JobManagerAssumption DEF One
    <3>2. QED
      BY <2>1, <3>1
  <2>2. CASE sessions[s].snapshot # NoSnapshot
    BY <1>2, <2>2, PinCount
  <2>3. QED
    BY <2>1, <2>2
<1>3. pins \in [Snapshots -> Nat] /\ pins[q] \in Nat /\ out \in Nat /\ own \in Nat /\ One(q = p) \in Nat
  BY DEF TypeOK, One
<1>4. /\ PinsAfterSubmit(s, p) = freed(Pin(dropped(Pin(pins, p)), p))
      /\ PinsAfterClose(s) = freed(dropped(pins))
  BY DEF PinsAfterSubmit, PinsAfterClose
<1>5. Pin(pins, p) \in [Snapshots -> Nat] /\ Pin(pins, p)[q] = pins[q] + One(q = p)
  BY <1>3, PinCount, PinType
<1> HIDE DEF dropped, freed
<1>6. PICK A \in [Snapshots -> Nat] : A = dropped(Pin(pins, p)) /\ A[q] = pins[q] + One(q = p) - out
  <2>1. out <= Pin(pins, p)[q]
    BY <1>3, <1>5
  <2>2. PICK P \in [Snapshots -> Nat] : P = Pin(pins, p)
    BY <1>5
  <2>3. dropped(P) \in [Snapshots -> Nat] /\ dropped(P)[q] = P[q] - out
    BY <1>1, <2>1, <2>2
  <2>4. QED
    BY <1>3, <1>5, <2>2, <2>3
<1>7. PICK B \in [Snapshots -> Nat] : B = Pin(A, p) /\ B[q] = pins[q] + One(q = p) - out + One(q = p)
  <2>1. Pin(A, p) \in [Snapshots -> Nat] /\ Pin(A, p)[q] = A[q] + One(q = p)
    BY PinCount, PinType
  <2>2. QED
    BY <1>6, <2>1
<1>8. own <= B[q]
  BY <1>3, <1>7
<1>9. freed(B)[q] = pins[q] + One(q = p) - out + One(q = p) - own
  <2>1. freed(B)[q] = B[q] - own
    BY <1>2, <1>8
  <2>2. QED
    BY <1>3, <1>7, <2>1
<1>10. PICK C \in [Snapshots -> Nat] : C = dropped(pins) /\ C[q] = pins[q] - out
  BY <1>1, <1>3
<1>11. freed(C)[q] = pins[q] - out - own
  <2>1. own <= C[q]
    BY <1>3, <1>10
  <2>2. QED
    BY <1>2, <1>10, <2>1
<1>12. QED
  BY <1>4, <1>6, <1>7, <1>9, <1>10, <1>11

(* A step of a session that swaps one pin of a job and one of its own. *)
LEMMA SwapPins ==
    ASSUME TypeInv, TypeInv', TokenInv, GateInv, PinInv, Next, ~Restart, Steady, NoStart,
           NEW s \in Sessions, sessions[s].status = "live", \A r \in Sessions \ {s} : sessions'[r] = sessions[r],
           \A k \in Jobs : Dropped(k) <=> Supersedes(s) /\ k = sessions[s].pending,
           NEW y, NEW e \in BOOLEAN, e => y \in Jobs /\ Entered(y), \A k \in Jobs : Entered(k) => e /\ k = y,
           NEW p \in Snapshots,
           \/ e /\ jobs'[y].snapshot = p /\ sessions'[s].status = "live" /\ sessions'[s].snapshot = p
              /\ pins' = PinsAfterSubmit(s, p)
           \/ ~e /\ sessions'[s].status # "live" /\ pins' = PinsAfterClose(s)
    PROVE  PinInv'
<1> DEFINE x == sessions[s].pending
           d == Supersedes(s)
<1>1. RunningOwned'
  BY OwnedStill DEF PinInv
<1>2. d \in BOOLEAN /\ (d => x \in Jobs /\ Dropped(x)) /\ \A k \in Jobs : Dropped(k) => d /\ k = x
  <2>1. d => x \in Jobs
    BY PendingType DEF Supersedes, TypeInv
  <2>2. QED
    BY <2>1 DEF Supersedes
<1>3. IsFiniteSet(LiveSessions)'
  BY OwnersSwap DEF PinInv
<1>4. SUFFICES ASSUME NEW q \in Snapshots
               PROVE  pins'[q] = Cardinality(Holders(q)') + Cardinality(Owners(q)')
  BY <1>1, <1>3 DEF PinInv, PinExact, Holders, Owners
<1> DEFINE out == One(d /\ q = jobs[x].snapshot)
           in == One(e /\ q = jobs'[y].snapshot)
           own == One(q = sessions[s].snapshot)
           new == One(sessions'[s].status = "live" /\ q = sessions'[s].snapshot)
<1> HIDE DEF x, d
<1>5. /\ Cardinality(Holders(q)) \in Nat /\ Cardinality(Holders(q)') \in Nat /\ out <= Cardinality(Holders(q))
      /\ Cardinality(Holders(q)') = Cardinality(Holders(q)) - out + in
  BY <1>2, HoldersSwap DEF PinInv
<1>6. /\ Cardinality(Owners(q)) \in Nat /\ Cardinality(Owners(q)') \in Nat /\ own <= Cardinality(Owners(q))
      /\ Cardinality(Owners(q)') = Cardinality(Owners(q)) - own + new
  BY OwnersSwap DEF PinInv
<1>7. pins[q] = Cardinality(Holders(q)) + Cardinality(Owners(q))
  BY DEF PinInv, PinExact, Holders, Owners
<1>8. out \in Nat /\ own \in Nat /\ in \in Nat /\ new \in Nat /\ One(q = p) \in Nat
  BY DEF One
<1>9. out = One(Supersedes(s) /\ q = jobs[sessions[s].pending].snapshot)
  BY DEF x, d
<1>10. \/ in = One(q = p) /\ new = One(q = p) /\ pins' = PinsAfterSubmit(s, p)
       \/ in = 0 /\ new = 0 /\ pins' = PinsAfterClose(s)
  BY DEF One
<1>11. own = One(q = sessions[s].snapshot)
  OBVIOUS
<1> HIDE DEF out, in, own, new
<1>12. out + own <= pins[q]
  BY <1>5, <1>6, <1>7, <1>8
<1>13. /\ PinsAfterSubmit(s, p)[q] = pins[q] + One(q = p) - out + One(q = p) - own
       /\ PinsAfterClose(s)[q] = pins[q] - out - own
  BY <1>9, <1>11, <1>12, SessionPins DEF TypeInv
<1>14. QED
  BY <1>5, <1>6, <1>7, <1>8, <1>10, <1>13

(* Which rows a session's handlers drop. *)
LEMMA CloseRows ==
    ASSUME TypeInv, NEW s \in Sessions, jobs' = CancelPending(s) \/ jobs' = CancelBoth(s)
    PROVE  /\ NoStart /\ (\A k \in Jobs : ~Entered(k))
           /\ \A k \in Jobs : Dropped(k) <=> Supersedes(s) /\ k = sessions[s].pending
<1> USE DEF TypeInv
<1> DEFINE x == sessions[s].pending
           y == sessions[s].running
           A == CancelPending(s)
<1>1. A \in [Jobs -> Job] /\ \A k \in Jobs : A[k].status = IF Supersedes(s) /\ k = x THEN "cancelled" ELSE jobs[k].status
  <2>1. CASE x = NoJob
    BY <2>1 DEF CancelPending, Supersedes, TypeOK
  <2>2. CASE x # NoJob
    <3>1. x \in Jobs /\ A = Transition(jobs, x, "queued", "cancelled")
      BY <2>2, PendingType DEF CancelPending
    <3>2. A \in [Jobs -> Job]
      BY SessionRowsType
    <3>3. Supersedes(s) <=> jobs[x].status = "queued"
      BY <2>2 DEF Supersedes
    <3> HIDE DEF A, x
    <3>4. QED
      BY <3>1, <3>2, <3>3 DEF Transition, SetStatus, TypeOK, Job
  <2>3. QED
    BY <2>1, <2>2
<1>2. \A k \in Jobs : \/ jobs'[k].status = A[k].status
                      \/ A[k].status = "running" /\ jobs'[k].status = "cancelled"
  <2>1. CASE jobs' = A
    BY <2>1
  <2>2. CASE jobs' = Transition(A, y, "running", "cancelled") /\ y \in Jobs
    <3> HIDE DEF A, y
    <3>1. QED
      BY <1>1, <2>2 DEF Transition, SetStatus, Job
  <2>3. StopsRunning(s) => y \in Jobs
    BY DEF StopsRunning, Deferred, TypeOK
  <2>4. QED
    BY <2>1, <2>2, <2>3 DEF CancelBoth
<1>3. Supersedes(s) => x \in Jobs /\ jobs[x].status = "queued"
  BY PendingType DEF Supersedes
<1> HIDE DEF A, x
<1>4. \A k \in Jobs : Dropped(k) <=> Supersedes(s) /\ k = x
  BY <1>1, <1>2, <1>3 DEF Dropped
<1>5. NoStart /\ \A k \in Jobs : ~Entered(k)
  BY <1>1, <1>2 DEF NoStart, Entered
<1>6. QED
  BY <1>4, <1>5 DEF x

(* A revision enters for its job, and the one it supersedes leaves. *)
LEMMA SubmitRows ==
    ASSUME TypeInv, NEW s \in Sessions, NEW j \in Jobs, NEW p \in Snapshots, SubmitRevision(s, j, p)
    PROVE  /\ NoStart /\ Entered(j) /\ jobs'[j].snapshot = p /\ (\A k \in Jobs : Entered(k) => k = j)
           /\ \A k \in Jobs : Dropped(k) <=> Supersedes(s) /\ k = sessions[s].pending
<1> USE DEF TypeInv
<1> DEFINE x == sessions[s].pending
           row == NewRevision(s, j, p)
<1>1. jobs[j].status = "none" /\ jobs' = IF Supersedes(s) THEN Transition(row, x, "queued", "cancelled") ELSE row
  BY DEF SubmitRevision, AdmitRevision, Fresh
<1>2. /\ row \in [Jobs -> Job] /\ row[j].status = "queued" /\ row[j].snapshot = p
      /\ \A k \in Jobs \ {j} : row[k] = jobs[k]
  <2>1. NewRow(p, s, sessions[s].revision + 1) \in Job
    BY NewRowType DEF TypeOK, Session
  <2>2. QED
    BY <2>1 DEF NewRevision, NewRow, TypeOK
<1>3. Supersedes(s) => x \in Jobs /\ x # j /\ jobs[x].status = "queued"
  BY <1>1, PendingType DEF Supersedes
<1> HIDE DEF row, x
<1>4. \A k \in Jobs : /\ jobs'[k].snapshot = row[k].snapshot
                      /\ jobs'[k].status = IF Supersedes(s) /\ k = x THEN "cancelled" ELSE row[k].status
  <2>1. CASE Supersedes(s)
    BY <1>1, <1>2, <1>3, <2>1 DEF Transition, SetStatus, Job
  <2>2. CASE ~Supersedes(s)
    BY <1>1, <2>2
  <2>3. QED
    BY <2>1, <2>2
<1>5. NoStart /\ Entered(j) /\ jobs'[j].snapshot = p /\ \A k \in Jobs : Entered(k) => k = j
  BY <1>1, <1>2, <1>3, <1>4 DEF NoStart, Entered
<1>6. \A k \in Jobs : Dropped(k) <=> Supersedes(s) /\ k = x
  BY <1>1, <1>2, <1>3, <1>4 DEF Dropped
<1>7. QED
  BY <1>5, <1>6 DEF x

(* A session pins its newest snapshot and returns the one before. *)
LEMMA SessionNextPins ==
    ASSUME CleanFailures, TypeInv, TypeInv', TokenInv, GateInv, PinInv, Next, ~Restart, SessionNext
    PROVE  PinInv'
<1> USE DEF TypeInv
<1>1. Steady
  BY SessionNextStill, SteadyStill
<1>2. sessions' = sessions => OwnersStill
  BY OwnersQuiet DEF PinInv
<1>3. jobs' = jobs => RowsStill
  BY DEF RowsStill, NoStart, Dropped, Entered
<1>4. ASSUME RowsStill, OwnersStill, pins' = pins
      PROVE  PinInv'
  BY <1>1, <1>4, PinQuiet DEF RowsStill
<1>5. ASSUME NEW s \in Sessions, CreateSession(s)
      PROVE  PinInv'
  <2>1. /\ sessions[s].status = "none" /\ \A r \in Sessions \ {s} : sessions'[r] = sessions[r]
        /\ sessions'[s].snapshot = NoSnapshot
    BY <1>5 DEF CreateSession, NoLease, TypeOK
  <2>2. IsFiniteSet(LiveSessions')
    <3> DEFINE L == LiveSessions
               K == LiveSessions'
    <3>1. IsFiniteSet(L) /\ \A r : r # s => (r \in K <=> r \in L)
      BY <2>1 DEF LiveSessions, PinInv
    <3> HIDE DEF L, K
    <3>2. IsFiniteSet(K)
      BY <3>1, ChangeOne
    <3>3. QED
      BY <3>2 DEF K
  <2>3. \A q \in Snapshots : Owners(q)' = Owners(q)
    BY <2>1, JobManagerAssumption DEF Owners, LiveSessions
  <2>4. OwnersStill
    BY <2>2, <2>3 DEF OwnersStill
  <2>5. QED
    BY <1>3, <1>4, <1>5, <2>4 DEF CreateSession
<1>6. ASSUME NEW s \in Sessions, RenewSession(s) \/ LeaseTick(s)
      PROVE  PinInv'
  <2>1. \A r \in Sessions : sessions'[r].status = sessions[r].status /\ sessions'[r].snapshot = sessions[r].snapshot
    <3>1. PICK l : sessions' = [sessions EXCEPT ![s].lease = l]
      BY <1>6 DEF RenewSession, LeaseTick
    <3>2. sessions \in [Sessions -> Session]
      BY DEF TypeOK
    <3>3. QED
      BY <3>1, <3>2 DEF Session
  <2>2. OwnersStill
    BY <2>1, OwnersQuiet DEF PinInv
  <2>3. QED
    BY <1>3, <1>4, <1>6, <2>2 DEF RenewSession, LeaseTick
<1>7. ASSUME NEW s \in Sessions, NEW j \in Jobs, NEW p \in Snapshots, SubmitRevision(s, j, p)
      PROVE  PinInv'
  <2> DEFINE S == [sessions[s] EXCEPT !.revision = @ + 1, !.pending = j, !.snapshot = p, !.lease = LeaseTTL]
  <2>1. ScheduleSession(s, S) /\ sessions[s].status = "live" /\ pins' = PinsAfterSubmit(s, p)
    BY <1>7 DEF SubmitRevision, AdmitRevision, LeaseHeld
  <2>2. S \in Session /\ S.status = "live" /\ S.snapshot = p
    <3>1. sessions[s] \in Session /\ LeaseTTL \in 0 .. LeaseTTL /\ sessions[s].revision + 1 \in Nat
      BY JobManagerAssumption DEF TypeOK, Session
    <3>2. S \in Session
      BY <3>1 DEF Session
    <3>3. S.status = sessions[s].status /\ S.snapshot = p
      BY <3>1 DEF Session
    <3>4. QED
      BY <2>1, <3>2, <3>3
  <2> HIDE DEF S
  <2>3. /\ \A r \in Sessions \ {s} : sessions'[r] = sessions[r]
        /\ sessions'[s].status = "live" /\ sessions'[s].snapshot = p
    BY <2>1, <2>2, ScheduleSnapshot
  <2>4. /\ NoStart /\ Entered(j) /\ jobs'[j].snapshot = p /\ (\A k \in Jobs : Entered(k) => k = j)
        /\ \A k \in Jobs : Dropped(k) <=> Supersedes(s) /\ k = sessions[s].pending
    BY <1>7, SubmitRows
  <2>5. QED
    BY <1>1, <2>1, <2>3, <2>4, SwapPins
<1>8. ASSUME NEW s \in Sessions, ClosePendingLost(s) \/ \E j \in Jobs, p \in Snapshots : SubmitLost(s, j, p)
      PROVE  PinInv'
  BY <1>8, CallClean DEF SubmitLost, ClosePendingLost
<1>9. ASSUME NEW s \in Sessions, NEW j \in Jobs, NEW p \in Snapshots, NEW o \in {"fail", "lost"}, NEW r \in Outcomes,
             SubmitFailed(s, j, p, o, r)
      PROVE  PinInv'
  <2>1. o = "fail" /\ r \in {"ok", "fail"} /\ jobs[j].status = "none" /\ sessions' = sessions
    BY <1>9 DEF SubmitFailed, CleanFailures, AdmitRevision, Fresh
  <2> DEFINE row == NewRevision(s, j, p)
  <2>2. /\ row \in [Jobs -> Job] /\ row[j].status = "queued" /\ row[j].snapshot = p
        /\ \A k \in Jobs \ {j} : row[k] = jobs[k]
    <3>1. NewRow(p, s, sessions[s].revision + 1) \in Job
      BY NewRowType DEF TypeOK, Session
    <3>2. QED
      BY <3>1 DEF NewRevision, NewRow, TypeOK
  <2>3. /\ jobs' = IF r = "fail" THEN row ELSE SetStatus(row, j, "cancelled")
        /\ pins' = IF r = "ok" THEN pins ELSE Pin(pins, p)
    BY <1>9, <2>1 DEF SubmitFailed
  <2> HIDE DEF row
  <2>4. CASE r = "ok"
    <3>1. jobs'[j].status = "cancelled" /\ \A k \in Jobs \ {j} : jobs'[k] = jobs[k]
      BY <2>2, <2>3, <2>4 DEF SetStatus, Job
    <3>2. RowsStill
      BY <2>1, <3>1 DEF RowsStill, NoStart, Dropped, Entered
    <3>3. QED
      BY <1>2, <1>4, <2>1, <2>3, <2>4, <3>2
  <2>5. CASE r = "fail"
    <3>1. jobs'[j].status = "queued" /\ jobs'[j].snapshot = p /\ \A k \in Jobs \ {j} : jobs'[k] = jobs[k]
      BY <2>2, <2>3, <2>5
    <3>2. NoStart /\ Entered(j) /\ ~Dropped(j) /\ \A k \in Jobs \ {j} : ~Dropped(k) /\ ~Entered(k)
      BY <2>1, <3>1 DEF NoStart, Dropped, Entered
    <3>3. QED
      BY <1>1, <1>2, <2>1, <2>3, <2>5, <3>1, <3>2, PinQuiet
  <2>6. QED
    BY <2>1, <2>4, <2>5
<1>10. ASSUME NEW s \in Sessions, CloseSession(s)
       PROVE  PinInv'
  <2>1. jobs' = CancelBoth(s) /\ pins' = PinsAfterClose(s) /\ sessions[s].status = "live"
    BY <1>10 DEF CloseSession, ClosePrecondition
  <2>2. sessions'[s].status # "live" /\ \A r \in Sessions \ {s} : sessions'[r] = sessions[r]
    BY <1>10 DEF CloseSession, ClosedLease, NoLease, TypeOK
  <2>3. /\ NoStart /\ (\A k \in Jobs : ~Entered(k))
        /\ \A k \in Jobs : Dropped(k) <=> Supersedes(s) /\ k = sessions[s].pending
    BY <2>1, CloseRows
  <2>4. CASE Snapshots = {}
    <3>1. PinExact'
      BY <2>4 DEF PinExact
    <3>2. RunningOwned'
      BY <1>1, <2>3, OwnedStill DEF PinInv
    <3>3. IsFiniteSet(LiveSessions)'
      BY <2>1, <2>2, OwnersSwap DEF PinInv
    <3>4. QED
      BY <3>1, <3>2, <3>3 DEF PinInv
  <2>5. CASE Snapshots # {}
    BY <1>1, <2>1, <2>2, <2>3, <2>5, SwapPins
  <2>6. QED
    BY <2>4, <2>5
<1>11. ASSUME NEW s \in Sessions, NEW o \in {"fail", "lost"}, CloseRunningFailed(s, o)
       PROVE  PinInv'
  <2>1. /\ jobs' = CancelPending(s) /\ sessions' = sessions
        /\ pins' = IF Supersedes(s) THEN Release(pins, jobs[sessions[s].pending].snapshot) ELSE pins
    BY <1>11, CallClean DEF CloseRunningFailed
  <2>2. /\ NoStart /\ (\A k \in Jobs : ~Entered(k))
        /\ \A k \in Jobs : Dropped(k) <=> Supersedes(s) /\ k = sessions[s].pending
    BY <2>1, CloseRows
  <2>3. CASE Supersedes(s)
    <3>1. sessions[s].pending \in Jobs
      BY <2>3, PendingType DEF Supersedes
    <3>2. QED
      BY <1>1, <1>2, <2>1, <2>2, <2>3, <3>1, PinQuiet
  <2>4. CASE ~Supersedes(s)
    BY <1>2, <1>4, <2>1, <2>2, <2>4 DEF RowsStill
  <2>5. QED
    BY <2>3, <2>4
<1>12. QED
  BY <1>5, <1>6, <1>7, <1>8, <1>9, <1>10, <1>11 DEF SessionNext

-----------------------------------------------------------------------------
(* Start pins exactly the rows it feeds to the workers. *)
LEMMA RestartPins ==
    ASSUME CleanFailures, TypeInv, Restart
    PROVE  PinInv'
<1> USE DEF TypeInv
<1>1. /\ completions' = [j \in Jobs |-> NoCompletion] /\ worker' = [w \in Workers |-> IdleWorker]
      /\ sessions' = [s \in Sessions |-> IF sessions[s].status = "live" THEN ClosedLease ELSE sessions[s]]
      /\ RestartListed({}) \/ (~Durable /\ RestartBlind)
  BY DEF Restart, CleanFailures
<1>2. \A j \in Jobs : ~Compiles(j)' /\ completions'[j].from # "running"
  BY <1>1 DEF Compiles, IdleWorker, NoCompletion
<1>3. LiveSessions' = {}
  BY <1>1 DEF LiveSessions, ClosedLease, NoLease, TypeOK
<1>4. IsFiniteSet(LiveSessions)' /\ \A q \in Snapshots : Owners(q)' = {}
  BY <1>3, FS_EmptySet DEF Owners
<1>5. \A j \in Jobs : HoldsPin(j)' <=> jobs'[j].status \in Pending
  BY <1>2 DEF HoldsPin, Compiles
<1>6. CASE RestartListed({})
  <2> DEFINE kept == {j \in PendingRows : Resumes(j)}
  <2>1. /\ jobs' = [j \in Jobs |-> IF j \in PendingRows
                      THEN [jobs[j] EXCEPT !.status = RecoveredStatusAtStart(j)] ELSE jobs[j]]
        /\ pins' = [p \in Snapshots |-> Cardinality({j \in kept : jobs[j].snapshot = p})]
    BY <1>6 DEF RestartListed
  <2>2. \A j \in Jobs : /\ jobs'[j].snapshot = jobs[j].snapshot
                        /\ jobs'[j].status = IF j \in PendingRows THEN RecoveredStatusAtStart(j) ELSE jobs[j].status
    BY <2>1 DEF TypeOK, Job
  <2>3. \A j \in Jobs : /\ jobs'[j].status # "running"
                        /\ jobs'[j].status \in Pending <=> j \in kept
    BY <2>2 DEF RecoveredStatusAtStart, Resumes, PendingRows, Pending
  <2>4. \A q \in Snapshots : Holders(q)' = {j \in kept : jobs[j].snapshot = q}
    <3>1. SUFFICES ASSUME NEW q \in Snapshots PROVE Holders(q)' = {j \in kept : jobs[j].snapshot = q}
      OBVIOUS
    <3>2. Holders(q)' = {j \in Jobs : HoldsPin(j)' /\ jobs'[j].snapshot = q}
      BY DEF Holders
    <3>3. kept \subseteq Jobs
      BY DEF PendingRows
    <3> HIDE DEF kept
    <3>4. QED
      BY <1>5, <2>2, <2>3, <3>2, <3>3
  <2>5. \A q \in Snapshots : pins'[q] = Cardinality(Holders(q)') /\ Cardinality(Holders(q)') \in Nat
    <3>1. \A q \in Snapshots : pins'[q] = Cardinality(Holders(q)')
      BY <2>1, <2>4
    <3>2. \A q \in Snapshots : Holders(q)' \in SUBSET Jobs
      BY DEF Holders
    <3>3. QED
      BY <3>1, <3>2, JobSets
  <2>6. \A q \in Snapshots : pins'[q] = Cardinality(Holders(q)') + Cardinality(Owners(q)')
    BY <1>4, <2>5, FS_EmptySet
  <2>7. PinExact' /\ RunningOwned'
    BY <2>3, <2>6 DEF PinExact, Holders, Owners, RunningOwned
  <2>8. QED
    BY <1>4, <2>7 DEF PinInv
<1>7. CASE ~Durable /\ RestartBlind
  <2>1. \A j \in Jobs : jobs'[j].status \in {"none", "deleted"}
    BY <1>7 DEF RestartBlind, TypeOK, Job
  <2>2. \A q \in Snapshots : Holders(q)' = {}
    BY <1>5, <2>1 DEF Holders, Pending
  <2>3. \A q \in Snapshots : pins'[q] = Cardinality(Holders(q)') + Cardinality(Owners(q)')
    BY <1>4, <1>7, <2>2, FS_EmptySet DEF RestartBlind
  <2>4. PinExact' /\ RunningOwned'
    BY <2>1, <2>3 DEF PinExact, Holders, Owners, RunningOwned
  <2>5. QED
    BY <1>4, <2>4 DEF PinInv
<1>8. QED
  BY <1>1, <1>6, <1>7

(* No pin at the start. *)
LEMMA InitPins == Init => PinInv
<1>1. SUFFICES ASSUME Init PROVE PinInv
  OBVIOUS
<1>2. LiveSessions = {} /\ \A q \in Snapshots : Owners(q) = {}
  BY <1>1 DEF Init, NoLease, LiveSessions, Owners
<1>3. \A j \in Jobs : jobs[j].status = "none" /\ completions[j].from = "none" /\ ~Compiles(j)
  BY <1>1 DEF Init, NoRow, NoCompletion, IdleWorker, Compiles
<1>4. \A q \in Snapshots : Holders(q) = {}
  BY <1>3 DEF Holders, HoldsPin, Pending, Compiles
<1>5. \A q \in Snapshots : pins[q] = Cardinality(Holders(q)) + Cardinality(Owners(q))
  <2>1. Cardinality({}) = 0 /\ \A q \in Snapshots : pins[q] = 0
    BY <1>1, FS_EmptySet DEF Init
  <2>2. SUFFICES ASSUME NEW q \in Snapshots PROVE pins[q] = Cardinality(Holders(q)) + Cardinality(Owners(q))
    OBVIOUS
  <2>3. Cardinality(Holders(q)) = 0 /\ Cardinality(Owners(q)) = 0
    BY <1>2, <1>4, <2>1
  <2>4. QED
    BY <2>1, <2>3
<1>6. QED
  BY <1>2, <1>3, <1>5, FS_EmptySet DEF PinInv, PinExact, Holders, Owners, RunningOwned

(* One case per actor. *)
LEMMA NextPins ==
    ASSUME CleanFailures
    PROVE  TypeInv /\ TypeInv' /\ TokenInv /\ GateInv /\ PinInv /\ [Next]_vars => PinInv'
<1>1. SUFFICES ASSUME TypeInv, TypeInv', TokenInv, GateInv, PinInv, [Next]_vars PROVE PinInv'
  OBVIOUS
<1> USE <1>1
<1>2. CASE UNCHANGED vars
  <2>1. RunningOwned' /\ PinExact' /\ LiveSessions' = LiveSessions
    BY <1>2 DEF vars, PinInv, RunningOwned, Compiles, PinExact, HoldsPin, LiveSessions
  <2>2. QED
    BY <2>1 DEF PinInv
<1>3. CASE Next /\ Restart
  BY <1>3, RestartPins
<1>4. CASE Next /\ ~Restart
  BY <1>4, ClientPins, SessionNextPins, WorkerPins, RecoveryPins DEF Next
<1>5. QED
  BY <1>2, <1>3, <1>4

(* While failed database calls have no effect, the reference count of every *)
(* snapshot is the number of its owners: whatever is cancelled, superseded, *)
(* closed, deferred, recovered or restarted, no pin is forgotten and none   *)
(* is returned twice.                                                       *)
THEOREM PinExactHolds ==
    ASSUME CleanFailures
    PROVE  Spec => []PinExact
<1>1. PinInv => PinExact
  BY DEF PinInv
<1>2. TypeInv /\ TypeInv' /\ TokenInv /\ GateInv /\ PinInv /\ [Next]_vars => PinInv'
  BY NextPins
<1>3. QED
  BY InitType, NextType, InitTokens, NextTokens, InitGates, NextGates, InitPins, <1>1, <1>2, PTL DEF Spec
=============================================================================
