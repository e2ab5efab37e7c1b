------------------------- MODULE JobManagerProofs -------------------------
(***************************************************************************)
(* Proofs about JobManager for every set of workers, sessions and          *)
(* snapshots, every bound and every pattern of database failures: the      *)
(* types, then the tokens (SoleToken), the rows (TerminalStable and        *)
(* PendingNotStarted) and the publication gates (DeferredHasRow,           *)
(* OpenGateFinal and the lifecycle that JobManager implements).            *)
(* JobSessionProofs goes on with the sessions and the source pins.         *)
(***************************************************************************)
EXTENDS JobManager, FiniteSetTheorems, TLAPS

(* What a worker and the recovery goroutine hold at each program counter:   *)
(* a session token is only ever held by a worker about to take the session. *)
WorkerHolds ==
    \A w \in Workers :
        /\ worker[w].pc \in {"idle", "forget"} => worker[w].token = NoJob
        /\ worker[w].pc = "take" => worker[w].token \in Sessions
        /\ worker[w].pc \notin {"idle", "take", "forget"} => worker[w].token \in Jobs
RecoveryHolds == recovery.pc # "idle" => recovery.job \in Jobs

TypeInv == TypeOK /\ WorkerHolds /\ RecoveryHolds
-----------------------------------------------------------------------------
(* The operators the actions are built from return well-typed values. *)

(* SetStatus and Transition keep a table of rows a table of rows. *)
LEMMA SetStatusType ==
    ASSUME NEW js \in [Jobs -> Job], NEW j \in Jobs, NEW st \in Status
    PROVE  SetStatus(js, j, st) \in [Jobs -> Job]
BY DEF SetStatus, Job

(* So does a transition, whether it hits or misses. *)
LEMMA TransitionType ==
    ASSUME NEW js \in [Jobs -> Job], NEW j \in Jobs, NEW from, NEW to \in Status
    PROVE  Transition(js, j, from, to) \in [Jobs -> Job]
BY SetStatusType DEF Transition

(* Account keeps a table of rows a table of rows. *)
LEMMA AccountType ==
    ASSUME NEW js \in [Jobs -> Job], NEW j \in Jobs
    PROVE  Account(js, j) \in [Jobs -> Job]
BY DEF Account, Job

(* Pin and Release keep reference counts natural numbers. *)
LEMMA PinType ==
    ASSUME NEW p \in [Snapshots -> Nat], NEW s
    PROVE  /\ Pin(p, s) \in [Snapshots -> Nat]
           /\ Release(p, s) \in [Snapshots -> Nat]
<1>1. CASE s \in Snapshots
  <2>1. p[s] \in Nat
    BY <1>1
  <2>2. p[s] + 1 \in Nat /\ (IF p[s] = 0 THEN 0 ELSE p[s] - 1) \in Nat
    BY <2>1
  <2>3. QED
    BY <2>2 DEF Pin, Release
<1>2. CASE s \notin Snapshots
  <2>1. Pin(p, s) = p /\ Release(p, s) = p
    BY <1>2 DEF Pin, Release
  <2>2. QED
    BY <2>1
<1>3. QED
  BY <1>1, <1>2

(* A new row is a row. *)
LEMMA NewRowType ==
    ASSUME NEW p \in Snapshots, NEW s \in Sessions \cup {NoSession}, NEW r \in Nat
    PROVE  NewRow(p, s, r) \in Job
BY DEF NewRow, Job, Status, Pending

(* The statuses by name. *)
LEMMA StatusFacts ==
    /\ "queued" \in Status /\ "running" \in Status /\ "cancelled" \in Status
    /\ "succeeded" \in Status /\ "failed" \in Status /\ "none" \in Status
    /\ "deleted" \in Status
    /\ Terminal \subseteq Status /\ Pending \subseteq Status
BY DEF Status, Terminal, Pending

(* Sets of jobs are finite, so their cardinalities are natural numbers. *)
LEMMA JobSets ==
    ASSUME NEW S \in SUBSET Jobs
    PROVE  IsFiniteSet(S) /\ Cardinality(S) \in Nat
<1>1. IsFiniteSet(Jobs)
  BY JobManagerAssumption, FS_Interval DEF Jobs
<1>2. QED
  BY <1>1, FS_Subset, FS_CardinalityType

(* cancel's effect is well typed. *)
LEMMA CancelRowType ==
    ASSUME TypeOK, NEW j \in Jobs, NEW o, CancelRow(j, o)
    PROVE  /\ jobs' \in [Jobs -> Job]
           /\ pins' \in [Snapshots -> Nat]
           /\ publications' \in SUBSET Jobs
BY TransitionType, PinType, StatusFacts DEF TypeOK, CancelRow, EndPublication

(* Scheduling a session record keeps the channel and the table typed. *)
LEMMA ScheduleSessionType ==
    ASSUME TypeOK, NEW s \in Sessions, NEW S \in Session, ScheduleSession(s, S)
    PROVE  /\ sessions' \in [Sessions -> Session]
           /\ queue' \in Seq(Jobs \cup Sessions)
<1>1. [S EXCEPT !.scheduled = @ \/ CanSchedule(S)] \in Session
  BY DEF Session, CanSchedule
<1>2. sessions' \in [Sessions -> Session]
  BY <1>1 DEF ScheduleSession, TypeOK
<1>3. queue' \in Seq(Jobs \cup Sessions)
  BY DEF ScheduleSession, TypeOK
<1>4. QED
  BY <1>2, <1>3

(* finishSession keeps the channel and the table typed. *)
LEMMA FinishSessionType ==
    ASSUME TypeOK, NEW j \in Jobs, NEW known, FinishSession(j, known)
    PROVE  /\ sessions' \in [Sessions -> Session]
           /\ queue' \in Seq(Jobs \cup Sessions)
<1> DEFINE s == jobs[j].session
           final == FinalStatus(j, known)
           S == [sessions[s] EXCEPT !.running = NoJob,
                                    !.lastOk = IF final = "succeeded" THEN j ELSE @]
<1>1. CASE j \notin Deferred /\ final \in Terminal /\ OwnsSlot(j)
  <2>1. s \in Sessions
    BY <1>1 DEF OwnsSlot, LiveSessions
  <2>2. S \in Session
    <3>1. sessions[s] \in Session
      BY <2>1 DEF TypeOK
    <3>2. QED
      BY <3>1 DEF Session, NoJob
  <2>3. ScheduleSession(s, S)
    BY <1>1 DEF FinishSession
  <2>4. QED
    BY <2>1, <2>2, <2>3, ScheduleSessionType
<1>2. CASE ~(j \notin Deferred /\ final \in Terminal /\ OwnsSlot(j))
  BY <1>2 DEF FinishSession, TypeOK
<1>3. QED
  BY <1>1, <1>2

(* A worker that moves on with its job in hand stays well typed. *)
LEMMA GotoType ==
    ASSUME TypeInv, NEW w \in Workers, NEW pc \in WorkerPC \ {"idle", "take", "forget"},
           NEW known \in Status, Goto(w, pc, known), worker[w].token \in Jobs
    PROVE  worker' \in [Workers -> Worker] /\ WorkerHolds'
<1>1. worker[w] \in Worker
  BY DEF TypeInv, TypeOK
<1>2. worker'[w] = [pc |-> pc, token |-> worker[w].token, known |-> known]
  BY <1>1 DEF Goto, TypeInv, TypeOK, Worker
<1>3. worker'[w] \in Worker
  BY <1>2 DEF Worker
<1>4. worker' = [worker EXCEPT ![w] = worker'[w]]
  BY <1>1, <1>2 DEF Goto, TypeInv, TypeOK, Worker
<1>5. worker' \in [Workers -> Worker]
  BY <1>3, <1>4 DEF TypeInv, TypeOK
<1>6. WorkerHolds'
  <2>1. \A v \in Workers : v # w => worker'[v] = worker[v]
    BY <1>4 DEF TypeInv, TypeOK
  <2>2. worker'[w].pc = pc /\ worker'[w].token \in Jobs
    BY <1>2
  <2>3. QED
    BY <2>1, <2>2 DEF TypeInv, WorkerHolds
<1>7. QED
  BY <1>5, <1>6

(* So does one that returns to the channel. *)
LEMMA IdleType ==
    ASSUME TypeInv, NEW w \in Workers, Idle(w)
    PROVE  worker' \in [Workers -> Worker] /\ WorkerHolds'
<1>1. IdleWorker \in Worker
  BY StatusFacts DEF IdleWorker, Worker, WorkerPC
<1>2. worker' \in [Workers -> Worker]
  BY <1>1 DEF Idle, TypeInv, TypeOK
<1>3. WorkerHolds'
  BY DEF Idle, IdleWorker, TypeInv, TypeOK, WorkerHolds
<1>4. QED
  BY <1>2, <1>3

(* A worker that has sent its job back holds nothing. *)
LEMMA RequeueType ==
    ASSUME TypeInv, NEW w \in Workers, Requeue(w)
    PROVE  /\ worker' \in [Workers -> Worker] /\ WorkerHolds'
           /\ worker'[w].pc \in {"idle", "forget"} /\ worker'[w].token = NoJob
           /\ \A v \in Workers \ {w} : worker'[v] = worker[v]
<1>1. \E pc \in {"idle", "forget"} :
         worker' = [worker EXCEPT ![w] = [pc |-> pc, token |-> NoJob, known |-> "none"]]
  <2>0. [IdleWorker EXCEPT !.pc = "forget"] = [pc |-> "forget", token |-> NoJob, known |-> "none"]
    BY DEF IdleWorker
  <2>1. CASE worker[w].known = "running"
    BY <2>0, <2>1 DEF Requeue
  <2>2. CASE worker[w].known # "running"
    BY <2>2 DEF Requeue, IdleWorker
  <2>3. QED
    BY <2>1, <2>2
<1>2. \A pc \in {"idle", "forget"} : [pc |-> pc, token |-> NoJob, known |-> "none"] \in Worker
  BY StatusFacts DEF Worker, WorkerPC
<1>3. worker' \in [Workers -> Worker] /\ \A v \in Workers \ {w} : worker'[v] = worker[v]
  BY <1>1, <1>2 DEF TypeInv, TypeOK
<1>4. worker'[w].pc \in {"idle", "forget"} /\ worker'[w].token = NoJob
  BY <1>1 DEF TypeInv, TypeOK
<1>5. WorkerHolds'
  BY <1>3, <1>4 DEF TypeInv, WorkerHolds
<1>6. QED
  BY <1>3, <1>4, <1>5

(* A worker past the channel holds a job. *)
LEMMA HeldJob ==
    ASSUME TypeInv, NEW w \in Workers, worker[w].pc \notin {"idle", "take", "forget"}
    PROVE  /\ worker[w].token \in Jobs
           /\ jobs[worker[w].token] \in Job
           /\ jobs[worker[w].token].status \in Status
           /\ worker[w].known \in Status
<1>1. worker[w] \in Worker /\ worker[w].token \in Jobs
  BY DEF TypeInv, TypeOK, WorkerHolds
<1>2. jobs[worker[w].token] \in Job
  BY <1>1 DEF TypeInv, TypeOK
<1>3. QED
  BY <1>1, <1>2 DEF Worker, Job

(* One database call counts at most one failure. *)
LEMMA DbCallType ==
    ASSUME TypeOK, NEW o, DbCall(o)
    PROVE  faults' \in Nat
BY DEF DbCall, TypeOK

(* The empty, the closed and the new session record are session records. *)
LEMMA LeaseType ==
    /\ NoLease \in Session
    /\ ClosedLease \in Session
    /\ [NoLease EXCEPT !.status = "live", !.lease = LeaseTTL] \in Session
<1>1. NoLease \in Session
  BY JobManagerAssumption DEF NoLease, Session, NoJob
<1>2. 0 .. LeaseTTL \subseteq Nat /\ LeaseTTL \in 0 .. LeaseTTL
  BY JobManagerAssumption
<1>3. ClosedLease \in Session
  BY <1>1 DEF ClosedLease, Session
<1>4. [NoLease EXCEPT !.status = "live", !.lease = LeaseTTL] \in Session
  BY <1>1, <1>2 DEF Session
<1>5. QED
  BY <1>1, <1>3, <1>4

-----------------------------------------------------------------------------
(* Type correctness. *)

(* The initial state is well typed. *)
LEMMA InitType == Init => TypeInv
<1>1. NoRow \in Job /\ NoLease \in Session /\ IdleWorker \in Worker /\ IdleRecovery \in Recovery
  BY JobManagerAssumption, StatusFacts
     DEF NoRow, Job, NoLease, Session, IdleWorker, Worker, WorkerPC, IdleRecovery, Recovery,
         NoJob, NoSession
<1>2. QED
  BY <1>1 DEF Init, TypeInv, TypeOK, WorkerHolds, RecoveryHolds, Completion, IdleWorker,
              IdleRecovery

(* Requests for ordinary jobs keep the state well typed. *)
LEMMA ClientType ==
    ASSUME TypeInv, ClientNext
    PROVE  TypeInv'
<1> USE DEF TypeInv
<1>1. ASSUME NEW j \in Jobs, NEW p \in Snapshots, NEW o \in Outcomes, Enqueue(j, p, o)
      PROVE  TypeInv'
  <2>1. jobs' \in [Jobs -> Job]
    BY <1>1, NewRowType, JobManagerAssumption DEF Enqueue, TypeOK
  <2>2. queue' \in Seq(Jobs \cup Sessions)
    <3>1. queue \in Seq(Jobs \cup Sessions) /\ j \in Jobs \cup Sessions
      BY DEF TypeOK
    <3>2. queue' = queue \/ queue' = Append(queue, j)
      BY <1>1 DEF Enqueue
    <3>3. QED
      BY <3>1, <3>2
  <2>3. pins' \in [Snapshots -> Nat] /\ faults' \in Nat
    BY <1>1, PinType, DbCallType DEF Enqueue, TypeOK
  <2>4. publications' \subseteq Jobs /\ unsent' \subseteq Jobs
    BY <1>1 DEF Enqueue, TypeOK, UnsentAfter
  <2>5. QED
    BY <1>1, <2>1, <2>2, <2>3, <2>4 DEF Enqueue, TypeOK, WorkerHolds, RecoveryHolds, asideVars
<1>2. ASSUME NEW j \in Jobs, NEW o \in Outcomes, CancelQueued(j, o)
      PROVE  TypeInv'
  BY <1>2, CancelRowType, DbCallType
     DEF CancelQueued, TypeOK, WorkerHolds, RecoveryHolds, asideVars
<1>3. ASSUME NEW j \in Jobs, NEW o \in Outcomes, CancelRunning(j, o)
      PROVE  TypeInv'
  BY <1>3, TransitionType, StatusFacts, DbCallType
     DEF CancelRunning, TypeOK, WorkerHolds, RecoveryHolds, asideVars
<1>4. CASE CleanupProject
  <2>1. jobs' \in [Jobs -> Job]
    <3>1. \A j \in Jobs : jobs[j] \in Job /\ [jobs[j] EXCEPT !.status = "deleted"] \in Job
      BY StatusFacts DEF TypeOK, Job
    <3>2. QED
      BY <1>4, <3>1 DEF CleanupProject
  <2>2. QED
    BY <1>4, <2>1 DEF CleanupProject, TypeOK, WorkerHolds, RecoveryHolds, asideVars
<1>5. QED
  BY <1>1, <1>2, <1>3, <1>4 DEF ClientNext

(* The tasks in the background and a restart keep the state well typed. *)
LEMMA BackgroundType ==
    ASSUME TypeInv, BackgroundNext
    PROVE  TypeInv'
<1> USE DEF TypeInv
<1>1. ASSUME NEW j \in Jobs, NEW o \in Outcomes, CancelUnsent(j, o)
      PROVE  TypeInv'
  BY <1>1, CancelRowType, DbCallType
     DEF CancelUnsent, TypeOK, WorkerHolds, RecoveryHolds, asideVars
<1>2. ASSUME NEW j \in Jobs, FeedRecovered(j)
      PROVE  TypeInv'
  BY <1>2 DEF FeedRecovered, Fed, TypeOK, WorkerHolds, RecoveryHolds
<1>3. ASSUME NEW j \in Jobs, PruneTerminal(j)
      PROVE  TypeInv'
  BY <1>3, SetStatusType, StatusFacts
     DEF PruneTerminal, TypeOK, WorkerHolds, RecoveryHolds, asideVars
<1>4. ASSUME NEW s \in Sessions, MaintainSession(s)
      PROVE  TypeInv'
  <2>1. sessions[s] \in Session
    BY DEF TypeOK
  <2>2. QED
    BY <1>4, <2>1, ScheduleSessionType
       DEF MaintainSession, TypeOK, WorkerHolds, RecoveryHolds, asideVars
<1>5. CASE Restart
  <2>1. ASSUME NEW bad \in SUBSET Jobs, RestartListed(bad)
        PROVE  /\ jobs' \in [Jobs -> Job] /\ faults' \in Nat /\ recovering' \subseteq Jobs
               /\ publications' \subseteq Jobs /\ pins' \in [Snapshots -> Nat]
    <3>1. jobs' \in [Jobs -> Job]
      <4>1. \A j \in Jobs : /\ jobs[j] \in Job /\ RecoveredStatusAtStart(j) \in Status
                            /\ [jobs[j] EXCEPT !.status = RecoveredStatusAtStart(j)] \in Job
        BY StatusFacts DEF RecoveredStatusAtStart, TypeOK, Job
      <4>2. QED
        BY <2>1, <4>1 DEF RestartListed
    <3>2. faults' \in Nat
      <4>1. faults \in Nat /\ Cardinality(bad) \in Nat
        BY JobSets DEF TypeOK
      <4>2. QED
        BY <2>1, <4>1 DEF RestartListed
    <3>3. \A p \in Snapshots : pins'[p] \in Nat
      BY <2>1, JobSets DEF RestartListed, PendingRows
    <3>4. QED
      BY <2>1, <3>1, <3>2, <3>3 DEF RestartListed, PendingRows
  <2>2. ASSUME RestartBlind
        PROVE  /\ jobs' \in [Jobs -> Job] /\ faults' \in Nat /\ recovering' \subseteq Jobs
               /\ publications' \subseteq Jobs /\ pins' \in [Snapshots -> Nat]
    <3>1. jobs' \in [Jobs -> Job]
      <4>1. \A j \in Jobs : jobs[j] \in Job /\ [jobs[j] EXCEPT !.status = "deleted"] \in Job
        BY StatusFacts DEF TypeOK, Job
      <4>2. QED
        BY <2>2, <4>1 DEF RestartBlind, TypeOK
    <3>2. QED
      BY <2>2, <3>1 DEF RestartBlind, TypeOK
  <2>3. /\ jobs' \in [Jobs -> Job] /\ faults' \in Nat /\ recovering' \subseteq Jobs
        /\ publications' \subseteq Jobs /\ pins' \in [Snapshots -> Nat]
    BY <1>5, <2>1, <2>2 DEF Restart, PendingRows
  <2>4. ClosedLease \in Session
    BY LeaseType
  <2>5. sessions' \in [Sessions -> Session]
    BY <1>5, <2>4 DEF Restart, TypeOK
  <2>6. worker' \in [Workers -> Worker] /\ WorkerHolds' /\ recovery' \in Recovery /\ RecoveryHolds'
    BY <1>5, StatusFacts
       DEF Restart, IdleWorker, Worker, WorkerPC, WorkerHolds, IdleRecovery, Recovery, RecoveryHolds
  <2>7. completions' \in [Jobs -> Completion]
    BY <1>5 DEF Restart, Completion
  <2>8. QED
    BY <1>5, <2>3, <2>5, <2>6, <2>7 DEF Restart, TypeOK
<1>6. QED
  BY <1>1, <1>2, <1>3, <1>4, <1>5 DEF BackgroundNext

(* The recovery goroutine keeps the state well typed. *)
LEMMA RecoveryType ==
    ASSUME TypeInv, RecoveryNext
    PROVE  TypeInv'
<1> USE DEF TypeInv
<1>1. ASSUME NEW j \in Jobs, j \in Deferred
      PROVE  RecoveredRow(j) \in [Jobs -> Job] /\ RecoveredStatus(j) \in Status
  <2>1. completions[j] \in Completion /\ completions[j] # NoCompletion /\ jobs[j] \in Job
    BY <1>1 DEF TypeOK, Deferred, NoCompletion
  <2>2. completions[j].to \in Status /\ jobs[j].status \in Status
    BY <2>1, StatusFacts DEF Completion, Job
  <2>3. QED
    BY <2>2, TransitionType, AccountType DEF RecoveredRow, RecoveredStatus, TypeOK
<1>2. ASSUME NEW j \in Jobs, RetryCompletion(j)
      PROVE  TypeInv'
  <2>1. jobs' \in [Jobs -> Job] /\ RecoveredStatus(j) \in Status
    BY <1>1, <1>2 DEF RetryCompletion
  <2>2. completions' \in [Jobs -> Completion]
    BY <1>2 DEF RetryCompletion, Completion, TypeOK
  <2>3. pins' \in [Snapshots -> Nat]
    BY <1>2, PinType DEF RetryCompletion, TypeOK
  <2>4. recovery' \in Recovery /\ RecoveryHolds'
    BY <1>2, <2>1 DEF RetryCompletion, Recovery, RecoveryHolds
  <2>5. QED
    BY <1>2, <2>1, <2>2, <2>3, <2>4 DEF RetryCompletion, TypeOK, WorkerHolds, asideVars
<1>3. ASSUME NEW j \in Jobs, RetryLost(j)
      PROVE  TypeInv'
  BY <1>1, <1>3, DbCallType DEF RetryLost, TypeOK, WorkerHolds, RecoveryHolds, asideVars
<1>4. CASE RecoverSession
  <2>1. recovery.job \in Jobs
    BY <1>4 DEF RecoverSession, RecoveryHolds
  <2>2. sessions' \in [Sessions -> Session] /\ queue' \in Seq(Jobs \cup Sessions)
    BY <1>4, <2>1, FinishSessionType DEF RecoverSession
  <2>3. recovery' \in Recovery /\ RecoveryHolds'
    BY <1>4, <2>1 DEF RecoverSession, TypeOK, Recovery, RecoveryHolds
  <2>4. QED
    BY <1>4, <2>2, <2>3 DEF RecoverSession, TypeOK, WorkerHolds, asideVars
<1>5. CASE RecoverGate
  <2>1. recovery' \in Recovery /\ RecoveryHolds'
    BY <1>5, StatusFacts DEF RecoverGate, IdleRecovery, Recovery, RecoveryHolds
  <2>2. QED
    BY <1>5, <2>1 DEF RecoverGate, EndPublication, TypeOK, WorkerHolds, asideVars
<1>6. QED
  BY <1>2, <1>3, <1>4, <1>5 DEF RecoveryNext

(* The workers keep the state well typed. *)
LEMMA WorkerType ==
    ASSUME TypeInv, NEW w \in Workers, WorkerNext(w)
    PROVE  TypeInv'
<1> USE DEF TypeInv
<1>1. CASE Receive(w)
  <2>1. Head(queue) \in Jobs \cup Sessions /\ queue' \in Seq(Jobs \cup Sessions)
    BY <1>1 DEF Receive, TypeOK
  <2>2. worker'[w] \in Worker
    BY <1>1, <2>1, StatusFacts DEF Receive, Worker, WorkerPC, TypeOK
  <2>3. worker' \in [Workers -> Worker]
    BY <1>1, <2>2 DEF Receive, TypeOK
  <2>4. WorkerHolds'
    BY <1>1, <2>1 DEF Receive, TypeOK, WorkerHolds
  <2>5. QED
    BY <1>1, <2>1, <2>3, <2>4 DEF Receive, TypeOK, RecoveryHolds, asideVars
<1>2. CASE TakeSession(w)
  <2> DEFINE s == worker[w].token
             S == sessions[s]
             ready == S.running = NoJob /\ S.pending # NoJob
  <2>1. s \in Sessions /\ S \in Session
    BY <1>2 DEF TakeSession, WorkerHolds, TypeOK
  <2>2. Taken(S) \in Session /\ [S EXCEPT !.scheduled = FALSE] \in Session
    BY <2>1 DEF Taken, Session, NoJob
  <2>3. sessions' \in {sessions, [sessions EXCEPT ![s] = Taken(S)],
                        [sessions EXCEPT ![s] = [S EXCEPT !.scheduled = FALSE]]}
    BY <1>2, <2>1 DEF TakeSession
  <2>4. sessions' \in [Sessions -> Session]
    BY <2>2, <2>3 DEF TypeOK
  <2>5. CASE S.status = "live" /\ ready
    <3>1. S.pending \in Jobs
      BY <2>1, <2>5 DEF Session, NoJob
    <3>2. worker' = [worker EXCEPT ![w] = [pc |-> "load", token |-> S.pending, known |-> "none"]]
      BY <1>2, <2>5 DEF TakeSession
    <3>3. worker' \in [Workers -> Worker]
      BY <3>1, <3>2, StatusFacts DEF TypeOK, Worker, WorkerPC
    <3>4. WorkerHolds'
      BY <3>1, <3>2 DEF TypeOK, WorkerHolds
    <3>5. QED
      BY <1>2, <2>4, <3>3, <3>4 DEF TakeSession, TypeOK, RecoveryHolds, asideVars
  <2>6. CASE ~(S.status = "live" /\ ready)
    <3>1. Idle(w)
      BY <1>2, <2>6 DEF TakeSession, Idle
    <3>2. QED
      BY <1>2, <2>4, <3>1, IdleType DEF TakeSession, TypeOK, RecoveryHolds, asideVars
  <2>7. QED
    BY <2>5, <2>6
<1>3. ASSUME NEW o \in Outcomes, LoadJob(w, o)
      PROVE  TypeInv'
  <2>1. /\ worker[w].token \in Jobs /\ jobs[worker[w].token].status \in Status
    BY <1>3, HeldJob DEF LoadJob
  <2>2. worker' \in [Workers -> Worker] /\ WorkerHolds'
    BY <1>3, <2>1, GotoType, IdleType, StatusFacts DEF LoadJob, LoadFailed, WorkerPC
  <2>3. QED
    BY <1>3, <2>2, DbCallType DEF LoadJob, TypeOK, RecoveryHolds, asideVars
<1>4. ASSUME NEW o \in Outcomes, RejectJob(w, o)
      PROVE  TypeInv'
  <2>1. worker[w].token \in Jobs
    BY <1>4, HeldJob DEF RejectJob
  <2>2. worker' \in [Workers -> Worker] /\ WorkerHolds'
    BY <1>4, <2>1, GotoType, StatusFacts DEF RejectJob, WorkerPC
  <2>3. QED
    BY <1>4, <2>1, <2>2, CancelRowType, DbCallType DEF RejectJob, TypeOK, RecoveryHolds, asideVars
<1>5. ASSUME NEW o \in Outcomes, StartJob(w, o)
      PROVE  TypeInv'
  <2>1. worker[w].token \in Jobs
    BY <1>5, HeldJob DEF StartJob
  <2>2. worker' \in [Workers -> Worker] /\ WorkerHolds'
    BY <1>5, <2>1, GotoType, StatusFacts DEF StartJob, WorkerPC
  <2>3. jobs' \in [Jobs -> Job]
    BY <1>5, <2>1, TransitionType, StatusFacts DEF StartJob, TypeOK
  <2>4. QED
    BY <1>5, <2>1, <2>2, <2>3, DbCallType DEF StartJob, TypeOK, RecoveryHolds, asideVars
<1>6. ASSUME NEW out \in {"succeeded", "failed"}, NEW o \in Outcomes, FinishJob(w, out, o)
      PROVE  TypeInv'
  <2> DEFINE j == worker[w].token
  <2>1. j \in Jobs /\ jobs[j].status \in Status
    BY <1>6, HeldJob DEF FinishJob
  <2>2. out \in Status /\ FinishedStatus(j, out) \in Status
    BY <2>1, StatusFacts DEF FinishedStatus
  <2>3. worker' \in [Workers -> Worker] /\ WorkerHolds'
    BY <1>6, <2>1, <2>2, GotoType DEF FinishJob, WorkerPC
  <2>4. jobs' \in [Jobs -> Job]
    BY <1>6, <2>1, <2>2, TransitionType DEF FinishJob, TypeOK
  <2>5. completions' \in [Jobs -> Completion] /\ pins' \in [Snapshots -> Nat]
    BY <1>6, <2>1, PinType DEF FinishJob, Defer, Completion, TypeOK
  <2>6. QED
    BY <1>6, <2>3, <2>4, <2>5, DbCallType DEF FinishJob, TypeOK, RecoveryHolds, asideVars
<1>7. ASSUME NEW o \in Outcomes, PublishJob(w, o)
      PROVE  TypeInv'
  <2>1. worker[w].token \in Jobs
    BY <1>7, HeldJob DEF PublishJob
  <2>2. worker' \in [Workers -> Worker] /\ WorkerHolds'
    BY <1>7, <2>1, GotoType, StatusFacts DEF PublishJob, WorkerPC
  <2>3. jobs' \in [Jobs -> Job]
    BY <1>7, <2>1, AccountType DEF PublishJob, TypeOK
  <2>4. completions' \in [Jobs -> Completion]
    BY <1>7, <2>1 DEF PublishJob, Defer, Completion, TypeOK
  <2>5. QED
    BY <1>7, <2>2, <2>3, <2>4, DbCallType DEF PublishJob, TypeOK, RecoveryHolds, asideVars
<1>8. CASE SkipPublish(w)
  <2>1. worker' \in [Workers -> Worker] /\ WorkerHolds'
    BY <1>8, HeldJob, GotoType, StatusFacts DEF SkipPublish, WorkerPC
  <2>2. QED
    BY <1>8, <2>1 DEF SkipPublish, TypeOK, RecoveryHolds, asideVars
<1>9. CASE Deactivate(w)
  <2>1. worker' \in [Workers -> Worker] /\ WorkerHolds'
    BY <1>9, HeldJob, GotoType DEF Deactivate, WorkerPC
  <2>2. QED
    BY <1>9, <2>1 DEF Deactivate, TypeOK, RecoveryHolds, asideVars
<1>10. ASSUME NEW o \in Outcomes, SettleSession(w, o)
       PROVE  TypeInv'
  <2>1. worker' \in [Workers -> Worker] /\ WorkerHolds'
    BY <1>10, HeldJob, GotoType DEF SettleSession, WorkerPC
  <2>2. sessions' \in [Sessions -> Session] /\ queue' \in Seq(Jobs \cup Sessions)
    BY <1>10, HeldJob, FinishSessionType DEF SettleSession, TypeOK
  <2>3. QED
    BY <1>10, <2>1, <2>2, DbCallType DEF SettleSession, TypeOK, RecoveryHolds, asideVars
<1>11. CASE OpenGate(w)
  BY <1>11, IdleType DEF OpenGate, EndPublication, TypeOK, RecoveryHolds, asideVars
<1>12. CASE Requeue(w)
  <2>1. queue' \in Seq(Jobs \cup Sessions)
    BY <1>12, HeldJob DEF Requeue, TypeOK
  <2>2. leaving' \in [Workers -> Jobs \cup {NoJob}]
    BY <1>12, HeldJob DEF Requeue, TypeOK
  <2>3. QED
    BY <1>12, <2>1, <2>2, RequeueType DEF Requeue, TypeOK, RecoveryHolds
<1>13. CASE Forget(w)
  BY <1>13, IdleType DEF Forget, TypeOK, RecoveryHolds
<1>14. QED
  BY <1>1, <1>2, <1>3, <1>4, <1>5, <1>6, <1>7, <1>8, <1>9, <1>10, <1>11, <1>12, <1>13
     DEF WorkerNext

(* The pins after a session gave up its jobs and took a new snapshot. *)
LEMMA SessionPinsType ==
    ASSUME TypeOK, NEW s \in Sessions, NEW p \in Snapshots
    PROVE  /\ PinsAfterSubmit(s, p) \in [Snapshots -> Nat]
           /\ PinsAfterClose(s) \in [Snapshots -> Nat]
BY PinType DEF PinsAfterSubmit, PinsAfterClose, TypeOK

(* The rows after a session gave up its jobs. *)
LEMMA SessionRowsType ==
    ASSUME TypeOK, NEW s \in Sessions
    PROVE  CancelPending(s) \in [Jobs -> Job] /\ CancelBoth(s) \in [Jobs -> Job]
<1>1. sessions[s] \in Session
  BY DEF TypeOK
<1>2. CancelPending(s) \in [Jobs -> Job]
  BY <1>1, TransitionType, StatusFacts DEF CancelPending, TypeOK, Session
<1>3. StopsRunning(s) => sessions[s].running \in Jobs
  BY DEF StopsRunning, Deferred, TypeOK
<1>4. CancelBoth(s) \in [Jobs -> Job]
  BY <1>2, <1>3, TransitionType, StatusFacts DEF CancelBoth
<1>5. QED
  BY <1>2, <1>4

(* Realtime sessions keep the state well typed. *)
LEMMA SessionType ==
    ASSUME TypeInv, SessionNext
    PROVE  TypeInv'
<1> USE DEF TypeInv
<1>1. ASSUME NEW s \in Sessions, CreateSession(s)
      PROVE  TypeInv'
  <2>1. sessions' \in [Sessions -> Session]
    BY <1>1, LeaseType DEF CreateSession, TypeOK
  <2>2. QED
    BY <1>1, <2>1 DEF CreateSession, TypeOK, WorkerHolds, RecoveryHolds, asideVars
<1>2. ASSUME NEW s \in Sessions, RenewSession(s) \/ LeaseTick(s)
      PROVE  TypeInv'
  <2>1. sessions[s] \in Session /\ LeaseTTL \in Nat
    BY JobManagerAssumption DEF TypeOK
  <2>2. CASE RenewSession(s)
    <3>1. [sessions[s] EXCEPT !.lease = LeaseTTL] \in Session
      BY <2>1 DEF Session
    <3>2. sessions' \in [Sessions -> Session]
      BY <2>2, <3>1 DEF RenewSession, TypeOK
    <3>3. QED
      BY <2>2, <3>2 DEF RenewSession, TypeOK, WorkerHolds, RecoveryHolds, asideVars
  <2>3. CASE LeaseTick(s)
    <3>1. sessions[s].lease - 1 \in 0 .. LeaseTTL
      BY <2>1, <2>3 DEF LeaseTick, LeaseHeld, Session
    <3>2. [sessions[s] EXCEPT !.lease = @ - 1] \in Session
      BY <2>1, <3>1 DEF Session
    <3>3. sessions' \in [Sessions -> Session]
      BY <2>3, <3>2 DEF LeaseTick, TypeOK
    <3>4. QED
      BY <2>3, <3>3 DEF LeaseTick, TypeOK, WorkerHolds, RecoveryHolds, asideVars
  <2>4. QED
    BY <1>2, <2>2, <2>3
<1>3. ASSUME NEW s \in Sessions, NEW j \in Jobs, NEW p \in Snapshots
      PROVE  NewRevision(s, j, p) \in [Jobs -> Job]
  <2>1. sessions[s].revision + 1 \in Nat
    BY DEF TypeOK, Session
  <2>2. QED
    BY <2>1, NewRowType DEF NewRevision, TypeOK
<1>4. ASSUME NEW s \in Sessions, NEW j \in Jobs, NEW p \in Snapshots, SubmitRevision(s, j, p)
      PROVE  TypeInv'
  <2>1. sessions[s] \in Session /\ LeaseTTL \in 0 .. LeaseTTL /\ sessions[s].revision + 1 \in Nat
    BY JobManagerAssumption DEF TypeOK, Session
  <2>2. [sessions[s] EXCEPT !.revision = @ + 1, !.pending = j, !.snapshot = p,
                            !.lease = LeaseTTL] \in Session
    BY <2>1 DEF Session
  <2>3. sessions' \in [Sessions -> Session] /\ queue' \in Seq(Jobs \cup Sessions)
    BY <1>4, <2>2, ScheduleSessionType DEF SubmitRevision
  <2>4. Supersedes(s) => sessions[s].pending \in Jobs
    BY <2>1 DEF Supersedes, Session
  <2>5. jobs' \in [Jobs -> Job]
    BY <1>3, <1>4, <2>4, TransitionType, StatusFacts DEF SubmitRevision
  <2>6. pins' \in [Snapshots -> Nat] /\ publications' \subseteq Jobs
    BY <1>4, SessionPinsType DEF SubmitRevision, EndPublication, TypeOK
  <2>7. QED
    BY <1>4, <2>3, <2>5, <2>6 DEF SubmitRevision, TypeOK, WorkerHolds, RecoveryHolds, asideVars
<1>5. ASSUME NEW s \in Sessions, NEW j \in Jobs, NEW p \in Snapshots, SubmitLost(s, j, p)
      PROVE  TypeInv'
  BY <1>3, <1>5, DbCallType DEF SubmitLost, TypeOK, WorkerHolds, RecoveryHolds, asideVars
<1>6. ASSUME NEW s \in Sessions, NEW j \in Jobs, NEW p \in Snapshots,
             NEW o \in {"fail", "lost"}, NEW r \in Outcomes, SubmitFailed(s, j, p, o, r)
      PROVE  TypeInv'
  <2>1. sessions[s].pending \in Jobs
    BY <1>6 DEF SubmitFailed, TypeOK, Session
  <2>2. jobs' \in [Jobs -> Job]
    BY <1>3, <1>6, <2>1, SetStatusType, StatusFacts DEF SubmitFailed
  <2>3. pins' \in [Snapshots -> Nat]
    BY <1>6, PinType DEF SubmitFailed, TypeOK
  <2>4. faults' \in Nat
    BY <1>6 DEF SubmitFailed, TypeOK
  <2>5. publications' \subseteq Jobs
    BY <1>6 DEF SubmitFailed, TypeOK
  <2>6. QED
    BY <1>6, <2>2, <2>3, <2>4, <2>5 DEF SubmitFailed, TypeOK, WorkerHolds, RecoveryHolds, asideVars
<1>7. ASSUME NEW s \in Sessions, CloseSession(s)
      PROVE  TypeInv'
  <2>1. sessions' \in [Sessions -> Session]
    BY <1>7, LeaseType DEF CloseSession, TypeOK
  <2>2. pins' \in [Snapshots -> Nat]
    BY <1>7, PinType DEF CloseSession, PinsAfterClose, TypeOK
  <2>3. jobs' \in [Jobs -> Job] /\ publications' \subseteq Jobs
    BY <1>7, SessionRowsType DEF CloseSession, PublicationsAfterClose, EndPublication, TypeOK
  <2>4. QED
    BY <1>7, <2>1, <2>2, <2>3 DEF CloseSession, TypeOK, WorkerHolds, RecoveryHolds, asideVars
<1>8. ASSUME NEW s \in Sessions, ClosePendingLost(s)
      PROVE  TypeInv'
  BY <1>8, SessionRowsType, DbCallType
     DEF ClosePendingLost, TypeOK, WorkerHolds, RecoveryHolds, asideVars
<1>9. ASSUME NEW s \in Sessions, NEW o \in {"fail", "lost"}, CloseRunningFailed(s, o)
      PROVE  TypeInv'
  <2>1. jobs' \in [Jobs -> Job] /\ publications' \subseteq Jobs
    BY <1>9, SessionRowsType DEF CloseRunningFailed, PublicationsAfterClose, EndPublication, TypeOK
  <2>2. pins' \in [Snapshots -> Nat] /\ faults' \in Nat
    BY <1>9, PinType, DbCallType DEF CloseRunningFailed, TypeOK
  <2>3. QED
    BY <1>9, <2>1, <2>2 DEF CloseRunningFailed, TypeOK, WorkerHolds, RecoveryHolds, asideVars
<1>10. QED
  BY <1>1, <1>2, <1>4, <1>5, <1>6, <1>7, <1>8, <1>9 DEF SessionNext

(* Every step of the server keeps the state well typed. *)
LEMMA NextType == TypeInv /\ [Next]_vars => TypeInv'
<1>1. SUFFICES ASSUME TypeInv, [Next]_vars PROVE TypeInv'
  OBVIOUS
<1>2. CASE Next
  BY <1>1, <1>2, ClientType, SessionType, WorkerType, RecoveryType, BackgroundType DEF Next
<1>3. CASE UNCHANGED vars
  BY <1>1, <1>3 DEF vars, TypeInv, TypeOK, WorkerHolds, RecoveryHolds
<1>4. QED
  BY <1>1, <1>2, <1>3

(* Whatever fails and whenever the server restarts, every variable keeps    *)
(* its type; in particular no reference count of project.Manager.pins goes  *)
(* below zero and a worker past takeSession always holds a job id.          *)
THEOREM TypeCorrect == Spec => []TypeOK
<1>1. TypeInv => TypeOK
  BY DEF TypeInv
<1>2. QED
  BY InitType, NextType, <1>1, PTL DEF Spec

-----------------------------------------------------------------------------
(***************************************************************************)
(* No job is ever handed to two workers: the proof of SoleToken.           *)
(*                                                                         *)
(* SoleToken is not inductive: takeSession hands out the pending job of a  *)
(* session, and Enqueue and SubmitRevision hand out a new identifier.      *)
(* TokenInv adds that neither is anywhere else.                            *)
(***************************************************************************)
(* A job its session holds back as pending is nowhere else, and belongs to  *)
(* that session; a session that is not live holds nothing back.             *)
PendingUnplaced ==
    \A s \in Sessions :
        /\ sessions[s].pending # NoJob =>
              /\ jobs[sessions[s].pending].session = s
              /\ jobs[sessions[s].pending].status # "none"
              /\ ~Placed(sessions[s].pending)
        /\ sessions[s].status # "live" => sessions[s].pending = NoJob

(* An identifier that was never handed out is nowhere. *)
UnbornUnplaced == \A j \in Jobs : jobs[j].status = "none" => ~Placed(j)

(* SoleToken made inductive. *)
TokenInv == SoleToken /\ PendingUnplaced /\ UnbornUnplaced

-----------------------------------------------------------------------------
(* The channel. *)

In(q, t) == \E i \in DOMAIN q : q[i] = t
JobsOnce(q) == \A i, k \in DOMAIN q : q[i] \in Jobs /\ q[i] = q[k] => i = k

(* What a send leaves in the channel. *)
LEMMA SendFacts ==
    ASSUME NEW T, NEW q \in Seq(T), NEW e \in T
    PROVE  /\ \A t : In(Append(q, e), t) <=> In(q, t) \/ t = e
           /\ JobsOnce(q) /\ (e \in Jobs => ~In(q, e)) => JobsOnce(Append(q, e))
<1>1. /\ DOMAIN q = 1 .. Len(q) /\ Len(q) \in Nat
      /\ DOMAIN Append(q, e) = 1 .. Len(q) + 1
      /\ \A i \in 1 .. Len(q) : Append(q, e)[i] = q[i]
      /\ Append(q, e)[Len(q) + 1] = e
  OBVIOUS
<1>2. \A t : In(Append(q, e), t) <=> In(q, t) \/ t = e
  BY <1>1 DEF In
<1>3. JobsOnce(q) /\ (e \in Jobs => ~In(q, e)) => JobsOnce(Append(q, e))
  BY <1>1 DEF In, JobsOnce
<1>4. QED
  BY <1>2, <1>3

(* What a receive leaves in the channel. *)
LEMMA ReceiveFacts ==
    ASSUME NEW T, NEW q \in Seq(T), q # <<>>
    PROVE  /\ In(q, Head(q))
           /\ \A t : In(Tail(q), t) => In(q, t)
           /\ JobsOnce(q) => JobsOnce(Tail(q)) /\ (Head(q) \in Jobs => ~In(Tail(q), Head(q)))
<1>1. /\ DOMAIN q = 1 .. Len(q) /\ Len(q) \in Nat \ {0}
      /\ DOMAIN Tail(q) = 1 .. Len(q) - 1
      /\ \A i \in 1 .. Len(q) - 1 : Tail(q)[i] = q[i + 1]
      /\ Head(q) = q[1]
  OBVIOUS
<1>2. In(q, Head(q)) /\ \A t : In(Tail(q), t) => In(q, t)
  BY <1>1 DEF In
<1>3. JobsOnce(q) => JobsOnce(Tail(q))
  BY <1>1 DEF JobsOnce
<1>4. JobsOnce(q) => (Head(q) \in Jobs => ~In(Tail(q), Head(q)))
  BY <1>1 DEF In, JobsOnce
<1>5. QED
  BY <1>2, <1>3, <1>4

-----------------------------------------------------------------------------
(* The rows. *)

(* From table js to table ks no handed-out row is forgotten or given to     *)
(* another session.                                                         *)
RowsKeep(js, ks) ==
    \A j \in Jobs : js[j].status # "none" =>
                    ks[j].status # "none" /\ ks[j].session = js[j].session

(* Every way of writing a row that is not a new one keeps the rows. *)
LEMMA RowFacts ==
    ASSUME NEW js \in [Jobs -> Job], NEW j \in Jobs, NEW st, st # "none", NEW from
    PROVE  /\ RowsKeep(js, js)
           /\ RowsKeep(js, SetStatus(js, j, st))
           /\ RowsKeep(js, Transition(js, j, from, st))
           /\ RowsKeep(js, Account(js, j))
BY DEF RowsKeep, SetStatus, Transition, Account, Job

(* So does writing a new one. *)
LEMMA NewRowFacts ==
    ASSUME NEW js \in [Jobs -> Job], NEW j \in Jobs, js[j].status = "none", NEW r
    PROVE  RowsKeep(js, [js EXCEPT ![j] = r])
BY DEF RowsKeep

(* cancel keeps the rows. *)
LEMMA CancelRowFacts ==
    ASSUME TypeOK, NEW j \in Jobs, NEW o, CancelRow(j, o)
    PROVE  RowsKeep(jobs, jobs')
BY RowFacts DEF CancelRow, TypeOK

-----------------------------------------------------------------------------
(* Steps that hand no job out. *)

ChannelKept == JobsOnce(queue') /\ \A j \in Jobs : In(queue', j) => In(queue, j)
WorkersKept == \A w \in Workers : worker'[w].token \in Jobs => worker'[w].token = worker[w].token
SessionsKept ==
    \A s \in Sessions : /\ sessions'[s].pending \in {sessions[s].pending, NoJob}
                        /\ sessions'[s].status # "live" => sessions'[s].pending = NoJob
FeedersKept == recovering' \subseteq recovering /\ unsent' \subseteq unsent

(* A step that only gives up tokens places no job anew. *)
LEMMA PlacesKept ==
    ASSUME TypeInv, TypeInv', SoleToken, ChannelKept, WorkersKept, FeedersKept
    PROVE  SoleToken' /\ \A j \in Jobs : Placed(j)' => Placed(j)
<1>1. \A j \in Jobs : Placed(j)' => Placed(j)
  BY DEF Placed, InChannel, In, ChannelKept, WorkersKept, FeedersKept
<1>2. \A j \in Jobs : In(queue', j) => InChannel(j)
  BY DEF InChannel, In, ChannelKept
<1>3. JobsOnce(queue')
  BY DEF ChannelKept
<1>4. \A w \in Workers : worker'[w].token \in Jobs =>
         /\ ~In(queue', worker'[w].token)
         /\ \A v \in Workers : worker'[v].token = worker'[w].token => v = w
  BY <1>2 DEF SoleToken, WorkersKept
<1>5. \A j \in recovering' \cup unsent' :
         ~In(queue', j) /\ \A w \in Workers : worker'[w].token # j
  BY <1>2 DEF SoleToken, WorkersKept, FeedersKept, TypeInv, TypeOK
<1>6. recovering' \cap unsent' = {}
  BY DEF SoleToken, FeedersKept
<1>7. SoleToken'
  BY <1>3, <1>4, <1>5, <1>6 DEF SoleToken, JobsOnce, InChannel, In
<1>8. QED
  BY <1>1, <1>7

(* A session's pending job is a job. *)
LEMMA PendingType ==
    ASSUME TypeOK, NEW s \in Sessions, sessions[s].pending # NoJob
    PROVE  sessions[s].pending \in Jobs
BY DEF TypeOK, Session

(* If it gives up no row or pending job either, it keeps TokenInv. *)
LEMMA TokensKept ==
    ASSUME TypeInv, TypeInv', TokenInv, RowsKeep(jobs, jobs'),
           ChannelKept, WorkersKept, SessionsKept, FeedersKept
    PROVE  TokenInv'
<1>1. SoleToken' /\ \A j \in Jobs : Placed(j)' => Placed(j)
  BY PlacesKept DEF TokenInv
<1>2. UnbornUnplaced'
  BY <1>1 DEF TokenInv, UnbornUnplaced, RowsKeep
<1>3. PendingUnplaced'
  BY <1>1, PendingType DEF TypeInv, TokenInv, PendingUnplaced, SessionsKept, RowsKeep
<1>4. QED
  BY <1>1, <1>2, <1>3 DEF TokenInv

(* What a step leaves alone is kept. *)
LEMMA StillFacts ==
    ASSUME TypeInv, TokenInv
    PROVE  /\ jobs' = jobs => RowsKeep(jobs, jobs')
           /\ queue' = queue => ChannelKept
           /\ worker' = worker => WorkersKept
           /\ sessions' = sessions => SessionsKept
           /\ recovering' = recovering /\ unsent' = unsent => FeedersKept
<1>1. JobsOnce(queue)
  BY DEF TokenInv, SoleToken, JobsOnce
<1>2. QED
  BY <1>1 DEF TokenInv, PendingUnplaced, RowsKeep, ChannelKept, WorkersKept, SessionsKept,
              FeedersKept

(* A session token is not a job. *)
LEMMA SessionsNotJobs == Sessions \cap Jobs = {} /\ NoJob \notin Jobs /\ NoJob \notin Sessions
BY JobManagerAssumption DEF Jobs, NoJob

(* A worker that moves on or returns to the channel takes nothing. *)
LEMMA GotoFacts ==
    ASSUME TypeInv, NEW w \in Workers, NEW pc, NEW known, Goto(w, pc, known) \/ Idle(w)
    PROVE  WorkersKept
<1>1. CASE Goto(w, pc, known)
  <2>1. \A v \in Workers : worker'[v].token = worker[v].token
    BY <1>1 DEF Goto, TypeInv, TypeOK, Worker
  <2>2. QED
    BY <2>1 DEF WorkersKept
<1>2. CASE Idle(w)
  BY <1>2, SessionsNotJobs DEF Idle, IdleWorker, TypeInv, TypeOK, WorkersKept
<1>3. QED
  BY <1>1, <1>2

(* Scheduling a live session puts no job into the channel. *)
LEMMA ScheduleFacts ==
    ASSUME TypeInv, TokenInv, NEW s \in Sessions, NEW S \in Session, S.status = "live",
           ScheduleSession(s, S)
    PROVE  /\ ChannelKept
           /\ sessions'[s].status = "live" /\ sessions'[s].pending = S.pending
           /\ \A r \in Sessions \ {s} : sessions'[r] = sessions[r]
           /\ S.pending = sessions[s].pending => SessionsKept
<1>1. JobsOnce(queue) /\ queue \in Seq(Jobs \cup Sessions)
  BY DEF TokenInv, SoleToken, JobsOnce, TypeInv, TypeOK
<1>2. ChannelKept
  BY <1>1, SendFacts, SessionsNotJobs DEF ScheduleSession, ChannelKept
<1>3. /\ sessions'[s].status = "live" /\ sessions'[s].pending = S.pending
      /\ \A r \in Sessions \ {s} : sessions'[r] = sessions[r]
  BY DEF ScheduleSession, TypeInv, TypeOK, Session
<1>4. S.pending = sessions[s].pending => SessionsKept
  BY <1>3 DEF SessionsKept, TokenInv, PendingUnplaced
<1>5. QED
  BY <1>2, <1>3, <1>4

(* Nor does finishSession. *)
LEMMA FinishFacts ==
    ASSUME TypeInv, TokenInv, NEW j \in Jobs, NEW known, FinishSession(j, known)
    PROVE  ChannelKept /\ SessionsKept
<1> DEFINE s == jobs[j].session
           final == FinalStatus(j, known)
           S == [sessions[s] EXCEPT !.running = NoJob,
                                    !.lastOk = IF final = "succeeded" THEN j ELSE @]
<1>1. CASE j \notin Deferred /\ final \in Terminal /\ OwnsSlot(j)
  <2>1. s \in Sessions /\ sessions[s].status = "live" /\ sessions[s] \in Session
    BY <1>1 DEF OwnsSlot, LiveSessions, TypeInv, TypeOK
  <2>2. S \in Session /\ S.status = "live" /\ S.pending = sessions[s].pending
    BY <2>1 DEF Session, NoJob
  <2>3. ScheduleSession(s, S)
    BY <1>1 DEF FinishSession
  <2>4. QED
    BY <2>1, <2>2, <2>3, ScheduleFacts
<1>2. CASE ~(j \notin Deferred /\ final \in Terminal /\ OwnsSlot(j))
  BY <1>2, StillFacts DEF FinishSession
<1>3. QED
  BY <1>1, <1>2

(* A job that no worker, feeder or session will keep may be sent, or put    *)
(* among the unsent.                                                        *)
LEMMA PlaceFacts ==
    ASSUME TypeInv, TypeInv', TokenInv, RowsKeep(jobs, jobs'), WorkersKept, SessionsKept,
           NEW j \in Jobs, jobs'[j].status # "none", ~In(queue, j),
           \A w \in Workers : worker'[w].token # j,
           \A s \in Sessions : sessions[s].pending # j,
           recovering' \subseteq recovering \ {j},
           \/ queue' = queue /\ unsent' \subseteq unsent \cup {j}
           \/ queue' = Append(queue, j) /\ unsent' \subseteq unsent \ {j}
    PROVE  TokenInv'
<1> USE DEF TypeInv, TokenInv
<1>1. queue \in Seq(Jobs \cup Sessions) /\ JobsOnce(queue)
  BY DEF TypeOK, SoleToken, JobsOnce
<1>2. JobsOnce(queue') /\ \A k \in Jobs : In(queue', k) => In(queue, k) \/ k = j
  <2>1. JobsOnce(Append(queue, j)) /\ \A k : In(Append(queue, j), k) <=> In(queue, k) \/ k = j
    BY <1>1, SendFacts
  <2>2. QED
    BY <1>1, <2>1
<1>3. \A k \in Jobs : Placed(k)' => Placed(k) \/ k = j
  BY <1>2 DEF Placed, InChannel, In, WorkersKept
<1>4. SoleToken'
  <2>1. \A k \in Jobs : In(queue', k) => InChannel(k) \/ k = j
    BY <1>2 DEF InChannel, In
  <2>2. \A w \in Workers : worker'[w].token \in Jobs =>
           /\ ~In(queue', worker'[w].token)
           /\ \A v \in Workers : worker'[v].token = worker'[w].token => v = w
    BY <2>1 DEF SoleToken, WorkersKept
  <2>3. \A k \in recovering' \cup unsent' : \A w \in Workers : worker'[w].token # k
    BY DEF SoleToken, WorkersKept, TypeOK
  <2>4. \A k \in recovering' \cup unsent' : ~In(queue', k)
    <3>1. \A k \in recovering \cup unsent : ~In(queue, k) /\ k \in Jobs
      BY DEF SoleToken, InChannel, In, TypeOK
    <3>2. CASE queue' = queue
      BY <3>1, <3>2
    <3>3. CASE unsent' \subseteq unsent \ {j}
      BY <1>2, <3>1, <3>3
    <3>4. QED
      BY <3>2, <3>3
  <2>5. recovering' \cap unsent' = {}
    BY DEF SoleToken
  <2>6. QED
    BY <1>2, <2>2, <2>3, <2>4, <2>5 DEF SoleToken, JobsOnce, InChannel, In
<1>5. UnbornUnplaced'
  BY <1>3 DEF UnbornUnplaced, RowsKeep
<1>6. PendingUnplaced'
  BY <1>3, PendingType DEF PendingUnplaced, SessionsKept, RowsKeep
<1>7. QED
  BY <1>4, <1>5, <1>6

-----------------------------------------------------------------------------
(* The actions. *)

(* Requests for ordinary jobs: only Enqueue hands out a token, and for an   *)
(* identifier that is nowhere.                                              *)
LEMMA ClientTokens ==
    ASSUME TypeInv, TypeInv', TokenInv, ClientNext
    PROVE  TokenInv'
<1>1. ASSUME NEW j \in Jobs, NEW p \in Snapshots, NEW o \in Outcomes, Enqueue(j, p, o)
      PROVE  TokenInv'
  <2>1. jobs[j].status = "none" /\ ~Placed(j) /\ \A s \in Sessions : sessions[s].pending # j
    BY <1>1 DEF Enqueue, Fresh, TokenInv, UnbornUnplaced, PendingUnplaced, NoJob, Jobs
  <2>2. RowsKeep(jobs, jobs') /\ jobs'[j].status = "queued"
    BY <1>1, <2>1, NewRowFacts DEF Enqueue, TypeInv, TypeOK, NewRow
  <2>3. worker' = worker /\ sessions' = sessions /\ recovering' = recovering
    BY <1>1 DEF Enqueue, asideVars
  <2>4. \/ queue' = queue /\ unsent' = unsent
        \/ queue' = queue /\ unsent' = unsent \cup {j}
        \/ queue' = Append(queue, j) /\ unsent' = unsent
    BY <1>1 DEF Enqueue, UnsentAfter
  <2>5. WorkersKept /\ SessionsKept
    BY <2>3, StillFacts
  <2>6. QED
    BY <2>1, <2>2, <2>3, <2>4, <2>5, PlaceFacts DEF Placed, InChannel, In
<1>2. ASSUME NEW j \in Jobs, NEW o \in Outcomes, CancelQueued(j, o)
      PROVE  TokenInv'
  BY <1>2, CancelRowFacts, StillFacts, TokensKept DEF CancelQueued, TypeInv, asideVars
<1>3. ASSUME NEW j \in Jobs, NEW o \in Outcomes, CancelRunning(j, o)
      PROVE  TokenInv'
  BY <1>3, RowFacts, StillFacts, TokensKept DEF CancelRunning, TypeInv, TypeOK, asideVars
<1>4. CASE CleanupProject
  <2>1. RowsKeep(jobs, jobs')
    BY <1>4 DEF CleanupProject, RowsKeep, TypeInv, TypeOK, Job
  <2>2. QED
    BY <1>4, <2>1, StillFacts, TokensKept DEF CleanupProject, asideVars
<1>5. QED
  BY <1>1, <1>2, <1>3, <1>4 DEF ClientNext

(* The background tasks: the feeder moves a job into the channel, a restart *)
(* leaves the resumed rows with the feeder alone.                           *)
LEMMA BackgroundTokens ==
    ASSUME TypeInv, TypeInv', TokenInv, BackgroundNext
    PROVE  TokenInv'
<1>1. ASSUME NEW j \in Jobs, NEW o \in Outcomes, CancelUnsent(j, o)
      PROVE  TokenInv'
  <2>1. FeedersKept
    BY <1>1 DEF CancelUnsent, FeedersKept, asideVars
  <2>2. QED
    BY <1>1, <2>1, CancelRowFacts, StillFacts, TokensKept DEF CancelUnsent, TypeInv
<1>2. ASSUME NEW j \in Jobs, FeedRecovered(j)
      PROVE  TokenInv'
  <2>1. /\ ~In(queue, j) /\ j \notin unsent
        /\ \A w \in Workers : worker[w].token # j
        /\ \A s \in Sessions : sessions[s].pending # j
        /\ jobs[j].status # "none"
    BY <1>2, SessionsNotJobs
       DEF FeedRecovered, TokenInv, SoleToken, PendingUnplaced, UnbornUnplaced, Placed, InChannel, In
  <2>2. RowsKeep(jobs, jobs') /\ WorkersKept /\ SessionsKept
    BY <1>2, StillFacts DEF FeedRecovered
  <2>3. QED
    BY <1>2, <2>1, <2>2, PlaceFacts DEF FeedRecovered, Fed
<1>3. ASSUME NEW j \in Jobs, PruneTerminal(j)
      PROVE  TokenInv'
  BY <1>3, RowFacts, StillFacts, TokensKept DEF PruneTerminal, TypeInv, TypeOK, asideVars
<1>4. ASSUME NEW s \in Sessions, MaintainSession(s)
      PROVE  TokenInv'
  <2>1. sessions[s] \in Session /\ sessions[s].status = "live"
    BY <1>4 DEF MaintainSession, LiveSessions, TypeInv, TypeOK
  <2>2. ChannelKept /\ SessionsKept
    BY <1>4, <2>1, ScheduleFacts DEF MaintainSession
  <2>3. QED
    BY <1>4, <2>2, StillFacts, TokensKept DEF MaintainSession, asideVars
<1>5. CASE Restart
  <2>1. queue' = <<>> /\ unsent' = {} /\ \A w \in Workers : worker'[w].token = NoJob
    BY <1>5 DEF Restart, IdleWorker
  <2>2. \A s \in Sessions : sessions'[s].pending = NoJob
    BY <1>5 DEF Restart, ClosedLease, NoLease, TokenInv, PendingUnplaced
  <2>3. \A j \in recovering' : jobs'[j].status # "none"
    <3>1. ASSUME NEW bad, RestartListed(bad)
          PROVE  \A j \in recovering' : jobs'[j].status # "none"
      BY <3>1 DEF RestartListed, PendingRows, RecoveredStatusAtStart, TypeInv, TypeOK, Job
    <3>2. RestartBlind => recovering' = {}
      BY DEF RestartBlind
    <3>3. QED
      BY <1>5, <3>1, <3>2 DEF Restart
  <2>4. SoleToken'
    BY <2>1, SessionsNotJobs DEF SoleToken, InChannel, TypeInv, TypeOK
  <2>5. UnbornUnplaced'
    BY <2>1, <2>3, SessionsNotJobs DEF UnbornUnplaced, Placed, InChannel
  <2>6. PendingUnplaced'
    BY <2>2 DEF PendingUnplaced
  <2>7. QED
    BY <2>4, <2>5, <2>6 DEF TokenInv
<1>6. QED
  BY <1>1, <1>2, <1>3, <1>4, <1>5 DEF BackgroundNext

(* The recovery goroutine hands out nothing. *)
LEMMA RecoveryTokens ==
    ASSUME TypeInv, TypeInv', TokenInv, RecoveryNext
    PROVE  TokenInv'
<1>1. ASSUME NEW j \in Jobs, j \in Deferred
      PROVE  RowsKeep(jobs, RecoveredRow(j))
  <2>1. completions[j] \in Completion /\ completions[j] # NoCompletion
    BY <1>1 DEF TypeInv, TypeOK, Deferred, NoCompletion
  <2>2. completions[j].to # "none"
    BY <2>1 DEF Completion
  <2>3. QED
    BY <2>2, RowFacts DEF RecoveredRow, TypeInv, TypeOK
<1>2. ASSUME NEW j \in Jobs, RetryCompletion(j) \/ RetryLost(j)
      PROVE  TokenInv'
  BY <1>1, <1>2, StillFacts, TokensKept DEF RetryCompletion, RetryLost, asideVars
<1>3. CASE RecoverSession
  <2>1. ChannelKept /\ SessionsKept
    BY <1>3, FinishFacts DEF RecoverSession, TypeInv, RecoveryHolds
  <2>2. QED
    BY <1>3, <2>1, StillFacts, TokensKept DEF RecoverSession, asideVars
<1>4. CASE RecoverGate
  BY <1>4, StillFacts, TokensKept DEF RecoverGate, asideVars
<1>5. QED
  BY <1>2, <1>3, <1>4 DEF RecoveryNext

(* A worker receives what leaves the channel, takes what leaves its session *)
(* and sends back what it lets go of.                                       *)
LEMMA WorkerTokens ==
    ASSUME TypeInv, TypeInv', TokenInv, NEW w \in Workers, WorkerNext(w)
    PROVE  TokenInv'
<1>1. CASE Receive(w)
  <2> DEFINE h == Head(queue)
  <2>1. /\ worker[w].token = NoJob /\ worker'[w].token = h
        /\ \A v \in Workers \ {w} : worker'[v] = worker[v]
    BY <1>1 DEF Receive, TypeInv, TypeOK, WorkerHolds
  <2>2. /\ In(queue, h) /\ (h \in Jobs => ~In(queue', h))
        /\ JobsOnce(queue') /\ \A t : In(queue', t) => In(queue, t)
    <3>1. queue \in Seq(Jobs \cup Sessions) /\ JobsOnce(queue)
      BY DEF TypeInv, TypeOK, TokenInv, SoleToken, JobsOnce
    <3>2. QED
      BY <1>1, <3>1, ReceiveFacts DEF Receive
  <2>3. jobs' = jobs /\ sessions' = sessions /\ recovering' = recovering /\ unsent' = unsent
    BY <1>1 DEF Receive, asideVars
  <2>4. \A j \in Jobs : Placed(j)' => Placed(j)
    BY <2>1, <2>2, <2>3 DEF Placed, InChannel, In
  <2>5. \A v \in Workers : worker'[v].token \in Jobs =>
           /\ ~In(queue', worker'[v].token)
           /\ \A u \in Workers : worker'[u].token = worker'[v].token => u = v
    BY <2>1, <2>2 DEF TokenInv, SoleToken, InChannel, In
  <2>6. \A j \in recovering \cup unsent :
           ~In(queue', j) /\ \A v \in Workers : worker'[v].token # j
    BY <2>1, <2>2 DEF TokenInv, SoleToken, InChannel, In
  <2>7. SoleToken'
    BY <2>2, <2>3, <2>5, <2>6 DEF TokenInv, SoleToken, InChannel, In, JobsOnce
  <2>8. QED
    BY <2>3, <2>4, <2>7, PendingType
       DEF TypeInv, TokenInv, UnbornUnplaced, PendingUnplaced
<1>2. CASE TakeSession(w)
  <2> DEFINE s == worker[w].token
             S == sessions[s]
             ready == S.running = NoJob /\ S.pending # NoJob
  <2>1. s \in Sessions /\ S \in Session
    BY <1>2 DEF TakeSession, TypeInv, WorkerHolds, TypeOK
  <2>2. /\ jobs' = jobs /\ queue' = queue /\ recovering' = recovering /\ unsent' = unsent
    BY <1>2 DEF TakeSession, asideVars
  <2>3. CASE S.status = "live" /\ ready
    <3> DEFINE j == S.pending
    <3>1. /\ worker'[w].token = j /\ \A v \in Workers \ {w} : worker'[v] = worker[v]
          /\ sessions'[s].pending = NoJob /\ sessions'[s].status = "live"
          /\ \A r \in Sessions \ {s} : sessions'[r] = sessions[r]
      BY <1>2, <2>1, <2>3 DEF TakeSession, Taken, TypeInv, TypeOK, Session
    <3>2. j \in Jobs /\ ~Placed(j) /\ jobs[j].status # "none" /\ jobs[j].session = s
      BY <2>1, <2>3, PendingType DEF TypeInv, TokenInv, PendingUnplaced
    <3>3. \A k \in Jobs : Placed(k)' => Placed(k) \/ k = j
      BY <2>2, <3>1 DEF Placed, InChannel
    <3>4. \A v \in Workers : worker'[v].token \in Jobs =>
             /\ ~InChannel(worker'[v].token)
             /\ \A u \in Workers : worker'[u].token = worker'[v].token => u = v
      BY <3>1, <3>2 DEF TokenInv, SoleToken, Placed
    <3>5. \A k \in recovering \cup unsent : \A v \in Workers : worker'[v].token # k
      BY <3>1, <3>2 DEF TokenInv, SoleToken, Placed
    <3>6. SoleToken'
      BY <2>2, <3>4, <3>5 DEF TokenInv, SoleToken, InChannel
    <3>7. UnbornUnplaced'
      BY <2>2, <3>2, <3>3 DEF TokenInv, UnbornUnplaced
    <3>8. PendingUnplaced'
      BY <2>2, <3>1, <3>2, <3>3, PendingType DEF TypeInv, TokenInv, PendingUnplaced
    <3>9. QED
      BY <3>6, <3>7, <3>8 DEF TokenInv
  <2>4. CASE ~(S.status = "live" /\ ready)
    <3>1. Idle(w)
      BY <1>2, <2>4 DEF TakeSession, Idle
    <3>2. \A r \in Sessions : /\ sessions'[r].pending = sessions[r].pending
                              /\ sessions'[r].status = sessions[r].status
      BY <1>2, <2>1, <2>4 DEF TakeSession, TypeInv, TypeOK, Session
    <3>3. SessionsKept
      BY <3>2 DEF SessionsKept, TokenInv, PendingUnplaced
    <3>4. QED
      BY <2>2, <3>1, <3>3, GotoFacts, StillFacts, TokensKept
  <2>5. QED
    BY <2>3, <2>4
<1>3. ASSUME NEW o \in Outcomes, LoadJob(w, o)
      PROVE  TokenInv'
  <2>1. WorkersKept
    BY <1>3, GotoFacts DEF LoadJob, LoadFailed
  <2>2. QED
    BY <1>3, <2>1, StillFacts, TokensKept DEF LoadJob, asideVars
<1>4. ASSUME NEW o \in Outcomes, RejectJob(w, o)
      PROVE  TokenInv'
  <2>1. WorkersKept /\ RowsKeep(jobs, jobs')
    BY <1>4, GotoFacts, HeldJob, CancelRowFacts DEF RejectJob, TypeInv
  <2>2. QED
    BY <1>4, <2>1, StillFacts, TokensKept DEF RejectJob, asideVars
<1>5. ASSUME NEW o \in Outcomes, StartJob(w, o)
      PROVE  TokenInv'
  <2>1. WorkersKept /\ RowsKeep(jobs, jobs')
    BY <1>5, GotoFacts, HeldJob, RowFacts DEF StartJob, TypeInv, TypeOK
  <2>2. QED
    BY <1>5, <2>1, StillFacts, TokensKept DEF StartJob, asideVars
<1>6. ASSUME NEW out \in {"succeeded", "failed"}, NEW o \in Outcomes, FinishJob(w, out, o)
      PROVE  TokenInv'
  <2>1. WorkersKept /\ RowsKeep(jobs, jobs')
    BY <1>6, GotoFacts, HeldJob, RowFacts DEF FinishJob, TypeInv, TypeOK
  <2>2. QED
    BY <1>6, <2>1, StillFacts, TokensKept DEF FinishJob, asideVars
<1>7. ASSUME NEW o \in Outcomes, PublishJob(w, o)
      PROVE  TokenInv'
  <2>1. WorkersKept /\ RowsKeep(jobs, jobs')
    BY <1>7, GotoFacts, HeldJob, RowFacts DEF PublishJob, TypeInv, TypeOK
  <2>2. QED
    BY <1>7, <2>1, StillFacts, TokensKept DEF PublishJob, asideVars
<1>8. CASE SkipPublish(w)
  BY <1>8, GotoFacts, StillFacts, TokensKept DEF SkipPublish, asideVars
<1>9. CASE Deactivate(w)
  BY <1>9, GotoFacts, StillFacts, TokensKept DEF Deactivate, asideVars
<1>10. ASSUME NEW o \in Outcomes, SettleSession(w, o)
       PROVE  TokenInv'
  <2>1. ChannelKept /\ SessionsKept /\ WorkersKept
    BY <1>10, FinishFacts, HeldJob, GotoFacts, StillFacts DEF SettleSession
  <2>2. QED
    BY <1>10, <2>1, StillFacts, TokensKept DEF SettleSession, asideVars
<1>11. CASE OpenGate(w)
  BY <1>11, GotoFacts, StillFacts, TokensKept DEF OpenGate, asideVars
<1>12. CASE Requeue(w)
  <2> DEFINE j == worker[w].token
  <2>1. j \in Jobs /\ worker'[w].token = NoJob /\ \A v \in Workers \ {w} : worker'[v] = worker[v]
    BY <1>12, HeldJob, RequeueType DEF Requeue
  <2>2. /\ ~In(queue, j) /\ j \notin unsent \cup recovering
        /\ \A v \in Workers : worker'[v].token # j
        /\ \A s \in Sessions : sessions[s].pending # j
        /\ jobs[j].status # "none"
    BY <2>1, SessionsNotJobs
       DEF TokenInv, SoleToken, PendingUnplaced, UnbornUnplaced, Placed, InChannel, In
  <2>3. RowsKeep(jobs, jobs') /\ WorkersKept /\ SessionsKept
    BY <1>12, <2>1, StillFacts, SessionsNotJobs DEF Requeue, WorkersKept
  <2>4. QED
    BY <1>12, <2>1, <2>2, <2>3, PlaceFacts DEF Requeue
<1>13. CASE Forget(w)
  BY <1>13, GotoFacts, StillFacts, TokensKept DEF Forget
<1>14. QED
  BY <1>1, <1>2, <1>3, <1>4, <1>5, <1>6, <1>7, <1>8, <1>9, <1>10, <1>11, <1>12, <1>13
     DEF WorkerNext

(* Giving up a session's jobs keeps the rows. *)
LEMMA SessionRowFacts ==
    ASSUME TypeOK, NEW s \in Sessions
    PROVE  RowsKeep(jobs, CancelPending(s)) /\ RowsKeep(jobs, CancelBoth(s))
<1>1. RowsKeep(jobs, CancelPending(s))
  <2>1. CASE sessions[s].pending = NoJob
    BY <2>1 DEF CancelPending, RowsKeep
  <2>2. CASE sessions[s].pending # NoJob
    BY <2>2, RowFacts, PendingType DEF CancelPending, TypeOK
  <2>3. QED
    BY <2>1, <2>2
<1>2. CancelPending(s) \in [Jobs -> Job]
  BY SessionRowsType
<1>3. StopsRunning(s) => sessions[s].running \in Jobs
  BY DEF StopsRunning, Deferred, TypeOK
<1>4. StopsRunning(s) => RowsKeep(CancelPending(s), CancelBoth(s))
  BY <1>2, <1>3, RowFacts DEF CancelBoth
<1>5. RowsKeep(jobs, CancelBoth(s))
  BY <1>1, <1>4 DEF CancelBoth, RowsKeep
<1>6. QED
  BY <1>1, <1>5

(* The lease clock touches neither a session's jobs nor its status. *)
LEMMA LeaseFacts ==
    ASSUME TypeOK, NEW s \in Sessions, RenewSession(s) \/ LeaseTick(s)
    PROVE  \A r \in Sessions : /\ sessions'[r].pending = sessions[r].pending
                               /\ sessions'[r].status = sessions[r].status
<1>1. CASE RenewSession(s)
  BY <1>1 DEF RenewSession, TypeOK, Session
<1>2. CASE LeaseTick(s)
  BY <1>2 DEF LeaseTick, TypeOK, Session
<1>3. QED
  BY <1>1, <1>2

(* Realtime sessions: SubmitRevision makes a job pending that is nowhere.   *)
LEMMA SessionTokensKept ==
    ASSUME TypeInv, TypeInv', TokenInv, SessionNext
    PROVE  TokenInv'
<1>1. ASSUME NEW s \in Sessions, CreateSession(s) \/ RenewSession(s) \/ LeaseTick(s)
      PROVE  TokenInv'
  <2>1. SessionsKept
    <3>1. CASE CreateSession(s)
      BY <3>1 DEF CreateSession, NoLease, SessionsKept, TypeInv, TypeOK, TokenInv, PendingUnplaced
    <3>2. CASE RenewSession(s) \/ LeaseTick(s)
      BY <3>2, LeaseFacts DEF SessionsKept, TypeInv, TokenInv, PendingUnplaced
    <3>3. QED
      BY <1>1, <3>1, <3>2
  <2>2. QED
    BY <1>1, <2>1, StillFacts, TokensKept DEF CreateSession, RenewSession, LeaseTick, asideVars
<1>2. ASSUME NEW s \in Sessions, NEW j \in Jobs, NEW p \in Snapshots, AdmitRevision(s, j)
      PROVE  /\ RowsKeep(jobs, NewRevision(s, j, p))
             /\ NewRevision(s, j, p) \in [Jobs -> Job]
             /\ NewRevision(s, j, p)[j].session = s /\ NewRevision(s, j, p)[j].status = "queued"
             /\ sessions[s].status = "live"
             /\ ~Placed(j) /\ \A r \in Sessions : sessions[r].pending # j
  <2>1. jobs[j].status = "none" /\ sessions[s].status = "live"
    BY <1>2 DEF AdmitRevision, Fresh, LeaseHeld
  <2>2. NewRow(p, s, sessions[s].revision + 1) \in Job
    BY NewRowType DEF TypeInv, TypeOK, Session
  <2>3. NewRevision(s, j, p) \in [Jobs -> Job] /\ RowsKeep(jobs, NewRevision(s, j, p))
    BY <2>1, <2>2, NewRowFacts DEF NewRevision, TypeInv, TypeOK
  <2>4. ~Placed(j) /\ \A r \in Sessions : sessions[r].pending # j
    BY <2>1, SessionsNotJobs DEF TokenInv, UnbornUnplaced, PendingUnplaced
  <2>5. QED
    BY <2>1, <2>3, <2>4 DEF NewRevision, NewRow, TypeInv, TypeOK
<1>3. ASSUME NEW s \in Sessions, NEW j \in Jobs, NEW p \in Snapshots, SubmitRevision(s, j, p)
      PROVE  TokenInv'
  <2> DEFINE row == NewRevision(s, j, p)
             old == sessions[s].pending
             S == [sessions[s] EXCEPT !.revision = @ + 1, !.pending = j, !.snapshot = p,
                                      !.lease = LeaseTTL]
  <2>1. /\ RowsKeep(jobs, row) /\ row \in [Jobs -> Job]
        /\ row[j].session = s /\ row[j].status = "queued"
        /\ sessions[s].status = "live" /\ ~Placed(j) /\ \A r \in Sessions : sessions[r].pending # j
    BY <1>2, <1>3 DEF SubmitRevision
  <2>2. Supersedes(s) => old \in Jobs
    BY PendingType DEF Supersedes, TypeInv
  <2>3. RowsKeep(row, jobs')
    BY <1>3, <2>1, <2>2, RowFacts DEF SubmitRevision
  <2>4. RowsKeep(jobs, jobs') /\ jobs'[j].session = s /\ jobs'[j].status # "none"
    BY <2>1, <2>3 DEF RowsKeep
  <2>5. sessions[s] \in Session /\ LeaseTTL \in 0 .. LeaseTTL /\ sessions[s].revision + 1 \in Nat
    BY JobManagerAssumption DEF TypeInv, TypeOK, Session
  <2>6. S \in Session /\ S.status = "live" /\ S.pending = j
    BY <2>1, <2>5 DEF Session
  <2>7. /\ ChannelKept /\ sessions'[s].status = "live" /\ sessions'[s].pending = j
        /\ \A r \in Sessions \ {s} : sessions'[r] = sessions[r]
    BY <1>3, <2>6, ScheduleFacts DEF SubmitRevision
  <2>8. SoleToken' /\ \A k \in Jobs : Placed(k)' => Placed(k)
    BY <1>3, <2>7, StillFacts, PlacesKept DEF SubmitRevision, TokenInv, asideVars
  <2>9. UnbornUnplaced'
    BY <2>4, <2>8 DEF TokenInv, UnbornUnplaced, RowsKeep
  <2>10. PendingUnplaced'
    BY <2>1, <2>4, <2>7, <2>8, PendingType DEF TypeInv, TokenInv, PendingUnplaced, RowsKeep
  <2>11. QED
    BY <2>8, <2>9, <2>10 DEF TokenInv
<1>4. ASSUME NEW s \in Sessions, NEW j \in Jobs, NEW p \in Snapshots, SubmitLost(s, j, p)
      PROVE  TokenInv'
  BY <1>2, <1>4, StillFacts, TokensKept DEF SubmitLost, asideVars
<1>5. ASSUME NEW s \in Sessions, NEW j \in Jobs, NEW p \in Snapshots,
             NEW o \in {"fail", "lost"}, NEW r \in Outcomes, SubmitFailed(s, j, p, o, r)
      PROVE  TokenInv'
  <2> DEFINE row == NewRevision(s, j, p)
             old == sessions[s].pending
             one == IF o = "lost" THEN SetStatus(row, old, "cancelled") ELSE row
  <2>1. RowsKeep(jobs, row) /\ row \in [Jobs -> Job] /\ old \in Jobs
    BY <1>2, <1>5, PendingType DEF SubmitFailed, TypeInv
  <2>2. one \in [Jobs -> Job] /\ RowsKeep(row, one)
    BY <2>1, SetStatusType, RowFacts, StatusFacts
  <2>3. RowsKeep(one, jobs')
    BY <1>5, <2>2, RowFacts DEF SubmitFailed
  <2>4. RowsKeep(jobs, jobs')
    BY <2>1, <2>2, <2>3 DEF RowsKeep
  <2>5. QED
    BY <1>5, <2>4, StillFacts, TokensKept DEF SubmitFailed, asideVars
<1>6. ASSUME NEW s \in Sessions, CloseSession(s)
      PROVE  TokenInv'
  <2>1. SessionsKept
    BY <1>6 DEF CloseSession, ClosedLease, NoLease, SessionsKept, TypeInv, TypeOK, TokenInv,
                PendingUnplaced
  <2>2. QED
    BY <1>6, <2>1, SessionRowFacts, StillFacts, TokensKept DEF CloseSession, TypeInv, asideVars
<1>7. ASSUME NEW s \in Sessions, ClosePendingLost(s)
      PROVE  TokenInv'
  BY <1>7, SessionRowFacts, StillFacts, TokensKept DEF ClosePendingLost, TypeInv, asideVars
<1>8. ASSUME NEW s \in Sessions, NEW o \in {"fail", "lost"}, CloseRunningFailed(s, o)
      PROVE  TokenInv'
  BY <1>8, SessionRowFacts, StillFacts, TokensKept DEF CloseRunningFailed, TypeInv, asideVars
<1>9. QED
  BY <1>1, <1>3, <1>4, <1>5, <1>6, <1>7, <1>8 DEF SessionNext

(* TokenInv holds initially. *)
LEMMA InitTokens == Init => TokenInv
BY SessionsNotJobs
   DEF Init, TokenInv, SoleToken, PendingUnplaced, UnbornUnplaced, Placed, InChannel, NoLease,
       IdleWorker, NoRow

(* Every step of the server keeps TokenInv. *)
LEMMA NextTokens == TypeInv /\ TypeInv' /\ TokenInv /\ [Next]_vars => TokenInv'
<1>1. SUFFICES ASSUME TypeInv, TypeInv', TokenInv, [Next]_vars PROVE TokenInv'
  OBVIOUS
<1>2. CASE Next
  BY <1>1, <1>2, ClientTokens, SessionTokensKept, WorkerTokens, RecoveryTokens, BackgroundTokens
     DEF Next
<1>3. CASE UNCHANGED vars
  BY <1>1, <1>3, StillFacts, TokensKept DEF vars
<1>4. QED
  BY <1>1, <1>2, <1>3

(* No job id is ever in two places, so no job is executed by two workers,   *)
(* for any number of workers, sessions, jobs, failures and restarts.        *)
THEOREM SoleTokenHolds == Spec => []SoleToken
<1>1. TokenInv => SoleToken
  BY DEF TokenInv
<1>2. QED
  BY InitType, NextType, InitTokens, NextTokens, <1>1, PTL DEF Spec

-----------------------------------------------------------------------------
(***************************************************************************)
(* How the rows move: the proofs of TerminalStable and PendingNotStarted.  *)
(* All but four actions (starting a job, the two removals and a restart)   *)
(* move a row forward without starting or deleting it; those four are      *)
(* treated one by one.                                                     *)
(***************************************************************************)
(* Where a row may go without being started, deleted or restarted. *)
QuietMoves(from) ==
    CASE from = "none" -> {"none", "queued", "cancelled"}
      [] from = "queued" -> {"queued", "cancelled"}
      [] from = "running" -> {"running", "succeeded", "failed", "cancelled"}
      [] OTHER -> {from}
Quiet(js, ks) == \A j \in Jobs : ks[j].status \in QuietMoves(js[j].status)

(* Quiet moves compose. *)
LEMMA QuietComposes ==
    ASSUME NEW js \in [Jobs -> Job], NEW ks \in [Jobs -> Job], NEW ls \in [Jobs -> Job],
           Quiet(js, ks), Quiet(ks, ls)
    PROVE  Quiet(js, ls)
<1>1. \A a, b, c \in Status : b \in QuietMoves(a) /\ c \in QuietMoves(b) => c \in QuietMoves(a)
  BY DEF Status, Terminal, Pending, QuietMoves
<1>2. \A j \in Jobs : js[j].status \in Status /\ ks[j].status \in Status /\ ls[j].status \in Status
  BY DEF Job
<1>3. QED
  BY <1>1, <1>2 DEF Quiet

(* Cancelling a queued row and ending a running one are quiet. *)
LEMMA QuietTransition ==
    ASSUME NEW js \in [Jobs -> Job], NEW j \in Jobs, NEW from, NEW to,
           \/ from = "queued" /\ to = "cancelled"
           \/ from = "running" /\ to \in Terminal
    PROVE  Quiet(js, Transition(js, j, from, to))
BY DEF Quiet, QuietMoves, Transition, SetStatus, Job, Terminal

(* So are leaving the rows alone and accounting for a published cache. *)
LEMMA QuietAccount ==
    ASSUME NEW js \in [Jobs -> Job], NEW j \in Jobs
    PROVE  Quiet(js, js) /\ Quiet(js, Account(js, j))
BY DEF Quiet, QuietMoves, Account, Job

(* So is leaving them alone when there may be no job. *)
LEMMA QuietStill ==
    ASSUME NEW js
    PROVE  Quiet(js, js)
BY DEF Quiet, QuietMoves

(* So is writing a new row. *)
LEMMA QuietNew ==
    ASSUME NEW js \in [Jobs -> Job], NEW j \in Jobs, js[j].status = "none",
           NEW r \in Job, r.status = "queued"
    PROVE  Quiet(js, [js EXCEPT ![j] = r])
BY DEF Quiet, QuietMoves

(* cancel is quiet. *)
LEMMA QuietCancel ==
    ASSUME TypeOK, NEW j \in Jobs, NEW o, CancelRow(j, o)
    PROVE  Quiet(jobs, jobs')
BY QuietTransition, QuietStill DEF CancelRow, TypeOK

(* Closing a session is quiet. *)
LEMMA QuietClose ==
    ASSUME TypeOK, NEW s \in Sessions
    PROVE  Quiet(jobs, CancelPending(s)) /\ Quiet(jobs, CancelBoth(s))
<1>1. CancelPending(s) \in [Jobs -> Job] /\ CancelBoth(s) \in [Jobs -> Job]
  BY SessionRowsType
<1>2. Quiet(jobs, CancelPending(s))
  <2>1. CASE sessions[s].pending = NoJob
    BY <2>1, QuietStill DEF CancelPending
  <2>2. CASE sessions[s].pending # NoJob
    BY <2>2, QuietTransition, PendingType DEF CancelPending, TypeOK
  <2>3. QED
    BY <2>1, <2>2
<1>3. CASE StopsRunning(s)
  <2>1. sessions[s].running \in Jobs
    BY <1>3 DEF StopsRunning, Deferred, TypeOK
  <2>2. Quiet(CancelPending(s), CancelBoth(s))
    BY <1>1, <1>3, <2>1, QuietTransition DEF CancelBoth, Terminal
  <2>3. QED
    BY <1>1, <1>2, <2>2, QuietComposes DEF TypeOK
<1>4. CASE ~StopsRunning(s)
  BY <1>2, <1>4 DEF CancelBoth
<1>5. QED
  BY <1>3, <1>4

(* A revision that is submitted, or whose submission fails half-way, is     *)
(* quiet.                                                                   *)
LEMMA QuietSubmit ==
    ASSUME TypeOK, NEW s \in Sessions, NEW j \in Jobs, NEW p \in Snapshots
    PROVE  /\ AdmitRevision(s, j) => Quiet(jobs, NewRevision(s, j, p))
           /\ SubmitRevision(s, j, p) => Quiet(jobs, jobs')
           /\ \A o \in {"fail", "lost"}, r \in Outcomes :
                 SubmitFailed(s, j, p, o, r) => Quiet(jobs, jobs')
<1> DEFINE row == NewRevision(s, j, p)
           old == sessions[s].pending
<1>1. NewRow(p, s, sessions[s].revision + 1) \in Job
  BY NewRowType DEF TypeOK, Session
<1>2. row \in [Jobs -> Job]
  BY <1>1 DEF NewRevision, TypeOK
<1>3. ASSUME AdmitRevision(s, j)
      PROVE  Quiet(jobs, row) /\ row[j].status = "queued" /\ jobs[j].status = "none"
  BY <1>1, <1>3, QuietNew DEF AdmitRevision, Fresh, NewRevision, NewRow, TypeOK
<1>4. ASSUME SubmitRevision(s, j, p)
      PROVE  Quiet(jobs, jobs')
  <2>1. CASE Supersedes(s)
    <3>1. old \in Jobs
      BY <2>1, PendingType DEF Supersedes
    <3>2. jobs' = Transition(row, old, "queued", "cancelled")
      BY <1>4, <2>1 DEF SubmitRevision
    <3>3. Quiet(row, jobs') /\ jobs' \in [Jobs -> Job]
      BY <1>2, <3>1, <3>2, QuietTransition, TransitionType, StatusFacts
    <3>4. QED
      BY <1>2, <1>3, <1>4, <3>3, QuietComposes DEF SubmitRevision, TypeOK
  <2>2. CASE ~Supersedes(s)
    BY <1>3, <1>4, <2>2 DEF SubmitRevision
  <2>3. QED
    BY <2>1, <2>2
<1>5. ASSUME NEW o \in {"fail", "lost"}, NEW r \in Outcomes, SubmitFailed(s, j, p, o, r)
      PROVE  Quiet(jobs, jobs')
  <2> DEFINE one == IF o = "lost" THEN SetStatus(row, old, "cancelled") ELSE row
  <2>1. old \in Jobs /\ AdmitRevision(s, j)
    BY <1>5, PendingType DEF SubmitFailed
  <2>2. one \in [Jobs -> Job] /\ Quiet(row, one) /\ one[j].status = "queued"
    <3>1. CASE o = "lost"
      <4>1. old # j /\ jobs[old].status = "queued"
        BY <1>3, <1>5, <2>1, <3>1 DEF SubmitFailed, Supersedes
      <4>2. row[old].status = "queued"
        BY <2>1, <4>1 DEF NewRevision, TypeOK
      <4>3. one = Transition(row, old, "queued", "cancelled")
        BY <3>1, <4>2 DEF Transition
      <4>4. one[j].status = "queued"
        BY <1>2, <1>3, <2>1, <3>1, <4>1 DEF SetStatus
      <4>5. QED
        BY <1>2, <2>1, <4>3, <4>4, QuietTransition, TransitionType, StatusFacts
    <3>2. CASE o = "fail"
      BY <1>2, <1>3, <2>1, <3>2, QuietStill
    <3>3. QED
      BY <3>1, <3>2
  <2>3. Quiet(jobs, one)
    BY <1>2, <1>3, <2>1, <2>2, QuietComposes DEF TypeOK
  <2>4. CASE r = "fail"
    BY <1>5, <2>3, <2>4 DEF SubmitFailed
  <2>5. CASE r # "fail"
    <3>1. jobs' = Transition(one, j, "queued", "cancelled")
      BY <1>5, <2>2, <2>5 DEF SubmitFailed, Transition
    <3>2. Quiet(one, jobs') /\ jobs' \in [Jobs -> Job]
      BY <2>2, <3>1, QuietTransition, TransitionType, StatusFacts
    <3>3. QED
      BY <2>2, <2>3, <3>2, QuietComposes DEF TypeOK
  <2>6. QED
    BY <2>4, <2>5
<1>6. QED
  BY <1>3, <1>4, <1>5

-----------------------------------------------------------------------------
(* Every action but four is quiet. *)

Loud == \/ \E w \in Workers, o \in Outcomes : StartJob(w, o)
        \/ \E j \in Jobs : PruneTerminal(j)
        \/ CleanupProject
        \/ Restart

(* A step of the server is quiet or one of the four. *)
LEMMA NextQuiet ==
    ASSUME TypeInv, Next
    PROVE  Quiet(jobs, jobs') \/ Loud
<1> USE DEF TypeInv
<1>1. CASE ClientNext
  <2>1. ASSUME NEW j \in Jobs, NEW p \in Snapshots, NEW o \in Outcomes, Enqueue(j, p, o)
        PROVE  Quiet(jobs, jobs')
    <3>1. NewRow(p, NoSession, 0) \in Job
      BY NewRowType
    <3>2. QED
      BY <2>1, <3>1, QuietNew DEF Enqueue, Fresh, NewRow, TypeOK
  <2>2. ASSUME NEW j \in Jobs, NEW o \in Outcomes, CancelQueued(j, o)
        PROVE  Quiet(jobs, jobs')
    BY <2>2, QuietCancel DEF CancelQueued
  <2>3. ASSUME NEW j \in Jobs, NEW o \in Outcomes, CancelRunning(j, o)
        PROVE  Quiet(jobs, jobs')
    BY <2>3, QuietTransition DEF CancelRunning, TypeOK, Terminal
  <2>4. QED
    BY <1>1, <2>1, <2>2, <2>3 DEF ClientNext, Loud
<1>2. CASE SessionNext
  <2>1. ASSUME NEW s \in Sessions, CreateSession(s) \/ RenewSession(s) \/ LeaseTick(s)
        PROVE  Quiet(jobs, jobs')
    BY <2>1, QuietStill DEF CreateSession, RenewSession, LeaseTick
  <2>2. ASSUME NEW s \in Sessions, NEW j \in Jobs, NEW p \in Snapshots, SubmitLost(s, j, p)
        PROVE  Quiet(jobs, jobs')
    BY <2>2, QuietSubmit DEF SubmitLost
  <2>3. ASSUME NEW s \in Sessions, CloseSession(s) \/ ClosePendingLost(s)
        PROVE  Quiet(jobs, jobs')
    BY <2>3, QuietClose DEF CloseSession, ClosePendingLost
  <2>4. ASSUME NEW s \in Sessions, NEW o \in {"fail", "lost"}, CloseRunningFailed(s, o)
        PROVE  Quiet(jobs, jobs')
    BY <2>4, QuietClose DEF CloseRunningFailed
  <2>5. QED
    BY <1>2, <2>1, <2>2, <2>3, <2>4, QuietSubmit DEF SessionNext
<1>3. ASSUME NEW w \in Workers, WorkerNext(w)
      PROVE  Quiet(jobs, jobs') \/ Loud
  <2>1. CASE \/ Receive(w) \/ TakeSession(w) \/ SkipPublish(w) \/ Deactivate(w) \/ OpenGate(w)
             \/ Requeue(w) \/ Forget(w) \/ \E o \in Outcomes : LoadJob(w, o) \/ SettleSession(w, o)
    BY <2>1, QuietStill
       DEF Receive, TakeSession, SkipPublish, Deactivate, OpenGate, Requeue, Forget, LoadJob,
           SettleSession
  <2>2. ASSUME NEW o \in Outcomes, RejectJob(w, o)
        PROVE  Quiet(jobs, jobs')
    BY <2>2, HeldJob, QuietCancel DEF RejectJob
  <2>3. ASSUME NEW out \in {"succeeded", "failed"}, NEW o \in Outcomes, FinishJob(w, out, o)
        PROVE  Quiet(jobs, jobs')
    BY <2>3, HeldJob, QuietTransition, QuietStill DEF FinishJob, Terminal, TypeOK
  <2>4. ASSUME NEW o \in Outcomes, PublishJob(w, o)
        PROVE  Quiet(jobs, jobs')
    BY <2>4, HeldJob, QuietAccount DEF PublishJob, TypeOK
  <2>5. QED
    BY <1>3, <2>1, <2>2, <2>3, <2>4 DEF WorkerNext, Loud
<1>4. CASE RecoveryNext
  <2>1. ASSUME NEW j \in Jobs, j \in Deferred
        PROVE  Quiet(jobs, RecoveredRow(j))
    <3>1. completions[j] \in Completion /\ completions[j] # NoCompletion
      BY <2>1 DEF TypeOK, Deferred, NoCompletion
    <3>2. completions[j].to \in Terminal
      BY <3>1 DEF Completion, Terminal
    <3>3. QED
      BY <3>2, QuietTransition, QuietAccount DEF RecoveredRow, TypeOK
  <2>2. QED
    BY <1>4, <2>1, QuietStill DEF RecoveryNext, RetryCompletion, RetryLost, RecoverSession, RecoverGate
<1>5. CASE BackgroundNext
  <2>1. ASSUME NEW j \in Jobs, NEW o \in Outcomes, CancelUnsent(j, o)
        PROVE  Quiet(jobs, jobs')
    BY <2>1, QuietCancel DEF CancelUnsent
  <2>2. ASSUME NEW j \in Jobs, FeedRecovered(j)
        PROVE  Quiet(jobs, jobs')
    BY <2>2, QuietStill DEF FeedRecovered
  <2>3. ASSUME NEW s \in Sessions, MaintainSession(s)
        PROVE  Quiet(jobs, jobs')
    BY <2>3, QuietStill DEF MaintainSession
  <2>4. QED
    BY <1>5, <2>1, <2>2, <2>3 DEF BackgroundNext, Loud
<1>6. QED
  BY <1>1, <1>2, <1>3, <1>4, <1>5 DEF Next

-----------------------------------------------------------------------------
(* Terminal rows. *)

StableRows == \A j \in Jobs : jobs[j].status \in Terminal
                             => jobs'[j].status \in {jobs[j].status, "deleted"}

(* No step changes a terminal row except by deleting it. *)
LEMMA NextStable == TypeInv /\ [Next]_vars => [StableRows]_vars
<1>1. SUFFICES ASSUME TypeInv, Next PROVE StableRows
  OBVIOUS
<1> USE <1>1 DEF TypeInv
<1>2. CASE Quiet(jobs, jobs')
  BY <1>2 DEF Quiet, QuietMoves, StableRows, Terminal
<1>3. ASSUME NEW w \in Workers, NEW o \in Outcomes, StartJob(w, o)
      PROVE  StableRows
  BY <1>3 DEF StartJob, Transition, SetStatus, StableRows, Terminal, TypeOK, Job
<1>4. ASSUME NEW j \in Jobs, PruneTerminal(j)
      PROVE  StableRows
  BY <1>4 DEF PruneTerminal, SetStatus, StableRows, TypeOK, Job
<1>5. CASE CleanupProject
  BY <1>5 DEF CleanupProject, StableRows, TypeOK, Job
<1>6. CASE Restart
  <2>1. ASSUME NEW bad, RestartListed(bad)
        PROVE  StableRows
    BY <2>1 DEF RestartListed, PendingRows, StableRows, Terminal, Pending, TypeOK, Job
  <2>2. ASSUME RestartBlind
        PROVE  StableRows
    BY <2>2 DEF RestartBlind, StableRows, Terminal, TypeOK, Job
  <2>3. QED
    BY <1>6, <2>1, <2>2 DEF Restart
<1>7. QED
  BY <1>2, <1>3, <1>4, <1>5, <1>6, NextQuiet DEF Loud

(* Whoever comes late (a worker, Cancel, CloseSession, the recovery of a    *)
(* deferred completion, Start), a terminal row keeps its status until it is *)
(* deleted.                                                                 *)
THEOREM TerminalStableHolds == Spec => TerminalStable
<1>1. [StableRows]_vars => [\A j \in Jobs : jobs[j].status \in Terminal
                              => jobs'[j].status \in {jobs[j].status, "deleted"}]_vars
  BY DEF StableRows
<1>2. QED
  BY InitType, NextType, NextStable, <1>1, PTL DEF Spec, TerminalStable

-----------------------------------------------------------------------------
(* Pending revisions. *)

(* PendingNotStarted made inductive: it speaks of every session. *)
Waiting ==
    \A s \in Sessions : sessions[s].pending # NoJob
                        => jobs[sessions[s].pending].status \in {"queued", "cancelled"}

PendingKept == \A s \in Sessions : sessions'[s].pending \in {sessions[s].pending, NoJob}

(* Only SubmitRevision makes a job the pending one of its session. *)
LEMMA NextPending ==
    ASSUME TypeInv, TokenInv, Next
    PROVE  \/ \E s \in Sessions, j \in Jobs, p \in Snapshots : SubmitRevision(s, j, p)
           \/ PendingKept
<1> USE DEF TypeInv
<1>1. sessions' = sessions \/ SessionsKept => PendingKept
  BY DEF PendingKept, SessionsKept
<1>2. CASE ClientNext
  BY <1>1, <1>2 DEF ClientNext, Enqueue, CancelQueued, CancelRunning, CleanupProject
<1>3. CASE SessionNext
  <2>1. ASSUME NEW s \in Sessions, CreateSession(s) \/ CloseSession(s)
        PROVE  PendingKept
    <3>1. CASE CreateSession(s)
      BY <3>1 DEF CreateSession, NoLease, TypeOK, PendingKept
    <3>2. CASE CloseSession(s)
      BY <3>2 DEF CloseSession, NoLease, ClosedLease, TypeOK, PendingKept
    <3>3. QED
      BY <2>1, <3>1, <3>2
  <2>2. ASSUME NEW s \in Sessions, RenewSession(s) \/ LeaseTick(s)
        PROVE  PendingKept
    BY <2>2, LeaseFacts DEF PendingKept
  <2>3. QED
    BY <1>1, <1>3, <2>1, <2>2
       DEF SessionNext, SubmitLost, SubmitFailed, ClosePendingLost, CloseRunningFailed
<1>4. ASSUME NEW w \in Workers, WorkerNext(w)
      PROVE  PendingKept
  <2>1. CASE TakeSession(w)
    <3>1. worker[w].token \in Sessions /\ sessions[worker[w].token] \in Session
      BY <2>1 DEF TakeSession, WorkerHolds, TypeOK
    <3>2. QED
      BY <2>1, <3>1 DEF TakeSession, Taken, TypeOK, Session, PendingKept
  <2>2. ASSUME NEW o \in Outcomes, SettleSession(w, o)
        PROVE  PendingKept
    BY <1>1, <2>2, HeldJob, FinishFacts DEF SettleSession
  <2>3. QED
    BY <1>1, <1>4, <2>1, <2>2
       DEF WorkerNext, Receive, LoadJob, RejectJob, StartJob, FinishJob, PublishJob, SkipPublish,
           Deactivate, OpenGate, Requeue, Forget
<1>5. CASE RecoveryNext
  <2>1. CASE RecoverSession
    BY <1>1, <2>1, FinishFacts DEF RecoverSession, RecoveryHolds
  <2>2. QED
    BY <1>1, <1>5, <2>1 DEF RecoveryNext, RetryCompletion, RetryLost, RecoverGate
<1>6. CASE BackgroundNext
  <2>1. ASSUME NEW s \in Sessions, MaintainSession(s)
        PROVE  PendingKept
    <3>1. sessions[s] \in Session /\ sessions[s].status = "live"
      BY <2>1 DEF MaintainSession, LiveSessions, TypeOK
    <3>2. QED
      BY <1>1, <2>1, <3>1, ScheduleFacts DEF MaintainSession
  <2>2. CASE Restart
    BY <2>2 DEF Restart, ClosedLease, NoLease, PendingKept
  <2>3. QED
    BY <1>1, <1>6, <2>1, <2>2 DEF BackgroundNext, CancelUnsent, FeedRecovered, PruneTerminal
<1>7. QED
  BY <1>2, <1>3, <1>4, <1>5, <1>6 DEF Next

(* Every step keeps the pending revisions waiting. *)
LEMMA NextWaiting ==
    ASSUME LongRetention, TypeInv, TokenInv, Waiting, Next
    PROVE  Waiting'
<1> USE DEF TypeInv
<1>1. ASSUME NEW s \in Sessions, NEW j \in Jobs, NEW p \in Snapshots, SubmitRevision(s, j, p)
      PROVE  Waiting'
  <2> DEFINE S == [sessions[s] EXCEPT !.revision = @ + 1, !.pending = j, !.snapshot = p,
                                      !.lease = LeaseTTL]
  <2>1. Quiet(jobs, jobs')
    BY <1>1, QuietSubmit
  <2>2. jobs[j].status = "none"
    BY <1>1 DEF SubmitRevision, AdmitRevision, Fresh
  <2>3. jobs'[j].status = "queued"
    BY <1>1, <2>2, PendingType
       DEF SubmitRevision, NewRevision, NewRow, Supersedes, Transition, SetStatus, TypeOK
  <2>4. sessions'[s].pending = j /\ \A r \in Sessions \ {s} : sessions'[r] = sessions[r]
    BY <1>1 DEF SubmitRevision, ScheduleSession, TypeOK, Session
  <2>5. QED
    BY <2>1, <2>3, <2>4, PendingType DEF Waiting, Quiet, QuietMoves
<1>2. CASE PendingKept /\ Quiet(jobs, jobs')
  BY <1>2, PendingType DEF Waiting, PendingKept, Quiet, QuietMoves
<1>3. ASSUME NEW w \in Workers, NEW o \in Outcomes, StartJob(w, o), PendingKept
      PROVE  Waiting'
  <2>1. worker[w].token \in Jobs
    BY <1>3, HeldJob DEF StartJob
  <2>2. \A s \in Sessions : sessions[s].pending # worker[w].token
    BY <2>1, SessionsNotJobs DEF TokenInv, PendingUnplaced, Placed
  <2>3. \A j \in Jobs \ {worker[w].token} : jobs'[j] = jobs[j]
    BY <1>3, <2>1 DEF StartJob, Transition, SetStatus, TypeOK
  <2>4. QED
    BY <1>3, <2>2, <2>3, PendingType DEF Waiting, PendingKept
<1>4. ASSUME NEW j \in Jobs, PruneTerminal(j), PendingKept
      PROVE  Waiting'
  <2>1. \A s \in Sessions : sessions[s].pending # j
    BY <1>4 DEF PruneTerminal, Expired, Referenced
  <2>2. \A k \in Jobs \ {j} : jobs'[k] = jobs[k]
    BY <1>4 DEF PruneTerminal, SetStatus, TypeOK
  <2>3. QED
    BY <1>4, <2>1, <2>2, PendingType DEF Waiting, PendingKept
<1>5. CASE CleanupProject /\ PendingKept
  BY <1>5 DEF CleanupProject, LiveSessions, TokenInv, PendingUnplaced, Waiting, PendingKept
<1>6. CASE Restart
  <2>1. \A s \in Sessions : sessions'[s].pending = NoJob
    BY <1>6 DEF Restart, ClosedLease, NoLease, TokenInv, PendingUnplaced
  <2>2. QED
    BY <2>1 DEF Waiting
<1>7. QED
  BY <1>1, <1>2, <1>3, <1>4, <1>5, <1>6, NextPending, NextQuiet DEF Loud

(* With a retention longer than any queue wait, the revision a session      *)
(* holds back is queued or cancelled and never a running or finished row,   *)
(* so SubmitRevision and closeSessionLocked, which read it through Get      *)
(* under admissionMu, never wait there for a publication gate.              *)
THEOREM PendingNotStartedHolds ==
    ASSUME LongRetention
    PROVE  Spec => []PendingNotStarted
<1>1. Init => Waiting
  BY DEF Init, NoLease, Waiting
<1>2. TypeInv /\ TokenInv /\ Waiting /\ [Next]_vars => Waiting'
  <2>1. SUFFICES ASSUME TypeInv, TokenInv, Waiting, [Next]_vars PROVE Waiting'
    OBVIOUS
  <2>2. CASE Next
    BY <2>1, <2>2, NextWaiting
  <2>3. CASE UNCHANGED vars
    BY <2>1, <2>3 DEF vars, Waiting
  <2>4. QED
    BY <2>1, <2>2, <2>3
<1>3. Waiting => PendingNotStarted
  BY DEF Waiting, PendingNotStarted, LiveSessions
<1>4. QED
  BY InitType, NextType, InitTokens, NextTokens, <1>1, <1>2, <1>3, PTL DEF Spec

-----------------------------------------------------------------------------
(***************************************************************************)
(* The publication gates, and with them the lifecycle a client sees: the   *)
(* proofs of DeferredHasRow, OpenGateFinal and ImplementsLifecycle.        *)
(*                                                                         *)
(* The cache accounting of a succeeded row is written by the worker that   *)
(* publishes it or by the recovery of its deferred completion.  Both must  *)
(* find the gate closed.  GateInv says who holds it closed at each stage:  *)
(* a queued job on its way to a worker, the attempt, the deferred          *)
(* completion.                                                             *)
(***************************************************************************)
(* A job on its way to a worker, or held back by its session. *)
Held(j) == Placed(j) \/ \E s \in Sessions : sessions[s].pending = j

(* The gate of a job that will be started is closed. *)
WaitingGated == \A j \in Queued : Held(j) => j \in publications

Attempts == {"compile", "publish"}

(* The row of a started job is there, unless the job lost its entry in     *)
(* m.active and with it the protection from cleanupProject.                *)
RowKept(j) ==
    \/ jobs[j].status \in Terminal \cup {"running"}
    \/ jobs[j].status = "deleted" /\ j \in unmarked

(* An attempt is active (or was taken out of m.active by another worker),  *)
(* its gate is closed, and neither a completion nor the recovery goroutine *)
(* knows its job.                                                          *)
AttemptGated ==
    \A w \in Workers : worker[w].pc \in Attempts =>
        /\ worker[w].token \in publications /\ worker[w].token \notin Deferred
        /\ worker[w].token \in active \cup unmarked
        /\ RowKept(worker[w].token)
        /\ recovery.pc # "idle" => recovery.job # worker[w].token

(* A deferred completion keeps its gate closed and its row alive. *)
DeferredGated == \A j \in Deferred : j \in publications /\ RowKept(j)

(* What recovery works on has started. *)
RecoveryPast == recovery.pc # "idle" => jobs[recovery.job].status \notin {"none", "queued"}

Unaccounted == \A j \in Jobs : jobs[j].status = "none" => ~jobs[j].accounted

GateInv == WaitingGated /\ AttemptGated /\ DeferredGated /\ RecoveryPast /\ Unaccounted

(* What the lifecycle asks of a step of a running server. *)
GatesObeyed ==
    /\ \A j \in Jobs : jobs'[j].status \in Lifecycle!Moves(jobs[j].status)
    /\ \A j \in Jobs : jobs'[j].accounted # jobs[j].accounted
                       => jobs'[j].accounted /\ jobs[j].status = "succeeded" /\ j \in publications
    /\ \A j \in publications' \ publications : jobs[j].status = "none"

-----------------------------------------------------------------------------
(* What each step but a restart does to the parts of GateInv. *)

Attempting(j) == \E w \in Workers : worker[w].pc \in Attempts /\ worker[w].token = j

(* A row moves quietly, is started, or is removed behind nobody's back. *)
RowsMove ==
    \A j \in Jobs :
        \/ jobs'[j].status \in QuietMoves(jobs[j].status)
        \/ jobs[j].status = "queued" /\ jobs'[j].status = "running"
        \/ /\ jobs[j].status \in Terminal /\ jobs'[j].status = "deleted"
           /\ j \in unmarked \/ (j \notin Deferred /\ ~Attempting(j))

(* A gate opens for a row the step cancels, or when nobody needs it. *)
Released(j) ==
    /\ ~Held(j)' \/ jobs[j].status \notin {"none", "queued"}
    /\ j \notin Deferred' /\ ~Attempting(j)'
GatesKept ==
    \A j \in publications : \/ j \in publications'
                            \/ jobs[j].status = "queued" /\ jobs'[j].status = "cancelled"
                            \/ Released(j)

(* A row is accounted for behind its gate; a new one starts without. *)
AccountsKept(js, ks) ==
    \A j \in Jobs : \/ ks[j].accounted = js[j].accounted
                    \/ js[j].status = "none" /\ ~ks[j].accounted
                    \/ js[j].status = "succeeded" /\ ks[j].accounted /\ j \in publications

Started(w) == jobs[worker[w].token].status = "queued" /\ jobs'[worker[w].token].status = "running"
AttemptsKept ==
    \A w \in Workers : worker'[w].pc \in Attempts =>
        worker'[w].token = worker[w].token /\ (worker[w].pc \in Attempts \/ Started(w))
UnmarkedKept == unmarked \subseteq unmarked'
ActiveKept ==
    \A w \in Workers : worker'[w].pc \in Attempts => worker'[w].token \in active' \cup unmarked'

HeldKept == \A j \in Jobs : Held(j)' => Held(j) \/ j \in publications'
DeferredKept == \A j \in Deferred' \ Deferred : Attempting(j) /\ ~Attempting(j)'
RecoveryKept ==
    recovery'.pc # "idle" => \/ recovery.pc # "idle" /\ recovery'.job = recovery.job
                             \/ recovery'.job \in Deferred
GatesNew == \A j \in publications' \ publications : jobs[j].status = "none"

(* A job on its way has a row. *)
LEMMA HeldRow ==
    ASSUME TypeInv, TokenInv, NEW j \in Jobs, Held(j)
    PROVE  jobs[j].status # "none"
BY SessionsNotJobs DEF TokenInv, UnbornUnplaced, PendingUnplaced, Held

(* These facts about a step are all that GateInv needs. *)
LEMMA GateStep ==
    ASSUME TypeInv, TypeInv', TokenInv, GateInv, UnmarkedKept, RowsMove, GatesKept, AccountsKept(jobs, jobs'),
           AttemptsKept, ActiveKept, HeldKept, DeferredKept, RecoveryKept, GatesNew
    PROVE  GateInv' /\ GatesObeyed
<1>1. \A j \in Jobs : jobs[j].status \in Status
  BY DEF TypeInv, TypeOK, Job
<1>2. \A j \in Jobs : /\ jobs[j].status \in Terminal \cup {"running"} =>
                            \/ jobs'[j].status \in Terminal \cup {"running"}
                            \/ jobs'[j].status = "deleted" /\ (j \in unmarked \/ (j \notin Deferred /\ ~Attempting(j)))
                      /\ jobs[j].status = "deleted" => jobs'[j].status = "deleted"
                      /\ jobs'[j].status = "queued" => jobs[j].status \in {"none", "queued"}
                      /\ jobs'[j].status = "none" => jobs[j].status = "none"
                      /\ jobs[j].status \notin {"none", "queued"} => jobs'[j].status \notin {"none", "queued"}
  BY <1>1 DEF RowsMove, QuietMoves, Status, Terminal, Pending
<1>4. WaitingGated'
  <2> SUFFICES ASSUME NEW j \in Jobs, jobs'[j].status = "queued", Held(j)'
               PROVE  j \in publications'
    BY DEF WaitingGated, Queued
  <2>1. CASE Held(j)
    <3>1. jobs[j].status = "queued"
      BY <1>2, <2>1, HeldRow
    <3>2. j \in publications
      BY <2>1, <3>1 DEF GateInv, WaitingGated, Queued
    <3>3. QED
      BY <3>1, <3>2 DEF GatesKept, Released
  <2>2. QED
    BY <2>1 DEF HeldKept
<1>5. AttemptGated'
  <2> SUFFICES ASSUME NEW w \in Workers, worker'[w].pc \in Attempts
               PROVE  /\ worker'[w].token \in publications' /\ worker'[w].token \notin Deferred'
                      /\ worker'[w].token \in active' \cup unmarked'
                      /\ RowKept(worker[w].token)'
                      /\ recovery'.pc # "idle" => recovery'.job # worker'[w].token
    BY DEF AttemptGated
  <2>0. worker[w].token \in Jobs
    BY DEF AttemptsKept, TypeInv, WorkerHolds, Attempts
  <2>2. PICK j \in Jobs : j = worker[w].token
    BY <2>0
  <2>1. /\ worker'[w].token = j /\ j \in active' \cup unmarked' /\ Attempting(j)'
        /\ worker[w].pc \in Attempts \/ Started(w)
    BY <2>2 DEF AttemptsKept, ActiveKept, Attempting
  <2>3. CASE worker[w].pc \in Attempts
    <3>1. /\ j \in publications /\ j \notin Deferred /\ RowKept(j)
          /\ recovery.pc # "idle" => recovery.job # j
      BY <2>2, <2>3 DEF GateInv, AttemptGated
    <3>2. Attempting(j) /\ jobs[j].status # "queued"
      BY <2>2, <2>3, <3>1 DEF Attempting, RowKept, Terminal
    <3>3. j \in publications' /\ j \notin Deferred'
      BY <2>1, <2>2, <3>1, <3>2 DEF GatesKept, Released, DeferredKept
    <3>4. RowKept(j)'
      BY <1>2, <2>2, <3>1, <3>2 DEF RowKept, UnmarkedKept
    <3>5. recovery'.pc # "idle" => recovery'.job # j
      BY <3>1 DEF RecoveryKept
    <3>6. QED
      BY <2>1, <3>3, <3>4, <3>5
  <2>4. CASE worker[w].pc \notin Attempts /\ Started(w)
    <3>1. jobs[j].status = "queued" /\ jobs'[j].status = "running"
      BY <2>2, <2>4 DEF Started
    <3>2. Held(j)
      BY <2>2 DEF Held, Placed
    <3>3. j \in publications /\ j \notin Deferred
      BY <2>2, <3>1, <3>2 DEF GateInv, WaitingGated, Queued, DeferredGated, RowKept, Terminal
    <3>4. j \in publications' /\ j \notin Deferred'
      BY <2>1, <2>2, <3>1, <3>3 DEF GatesKept, Released, DeferredKept
    <3>5. recovery'.pc # "idle" => recovery'.job # j
      BY <3>1, <3>3 DEF RecoveryKept, GateInv, RecoveryPast
    <3>6. RowKept(j)'
      BY <3>1 DEF RowKept
    <3>7. QED
      BY <2>1, <3>4, <3>5, <3>6
  <2>5. QED
    BY <2>1, <2>3, <2>4
<1>6. DeferredGated'
  <2> SUFFICES ASSUME NEW j \in Jobs, j \in Deferred'
               PROVE  j \in publications' /\ RowKept(j)'
    BY DEF DeferredGated, Deferred
  <2>1. j \in publications /\ RowKept(j)
    BY DEF GateInv, DeferredGated, AttemptGated, DeferredKept, Attempting
  <2>2. j \in publications'
    BY <2>1 DEF GatesKept, Released, RowKept, Terminal
  <2>3. RowKept(j)'
    BY <1>2, <2>1 DEF DeferredKept, RowKept, UnmarkedKept
  <2>4. QED
    BY <2>2, <2>3
<1>7. RecoveryPast'
  <2>1. recovery'.pc # "idle" => recovery'.job \in Jobs /\ jobs[recovery'.job].status \notin {"none", "queued"}
    BY DEF RecoveryKept, GateInv, RecoveryPast, DeferredGated, RowKept, Terminal, TypeInv, RecoveryHolds
  <2>2. QED
    BY <1>2, <2>1 DEF RecoveryPast
<1>8. Unaccounted'
  BY <1>2 DEF GateInv, Unaccounted, AccountsKept
<1>9. \A j \in Jobs : jobs'[j].status \in Lifecycle!Moves(jobs[j].status)
  BY <1>1 DEF RowsMove, QuietMoves, Lifecycle!Moves, Lifecycle!Final, Status, Terminal, Pending
<1>10. GatesObeyed
  BY <1>9 DEF GatesObeyed, AccountsKept, GatesNew, GateInv, Unaccounted, TypeInv, TypeOK, Job
<1>11. QED
  BY <1>4, <1>5, <1>6, <1>7, <1>8, <1>10 DEF GateInv

(* A step that starts, removes and defers nothing. *)
LEMMA QuietStep ==
    ASSUME TypeInv, TypeInv', TokenInv, GateInv, UnmarkedKept, Quiet(jobs, jobs'), GatesKept, AccountsKept(jobs, jobs'),
           AttemptsKept, HeldKept, Deferred' \subseteq Deferred, active \subseteq active' \cup unmarked',
           RecoveryKept, GatesNew
    PROVE  GateInv' /\ GatesObeyed
<1>1. RowsMove
  BY DEF RowsMove, Quiet
<1>2. ActiveKept
  <2> SUFFICES ASSUME NEW w \in Workers, worker'[w].pc \in Attempts
               PROVE  worker'[w].token \in active' \cup unmarked'
    BY DEF ActiveKept
  <2>1. worker'[w].token = worker[w].token /\ (worker[w].pc \in Attempts \/ Started(w))
    BY DEF AttemptsKept
  <2>2. worker[w].token \in Jobs
    BY <2>1 DEF TypeInv, WorkerHolds, Attempts
  <2>3. ~Started(w)
    BY <2>2 DEF Quiet, QuietMoves, Started
  <2>4. QED
    BY <2>1, <2>3 DEF GateInv, AttemptGated, UnmarkedKept
<1>3. DeferredKept
  BY DEF DeferredKept
<1>4. QED
  BY <1>1, <1>2, <1>3, GateStep

-----------------------------------------------------------------------------
(* What the operators do to the accounts and to the gates. *)

(* Changing a status does not change whether a row has its accounting. *)
LEMMA AccountsFacts ==
    ASSUME NEW js \in [Jobs -> Job], NEW j \in Jobs, NEW st, NEW from
    PROVE  /\ AccountsKept(js, js)
           /\ \A k \in Jobs : SetStatus(js, j, st)[k].accounted = js[k].accounted
           /\ \A k \in Jobs : Transition(js, j, from, st)[k].accounted = js[k].accounted
<1>1. \A k \in Jobs : SetStatus(js, j, st)[k].accounted = js[k].accounted
  BY DEF SetStatus, Job
<1>2. QED
  BY <1>1 DEF AccountsKept, Transition

(* What a step that leaves the attempts, the jobs on their way, the        *)
(* completions, the active jobs or the recovery alone keeps.               *)
LEMMA GateStill ==
    ASSUME TypeInv, TokenInv
    PROVE  /\ jobs' = jobs => AccountsKept(jobs, jobs') /\ Quiet(jobs, jobs')
           /\ worker' = worker => AttemptsKept
           /\ publications' = publications => GatesKept
           /\ completions' = completions => Deferred' = Deferred
           /\ ChannelKept /\ WorkersKept /\ SessionsKept /\ FeedersKept => HeldKept
<1>1. ChannelKept /\ WorkersKept /\ SessionsKept /\ FeedersKept => HeldKept
  BY SessionsNotJobs DEF HeldKept, Held, Placed, InChannel, In, ChannelKept, WorkersKept, SessionsKept, FeedersKept
<1>2. QED
  BY <1>1, QuietStill DEF AccountsKept, AttemptsKept, GatesKept, Deferred

(* A worker that goes on within or outside an attempt does not start one. *)
LEMMA GotoAttempts ==
    ASSUME TypeInv, NEW w \in Workers, NEW pc, NEW known, Goto(w, pc, known) \/ Idle(w),
           pc \notin Attempts \/ worker[w].pc \in Attempts
    PROVE  AttemptsKept
<1>1. CASE Goto(w, pc, known)
  <2>1. \A v \in Workers : worker'[v].token = worker[v].token /\ (v # w => worker'[v].pc = worker[v].pc) /\ worker'[w].pc = pc
    BY <1>1 DEF Goto, TypeInv, TypeOK, Worker
  <2>2. QED
    BY <2>1 DEF AttemptsKept
<1>2. CASE Idle(w)
  BY <1>2 DEF Idle, IdleWorker, TypeInv, TypeOK, AttemptsKept, Attempts
<1>3. QED
  BY <1>1, <1>2

(* cancel opens the gate only of the row it cancels. *)
LEMMA CancelGates ==
    ASSUME TypeOK, NEW j \in Jobs, NEW o, CancelRow(j, o)
    PROVE  Quiet(jobs, jobs') /\ GatesKept /\ AccountsKept(jobs, jobs') /\ publications' \subseteq publications
<1>1. Quiet(jobs, jobs')
  BY QuietCancel
<1>2. AccountsKept(jobs, jobs')
  <2>1. \A k \in Jobs : Transition(jobs, j, "queued", "cancelled")[k].accounted = jobs[k].accounted
    BY AccountsFacts DEF TypeOK
  <2>2. QED
    BY <2>1 DEF CancelRow, AccountsKept
<1>3. GatesKept /\ publications' \subseteq publications
  <2>1. CASE jobs[j].status = "queued" /\ o = "ok"
    <3>1. jobs'[j].status = "cancelled"
      BY <2>1 DEF CancelRow, Transition, SetStatus, TypeOK, Job
    <3>2. QED
      BY <2>1, <3>1 DEF CancelRow, EndPublication, GatesKept
  <2>2. CASE ~(jobs[j].status = "queued" /\ o = "ok")
    BY <2>2 DEF CancelRow, GatesKept
  <2>3. QED
    BY <2>1, <2>2
<1>4. QED
  BY <1>1, <1>2, <1>3

-----------------------------------------------------------------------------
(* The actions, each but Restart. *)

(* Clients submit and cancel without touching a gate of a running job. *)
LEMMA ClientGates ==
    ASSUME TypeInv, TypeInv', TokenInv, GateInv, UnmarkedKept,
           \/ \E j \in Jobs, p \in Snapshots, o \in Outcomes : Enqueue(j, p, o)
           \/ \E j \in Jobs, o \in Outcomes : CancelQueued(j, o) \/ CancelRunning(j, o) \/ CancelUnsent(j, o)
    PROVE  GateInv' /\ GatesObeyed
<1> USE DEF TypeInv
<1>1. ASSUME NEW j \in Jobs, NEW p \in Snapshots, NEW o \in Outcomes, Enqueue(j, p, o)
      PROVE  GateInv' /\ GatesObeyed
  <2>1. /\ jobs[j].status = "none" /\ jobs' = [jobs EXCEPT ![j] = NewRow(p, NoSession, 0)]
        /\ UNCHANGED <<active, completions, sessions, worker, recovery, recovering>>
        /\ \/ UNCHANGED <<publications, queue, unsent>>
           \/ publications' = publications \cup {j} /\ queue' = Append(queue, j) /\ unsent' = unsent
           \/ publications' = publications \cup {j} /\ queue' = queue /\ unsent' = unsent \cup {j}
    BY <1>1 DEF Enqueue, Fresh, UnsentAfter, asideVars
  <2>2. Quiet(jobs, jobs') /\ AccountsKept(jobs, jobs')
    <3>1. NewRow(p, NoSession, 0) \in Job /\ NewRow(p, NoSession, 0).status = "queued" /\ ~NewRow(p, NoSession, 0).accounted
      BY NewRowType DEF NewRow
    <3>2. QED
      BY <2>1, <3>1, QuietNew DEF AccountsKept, TypeOK
  <2>3. HeldKept
    <3>1. queue \in Seq(Jobs \cup Sessions) /\ j \in Jobs \cup Sessions
      BY DEF TypeOK
    <3>2. \A k : In(Append(queue, j), k) <=> In(queue, k) \/ k = j
      BY <3>1, SendFacts
    <3>3. \A k \in Jobs : In(queue', k) => In(queue, k) \/ (k = j /\ j \in publications')
      BY <2>1, <3>2
    <3>4. \A k \in Jobs : k \in recovering' \cup unsent' => k \in recovering \cup unsent \/ (k = j /\ j \in publications')
      BY <2>1
    <3>5. QED
      BY <2>1, <3>3, <3>4 DEF HeldKept, Held, Placed, InChannel, In
  <2>4. GatesKept /\ AttemptsKept /\ Deferred' = Deferred
    BY <2>1 DEF GatesKept, AttemptsKept, Deferred
  <2>5. QED
    BY <2>1, <2>2, <2>3, <2>4, QuietStep DEF GatesNew, RecoveryKept
<1>2. ASSUME NEW j \in Jobs, NEW o \in Outcomes, CancelQueued(j, o) \/ CancelUnsent(j, o)
      PROVE  GateInv' /\ GatesObeyed
  <2>1. CancelRow(j, o) /\ UNCHANGED <<queue, active, completions, sessions, worker, recovery, recovering>> /\ unsent' \subseteq unsent
    BY <1>2 DEF CancelQueued, CancelUnsent, asideVars
  <2>2. Quiet(jobs, jobs') /\ GatesKept /\ AccountsKept(jobs, jobs') /\ publications' \subseteq publications
    BY <2>1, CancelGates
  <2>3. AttemptsKept /\ Deferred' = Deferred /\ HeldKept
    <3>1. FeedersKept
      BY <2>1 DEF FeedersKept
    <3>2. QED
      BY <2>1, <3>1, GateStill, StillFacts
  <2>4. QED
    BY <2>1, <2>2, <2>3, QuietStep DEF GatesNew, RecoveryKept
<1>3. ASSUME NEW j \in Jobs, NEW o \in Outcomes, CancelRunning(j, o)
      PROVE  GateInv' /\ GatesObeyed
  <2>1. /\ jobs' = Transition(jobs, j, "running", "cancelled")
        /\ UNCHANGED <<queue, active, completions, publications, sessions, worker, recovery, recovering, unsent>>
    BY <1>3 DEF CancelRunning, asideVars
  <2>2. Quiet(jobs, jobs') /\ AccountsKept(jobs, jobs')
    <3>1. Quiet(jobs, jobs')
      BY <2>1, QuietTransition DEF TypeOK, Terminal
    <3>2. \A k \in Jobs : Transition(jobs, j, "running", "cancelled")[k].accounted = jobs[k].accounted
      <4>1. jobs \in [Jobs -> Job]
        BY DEF TypeOK
      <4>2. QED
        BY <4>1, AccountsFacts
    <3>3. QED
      BY <2>1, <3>1, <3>2 DEF AccountsKept
  <2>3. GatesKept /\ AttemptsKept /\ Deferred' = Deferred /\ HeldKept
    BY <2>1, GateStill, StillFacts
  <2>4. QED
    BY <2>1, <2>2, <2>3, QuietStep DEF GatesNew, RecoveryKept
<1>4. QED
  BY <1>1, <1>2, <1>3

(* Steps that touch no row, gate or completion. *)
LEMMA TokenGates ==
    ASSUME TypeInv, TypeInv', TokenInv, GateInv, UnmarkedKept, AttemptsKept, HeldKept,
           UNCHANGED <<jobs, publications, completions, active>>, RecoveryKept
    PROVE  GateInv' /\ GatesObeyed
<1>1. Quiet(jobs, jobs') /\ AccountsKept(jobs, jobs') /\ GatesKept /\ Deferred' = Deferred
  BY GateStill
<1>2. QED
  BY <1>1, QuietStep DEF GatesNew

(* A worker that moves between places keeps its gate. *)
LEMMA WorkerMovesGates ==
    ASSUME TypeInv, TypeInv', TokenInv, GateInv, UnmarkedKept, NEW w \in Workers,
           Receive(w) \/ TakeSession(w) \/ SkipPublish(w) \/ Requeue(w) \/ \E o \in Outcomes : LoadJob(w, o) \/ SettleSession(w, o)
    PROVE  GateInv' /\ GatesObeyed
<1> USE DEF TypeInv
<1>1. CASE Receive(w)
  <2>1. /\ worker' = [worker EXCEPT ![w] = [pc |-> IF Head(queue) \in Sessions THEN "take" ELSE "load",
                                            token |-> Head(queue), known |-> "none"]]
        /\ queue # <<>> /\ queue' = Tail(queue)
        /\ UNCHANGED <<jobs, active, completions, publications, sessions, recovery, recovering, unsent>>
    BY <1>1 DEF Receive, asideVars
  <2>2. /\ worker'[w].pc \notin Attempts /\ worker'[w].token = Head(queue)
        /\ \A v \in Workers \ {w} : worker'[v] = worker[v]
    BY <2>1 DEF Attempts, TypeOK
  <2>3. AttemptsKept
    BY <2>2 DEF AttemptsKept
  <2>4. In(queue, Head(queue)) /\ \A t : In(queue', t) => In(queue, t)
    BY <2>1, ReceiveFacts DEF TypeOK
  <2>5. HeldKept
    BY <2>1, <2>2, <2>4 DEF HeldKept, Held, Placed, InChannel, In
  <2>6. QED
    BY <2>1, <2>3, <2>5, TokenGates DEF RecoveryKept
<1>2. CASE TakeSession(w)
  <2> DEFINE s == worker[w].token
             S == sessions[s]
             ready == S.status = "live" /\ S.running = NoJob /\ S.pending # NoJob
  <2>1. s \in Sessions /\ S \in Session /\ UNCHANGED <<jobs, queue, active, completions, publications, recovery, recovering, unsent>>
    BY <1>2 DEF TakeSession, WorkerHolds, TypeOK, asideVars
  <2>2. /\ worker'[w].pc \notin Attempts /\ worker'[w].token \in {NoJob, S.pending}
        /\ \A v \in Workers \ {w} : worker'[v] = worker[v]
    BY <1>2 DEF TakeSession, Attempts, TypeOK, IdleWorker
  <2>3. \A r \in Sessions : sessions'[r].pending \in {sessions[r].pending, NoJob}
    BY <1>2, <2>1 DEF TakeSession, Taken, TypeOK, Session
  <2>4. AttemptsKept
    BY <2>2 DEF AttemptsKept
  <2>5. HeldKept
    <3> SUFFICES ASSUME NEW j \in Jobs, Held(j)' PROVE Held(j)
      BY DEF HeldKept
    <3>1. CASE \E v \in Workers : worker'[v].token = j
      BY <2>1, <2>2, <3>1, SessionsNotJobs DEF Held, Placed
    <3>2. CASE InChannel(j)' \/ j \in recovering' \cup unsent'
      BY <2>1, <3>2 DEF Held, Placed, InChannel
    <3>3. CASE \E r \in Sessions : sessions'[r].pending = j
      BY <2>3, <3>3, SessionsNotJobs DEF Held
    <3>4. QED
      BY <3>1, <3>2, <3>3 DEF Held, Placed
  <2>6. QED
    BY <2>1, <2>4, <2>5, TokenGates DEF RecoveryKept
<1>3. CASE SkipPublish(w)
  <2>1. /\ UNCHANGED <<jobs, queue, active, completions, publications, sessions, recovery, recovering, unsent>>
        /\ worker[w].pc = "publish" /\ Goto(w, "unwind", "succeeded")
    BY <1>3 DEF SkipPublish, asideVars
  <2>2. AttemptsKept /\ WorkersKept
    BY <2>1, GotoAttempts, GotoFacts DEF Attempts
  <2>3. HeldKept
    BY <2>1, <2>2, GateStill, StillFacts
  <2>4. QED
    BY <2>1, <2>2, <2>3, TokenGates DEF RecoveryKept
<1>4. CASE Requeue(w)
  <2>1. /\ UNCHANGED <<jobs, active, completions, publications, sessions, recovery, recovering, unsent>>
        /\ worker[w].pc = "requeue" /\ queue' = Append(queue, worker[w].token)
    BY <1>4 DEF Requeue
  <2>2. AttemptsKept /\ WorkersKept /\ worker[w].token \in Jobs
    BY <1>4, <2>1, RequeueType, HeldJob, SessionsNotJobs DEF AttemptsKept, WorkersKept, Attempts
  <2>3. \A j \in Jobs : In(queue', j) => In(queue, j) \/ j = worker[w].token
    <3>1. queue \in Seq(Jobs \cup Sessions) /\ worker[w].token \in Jobs \cup Sessions
      BY <2>2 DEF TypeOK
    <3>2. QED
      BY <2>1, <3>1, SendFacts
  <2>4. HeldKept
    BY <2>1, <2>2, <2>3 DEF HeldKept, Held, Placed, InChannel, In, WorkersKept
  <2>5. QED
    BY <2>1, <2>2, <2>4, TokenGates DEF RecoveryKept
<1>5. ASSUME NEW o \in Outcomes, LoadJob(w, o)
      PROVE  GateInv' /\ GatesObeyed
  <2>1. /\ UNCHANGED <<jobs, queue, active, completions, publications, sessions, recovery, recovering, unsent>>
        /\ Idle(w) \/ \E pc \in {"requeue", "start", "settle"}, known \in Status \cup {"none"} : Goto(w, pc, known)
    BY <1>5, HeldJob DEF LoadJob, LoadFailed, asideVars
  <2>2. AttemptsKept /\ WorkersKept
    BY <2>1, GotoAttempts, GotoFacts DEF Attempts
  <2>3. HeldKept
    BY <2>1, <2>2, GateStill, StillFacts
  <2>4. QED
    BY <2>1, <2>2, <2>3, TokenGates DEF RecoveryKept
<1>6. ASSUME NEW o \in Outcomes, SettleSession(w, o)
      PROVE  GateInv' /\ GatesObeyed
  <2>1. /\ UNCHANGED <<jobs, active, completions, publications, recovery, recovering, unsent>>
        /\ worker[w].pc = "settle" /\ Goto(w, "gate", worker[w].known)
    BY <1>6 DEF SettleSession, asideVars
  <2>2. ChannelKept /\ SessionsKept
    BY <1>6, <2>1, FinishFacts, HeldJob, StillFacts DEF SettleSession
  <2>3. AttemptsKept /\ WorkersKept
    BY <2>1, GotoAttempts, GotoFacts DEF Attempts
  <2>4. HeldKept
    BY <2>1, <2>2, <2>3, GateStill, StillFacts
  <2>5. QED
    BY <2>1, <2>3, <2>4, TokenGates DEF RecoveryKept
<1>7. QED
  BY <1>1, <1>2, <1>3, <1>4, <1>5, <1>6

(* A worker that moves on keeps its token; the others do not move. *)
LEMMA GotoWorkers ==
    ASSUME TypeInv, NEW w \in Workers, NEW pc, NEW known, Goto(w, pc, known)
    PROVE  /\ \A v \in Workers : worker'[v].token = worker[v].token
           /\ \A v \in Workers \ {w} : worker'[v] = worker[v]
           /\ worker'[w].pc = pc
BY DEF Goto, TypeInv, TypeOK, Worker

(* Starting, ending and publishing an attempt. *)
LEMMA AttemptGates ==
    ASSUME TypeInv, TypeInv', TokenInv, GateInv, UnmarkedKept, NEW w \in Workers, NEW o \in Outcomes,
           \/ RejectJob(w, o) \/ StartJob(w, o) \/ PublishJob(w, o)
           \/ \E out \in {"succeeded", "failed"} : FinishJob(w, out, o)
    PROVE  GateInv' /\ GatesObeyed
<1> USE DEF TypeInv
<1>0. PICK j \in Jobs : j = worker[w].token
  BY HeldJob DEF RejectJob, StartJob, PublishJob, FinishJob
<1>1. jobs \in [Jobs -> Job] /\ jobs[j].status \in Status
  BY DEF TypeOK, Job
<1>2. \A v \in Workers : worker[v].token = j => v = w
  BY <1>0 DEF TokenInv, SoleToken
<1>3. CASE RejectJob(w, o)
  <2>1. /\ CancelRow(j, o) /\ Goto(w, "settle", "queued")
        /\ UNCHANGED <<queue, active, completions, sessions, recovery, recovering, unsent>>
    BY <1>0, <1>3 DEF RejectJob, asideVars
  <2>2. Quiet(jobs, jobs') /\ GatesKept /\ AccountsKept(jobs, jobs') /\ publications' \subseteq publications
    BY <1>1, <2>1, CancelGates
  <2>3. AttemptsKept /\ WorkersKept
    BY <2>1, GotoAttempts, GotoFacts DEF Attempts
  <2>4. HeldKept /\ Deferred' = Deferred
    BY <2>1, <2>3, GateStill, StillFacts
  <2>5. QED
    BY <2>1, <2>2, <2>3, <2>4, QuietStep DEF GatesNew, RecoveryKept
<1>4. CASE StartJob(w, o)
  <2>1. /\ jobs' = jobs \/ jobs' = Transition(jobs, j, "queued", "running")
        /\ active \subseteq active'
        /\ UNCHANGED <<queue, completions, publications, sessions, recovery, recovering, unsent>>
        /\ \E pc \in {"requeue", "compile", "unwind"} :
              /\ Goto(w, pc, "running")
              /\ pc = "compile" => /\ jobs[j].status = "queued" /\ j \in active'
                                   /\ jobs' = Transition(jobs, j, "queued", "running")
    BY <1>0, <1>4 DEF StartJob, TransitionErr, asideVars
  <2>2. /\ \A k \in Jobs : jobs'[k].accounted = jobs[k].accounted
        /\ \A k \in Jobs : jobs'[k].status = jobs[k].status \/ (jobs[k].status = "queued" /\ jobs'[k].status = "running")
        /\ jobs' = Transition(jobs, j, "queued", "running") /\ jobs[j].status = "queued" => jobs'[j].status = "running"
    BY <1>1, <2>1 DEF Transition, SetStatus, Job
  <2>3. /\ \A v \in Workers : worker'[v].token = worker[v].token
        /\ \A v \in Workers \ {w} : worker'[v] = worker[v]
        /\ worker'[w].pc = "compile" => jobs[j].status = "queued" /\ j \in active' /\ jobs'[j].status = "running"
        /\ worker'[w].pc \in {"requeue", "compile", "unwind"}
    BY <2>1, <2>2, GotoWorkers
  <2>4. RowsMove /\ AccountsKept(jobs, jobs')
    BY <2>2 DEF RowsMove, AccountsKept, QuietMoves
  <2>5. AttemptsKept /\ ActiveKept
    BY <1>0, <2>1, <2>3 DEF AttemptsKept, ActiveKept, UnmarkedKept, Started, Attempts, GateInv, AttemptGated
  <2>6. WorkersKept /\ GatesKept /\ DeferredKept /\ GatesNew /\ RecoveryKept
    BY <2>1, <2>3 DEF WorkersKept, GatesKept, DeferredKept, Deferred, GatesNew, RecoveryKept
  <2>7. HeldKept
    BY <2>1, <2>6, GateStill, StillFacts
  <2>8. QED
    BY <2>4, <2>5, <2>6, <2>7, GateStep
<1>5. ASSUME NEW out \in {"succeeded", "failed"}, FinishJob(w, out, o)
      PROVE  GateInv' /\ GatesObeyed
  <2>1. /\ jobs' = jobs \/ jobs' = Transition(jobs, j, "running", out)
        /\ UNCHANGED <<queue, active, publications, sessions, recovery, recovering, unsent>>
        /\ worker[w].pc = "compile"
        /\ \/ completions' = completions /\ \E pc \in {"publish", "unwind"} : \E known : Goto(w, pc, known)
           \/ Defer(j, "running", out) /\ Goto(w, "unwind", out)
    BY <1>0, <1>5 DEF FinishJob, asideVars
  <2>2. Quiet(jobs, jobs') /\ AccountsKept(jobs, jobs')
    BY <1>1, <2>1, QuietTransition, QuietStill, AccountsFacts DEF Terminal, AccountsKept
  <2>3. AttemptsKept
    BY <2>1, GotoAttempts DEF Attempts
  <2>4. WorkersKept /\ GatesKept /\ GatesNew /\ RecoveryKept /\ HeldKept
    <3>1. WorkersKept
      BY <2>1, GotoFacts
    <3>2. QED
      BY <2>1, <3>1, GateStill, StillFacts DEF GatesNew, RecoveryKept
  <2>5. CASE completions' = completions
    BY <2>1, <2>2, <2>3, <2>4, <2>5, QuietStep DEF Deferred
  <2>6. CASE Defer(j, "running", out) /\ Goto(w, "unwind", out)
    <3>1. /\ \A v \in Workers : worker'[v].token = worker[v].token
          /\ \A v \in Workers \ {w} : worker'[v] = worker[v]
          /\ worker'[w].pc = "unwind"
      BY <2>6, GotoWorkers
    <3>2. Attempting(j) /\ ~Attempting(j)'
      BY <1>0, <1>2, <2>1, <3>1 DEF Attempting, Attempts
    <3>3. \A k \in Deferred' \ Deferred : k = j
      BY <1>1, <2>6 DEF Defer, Deferred, TypeOK
    <3>4. DeferredKept
      BY <3>2, <3>3 DEF DeferredKept
    <3>5. ActiveKept
      BY <2>1, <3>1 DEF ActiveKept, UnmarkedKept, GateInv, AttemptGated, Attempts
    <3>6. RowsMove
      BY <2>2 DEF RowsMove, Quiet
    <3>7. QED
      BY <2>2, <2>3, <2>4, <3>4, <3>5, <3>6, GateStep
  <2>7. QED
    BY <2>1, <2>5, <2>6
<1>6. CASE PublishJob(w, o)
  <2>1. /\ jobs' = jobs \/ jobs' = Account(jobs, j)
        /\ UNCHANGED <<queue, active, publications, sessions, recovery, recovering, unsent>>
        /\ worker[w].pc = "publish" /\ Goto(w, "unwind", "succeeded")
        /\ completions' = completions \/ Defer(j, "succeeded", "succeeded")
    BY <1>0, <1>6 DEF PublishJob, asideVars
  <2>2. j \in publications
    BY <1>0, <2>1 DEF GateInv, AttemptGated, Attempts
  <2>3. Quiet(jobs, jobs') /\ AccountsKept(jobs, jobs')
    <3>1. Quiet(jobs, jobs')
      BY <1>1, <2>1, QuietAccount
    <3>2. AccountsKept(jobs, jobs')
      BY <1>1, <2>1, <2>2 DEF Account, AccountsKept, Job
    <3>3. QED
      BY <3>1, <3>2
  <2>4. AttemptsKept
    BY <2>1, GotoAttempts DEF Attempts
  <2>5. WorkersKept /\ GatesKept /\ GatesNew /\ RecoveryKept /\ HeldKept
    <3>1. WorkersKept
      BY <2>1, GotoFacts
    <3>2. QED
      BY <2>1, <3>1, GateStill, StillFacts DEF GatesNew, RecoveryKept
  <2>6. /\ \A v \in Workers : worker'[v].token = worker[v].token
        /\ \A v \in Workers \ {w} : worker'[v] = worker[v]
        /\ worker'[w].pc = "unwind"
    BY <2>1, GotoWorkers
  <2>7. Attempting(j) /\ ~Attempting(j)'
    BY <1>0, <1>2, <2>1, <2>6 DEF Attempting, Attempts
  <2>8. \A k \in Deferred' \ Deferred : k = j
    BY <1>1, <2>1 DEF Defer, Deferred, TypeOK
  <2>9. DeferredKept
    BY <2>7, <2>8 DEF DeferredKept
  <2>10. ActiveKept
    BY <2>1, <2>6 DEF ActiveKept, UnmarkedKept, GateInv, AttemptGated, Attempts
  <2>11. RowsMove
    BY <2>3 DEF RowsMove, Quiet
  <2>12. QED
    BY <2>3, <2>4, <2>5, <2>9, <2>10, <2>11, GateStep
<1>7. QED
  BY <1>3, <1>4, <1>5, <1>6

(* The end of run: the job leaves m.active, its worker opens the gate. *)
LEMMA UnwindGates ==
    ASSUME TypeInv, TypeInv', TokenInv, GateInv, UnmarkedKept, NEW w \in Workers,
           Deactivate(w) \/ OpenGate(w)
    PROVE  GateInv' /\ GatesObeyed
<1> USE DEF TypeInv
<1>1. PICK j \in Jobs : j = worker[w].token
  BY HeldJob DEF Deactivate, OpenGate
<1>2. \A v \in Workers : worker[v].token = j => v = w
  BY <1>1 DEF TokenInv, SoleToken
<1>3. jobs' = jobs /\ UNCHANGED <<queue, completions, sessions, recovery, recovering, unsent>>
  BY DEF Deactivate, OpenGate, asideVars
<1>4. AttemptsKept /\ WorkersKept
  BY GotoAttempts, GotoFacts DEF Deactivate, OpenGate, Attempts
<1>5. RowsMove /\ AccountsKept(jobs, jobs') /\ HeldKept /\ DeferredKept /\ RecoveryKept
  <2>1. Quiet(jobs, jobs') /\ AccountsKept(jobs, jobs') /\ HeldKept /\ Deferred' = Deferred
    BY <1>3, <1>4, GateStill, StillFacts
  <2>2. QED
    BY <1>3, <2>1 DEF RowsMove, Quiet, DeferredKept, RecoveryKept
<1>6. CASE Deactivate(w)
  <2>1. active' = active \ {j} /\ publications' = publications /\ Goto(w, "settle", worker[w].known)
    BY <1>1, <1>6 DEF Deactivate
  <2>2. /\ \A v \in Workers \ {w} : worker'[v] = worker[v]
        /\ worker'[w].pc = "settle"
    BY <2>1, GotoWorkers
  <2>3. ActiveKept
    BY <1>2, <2>1, <2>2 DEF ActiveKept, UnmarkedKept, GateInv, AttemptGated, Attempts
  <2>4. GatesKept /\ GatesNew
    BY <2>1 DEF GatesKept, GatesNew
  <2>5. QED
    BY <1>4, <1>5, <2>3, <2>4, GateStep
<1>7. CASE OpenGate(w)
  <2>1. /\ active' = active /\ publications' = EndPublication(publications, j) /\ Idle(w)
        /\ worker[w].pc = "gate"
    BY <1>1, <1>7 DEF OpenGate
  <2>2. /\ worker'[w].pc = "idle" /\ worker'[w].token = NoJob
        /\ \A v \in Workers \ {w} : worker'[v] = worker[v]
    BY <2>1 DEF Idle, IdleWorker, TypeOK
  <2>3. ActiveKept
    BY <2>1, <2>2 DEF ActiveKept, UnmarkedKept, GateInv, AttemptGated, Attempts
  <2>4. ~Held(j)' /\ ~Attempting(j)'
    <3>1. ~InChannel(j) /\ j \notin recovering \cup unsent /\ Placed(j)
      BY <1>1 DEF TokenInv, SoleToken, Placed
    <3>2. \A s \in Sessions : sessions[s].pending # j
      BY <1>1, <3>1, SessionsNotJobs DEF TokenInv, PendingUnplaced
    <3>3. \A v \in Workers : worker'[v].token # j
      BY <1>1, <1>2, <2>2, SessionsNotJobs
    <3>4. QED
      BY <1>3, <3>1, <3>2, <3>3 DEF Held, Placed, InChannel, Attempting
  <2>5. GatesKept /\ GatesNew
    BY <1>3, <2>1, <2>4 DEF GatesKept, GatesNew, Released, EndPublication, Deferred
  <2>6. QED
    BY <1>4, <1>5, <2>3, <2>5, GateStep
<1>8. QED
  BY <1>6, <1>7

(* A late deletion from m.active marks the attempt it exposes. *)
LEMMA ForgetGates ==
    ASSUME TypeInv, TypeInv', TokenInv, GateInv, UnmarkedKept, NEW w \in Workers, Forget(w)
    PROVE  GateInv' /\ GatesObeyed
<1>1. /\ UNCHANGED <<jobs, queue, completions, publications, sessions, recovery, recovering, unsent>>
      /\ Idle(w) /\ active \subseteq active' \cup unmarked'
  BY DEF Forget
<1>2. AttemptsKept /\ WorkersKept
  BY <1>1, GotoAttempts, GotoFacts DEF Attempts
<1>3. Quiet(jobs, jobs') /\ AccountsKept(jobs, jobs') /\ GatesKept /\ HeldKept /\ Deferred' = Deferred
  BY <1>1, <1>2, GateStill, StillFacts
<1>4. QED
  BY <1>1, <1>2, <1>3, QuietStep DEF GatesNew, RecoveryKept

(* The recovery goroutine. *)
LEMMA RecoveryGates ==
    ASSUME TypeInv, TypeInv', TokenInv, GateInv, UnmarkedKept, RecoveryNext
    PROVE  GateInv' /\ GatesObeyed
<1> USE DEF TypeInv
<1>1. ASSUME NEW j \in Jobs, RetryCompletion(j) \/ RetryLost(j)
      PROVE  GateInv' /\ GatesObeyed
  <2>1. /\ j \in Deferred /\ jobs' = RecoveredRow(j)
        /\ UNCHANGED <<queue, active, publications, sessions, worker, recovering, unsent>>
        /\ completions' = completions \/ completions' = [completions EXCEPT ![j] = NoCompletion]
        /\ recovery' = recovery \/ recovery'.job = j
    BY <1>1 DEF RetryCompletion, RetryLost, asideVars
  <2>2. jobs \in [Jobs -> Job] /\ completions[j].to \in Terminal
    <3>1. completions[j] \in Completion /\ completions[j] # NoCompletion
      BY <2>1 DEF TypeOK, Deferred, NoCompletion
    <3>2. QED
      BY <3>1 DEF Completion, Terminal, TypeOK
  <2>3. Quiet(jobs, jobs')
    BY <2>1, <2>2, QuietTransition, QuietAccount DEF RecoveredRow
  <2>4. AccountsKept(jobs, jobs')
    <3>1. j \in publications
      BY <2>1 DEF GateInv, DeferredGated
    <3>2. CASE completions[j].from = "running"
      <4>1. \A k \in Jobs : Transition(jobs, j, "running", completions[j].to)[k].accounted = jobs[k].accounted
        BY <2>2, AccountsFacts
      <4>2. QED
        BY <2>1, <3>2, <4>1 DEF RecoveredRow, AccountsKept
    <3>3. CASE completions[j].from # "running"
      BY <2>1, <2>2, <3>1, <3>3 DEF RecoveredRow, Account, AccountsKept, Job
    <3>4. QED
      BY <3>2, <3>3
  <2>5. Deferred' \subseteq Deferred
    BY <2>1 DEF Deferred, NoCompletion, TypeOK
  <2>6. AttemptsKept /\ GatesKept /\ HeldKept /\ RecoveryKept /\ GatesNew
    BY <2>1, GateStill, StillFacts DEF RecoveryKept, GatesNew
  <2>7. QED
    BY <2>1, <2>3, <2>4, <2>5, <2>6, QuietStep
<1>2. CASE RecoverSession
  <2>1. /\ UNCHANGED <<jobs, active, completions, publications, worker, recovering, unsent>>
        /\ recovery.pc # "idle" /\ recovery'.job = recovery.job /\ FinishSession(recovery.job, recovery.known)
    BY <1>2 DEF RecoverSession, asideVars, TypeOK, Recovery
  <2>2. ChannelKept /\ SessionsKept
    BY <2>1, FinishFacts DEF RecoveryHolds
  <2>3. AttemptsKept /\ HeldKept
    BY <2>1, <2>2, GateStill, StillFacts
  <2>4. QED
    BY <2>1, <2>3, TokenGates DEF RecoveryKept
<1>3. CASE RecoverGate
  <2>0. PICK j \in Jobs : j = recovery.job
    BY <1>3 DEF RecoverGate, RecoveryHolds
  <2>1. /\ UNCHANGED <<jobs, queue, active, completions, sessions, worker, recovering, unsent>>
        /\ recovery.pc # "idle" /\ recovery'.pc = "idle" /\ publications' = EndPublication(publications, j)
    BY <1>3, <2>0 DEF RecoverGate, asideVars, IdleRecovery
  <2>2. jobs[j].status \notin {"none", "queued"} /\ ~Attempting(j)'
    BY <2>0, <2>1 DEF GateInv, RecoveryPast, AttemptGated, Attempting
  <2>3. GatesKept
    BY <2>1, <2>2 DEF GatesKept, Released, EndPublication, Deferred
  <2>4. AttemptsKept /\ Quiet(jobs, jobs') /\ AccountsKept(jobs, jobs') /\ HeldKept /\ Deferred' = Deferred
    BY <2>1, GateStill, StillFacts
  <2>5. RecoveryKept /\ GatesNew
    BY <2>1 DEF RecoveryKept, GatesNew, EndPublication
  <2>6. QED
    BY <2>1, <2>3, <2>4, <2>5, QuietStep
<1>4. QED
  BY <1>1, <1>2, <1>3 DEF RecoveryNext

(* The feeder of Start, the retried send, and the two removals of rows. *)
LEMMA BackgroundGates ==
    ASSUME TypeInv, TypeInv', TokenInv, GateInv, UnmarkedKept,
           \/ \E j \in Jobs : FeedRecovered(j) \/ PruneTerminal(j)
           \/ \E s \in Sessions : MaintainSession(s)
           \/ CleanupProject
    PROVE  GateInv' /\ GatesObeyed
<1> USE DEF TypeInv
<1>1. ASSUME NEW j \in Jobs, FeedRecovered(j)
      PROVE  GateInv' /\ GatesObeyed
  <2>1. /\ UNCHANGED <<jobs, active, completions, publications, sessions, worker, recovery, unsent>>
        /\ j \in recovering /\ recovering' \subseteq recovering /\ queue' = Append(queue, j)
    BY <1>1 DEF FeedRecovered, Fed
  <2>2. \A k \in Jobs : In(queue', k) => In(queue, k) \/ k = j
    <3>1. queue \in Seq(Jobs \cup Sessions) /\ j \in Jobs \cup Sessions
      BY DEF TypeOK
    <3>2. QED
      BY <2>1, <3>1, SendFacts
  <2>3. HeldKept
    BY <2>1, <2>2 DEF HeldKept, Held, Placed, InChannel, In
  <2>4. AttemptsKept
    BY <2>1, GateStill
  <2>5. QED
    BY <2>1, <2>3, <2>4, TokenGates DEF RecoveryKept
<1>2. ASSUME NEW s \in Sessions, MaintainSession(s)
      PROVE  GateInv' /\ GatesObeyed
  <2>1. /\ UNCHANGED <<jobs, active, completions, publications, worker, recovery, recovering, unsent>>
        /\ ScheduleSession(s, sessions[s]) /\ sessions[s] \in Session /\ sessions[s].status = "live"
    BY <1>2 DEF MaintainSession, LiveSessions, asideVars, TypeOK
  <2>2. ChannelKept /\ SessionsKept
    BY <2>1, ScheduleFacts
  <2>3. AttemptsKept /\ HeldKept
    BY <2>1, <2>2, GateStill, StillFacts
  <2>4. QED
    BY <2>1, <2>3, TokenGates DEF RecoveryKept
<1>3. ASSUME UNCHANGED <<queue, active, completions, publications, sessions, worker, recovery, recovering, unsent>>,
             RowsMove, \A k \in Jobs : jobs'[k].accounted = jobs[k].accounted
      PROVE  GateInv' /\ GatesObeyed
  <2>1. GatesKept /\ AttemptsKept /\ HeldKept /\ Deferred' = Deferred
    BY <1>3, GateStill, StillFacts
  <2>2. AccountsKept(jobs, jobs') /\ ActiveKept /\ DeferredKept /\ RecoveryKept /\ GatesNew
    BY <1>3, <2>1 DEF AccountsKept, ActiveKept, DeferredKept, RecoveryKept, GatesNew, UnmarkedKept, GateInv, AttemptGated
  <2>3. QED
    BY <1>3, <2>1, <2>2, GateStep
<1>4. ASSUME NEW j \in Jobs, PruneTerminal(j)
      PROVE  GateInv' /\ GatesObeyed
  <2>1. /\ UNCHANGED <<queue, active, completions, publications, sessions, worker, recovery, recovering, unsent>>
        /\ jobs' = SetStatus(jobs, j, "deleted") /\ jobs[j].status \in Terminal /\ j \notin publications
    BY <1>4 DEF PruneTerminal, Expired, asideVars
  <2>2. j \notin Deferred /\ ~Attempting(j)
    BY <2>1 DEF GateInv, DeferredGated, AttemptGated, Attempting
  <2>3. /\ jobs'[j].status = "deleted" /\ \A k \in Jobs \ {j} : jobs'[k] = jobs[k]
        /\ \A k \in Jobs : jobs'[k].accounted = jobs[k].accounted
    BY <2>1 DEF SetStatus, TypeOK, Job
  <2>4. RowsMove
    BY <2>1, <2>2, <2>3 DEF RowsMove, QuietMoves
  <2>5. QED
    BY <1>3, <2>1, <2>3, <2>4
<1>5. CASE CleanupProject
  <2>1. /\ UNCHANGED <<queue, active, completions, publications, sessions, worker, recovery, recovering, unsent>>
        /\ Busy = {}
        /\ jobs' = [j \in Jobs |-> IF jobs[j].status \in Terminal
                                   THEN [jobs[j] EXCEPT !.status = "deleted"] ELSE jobs[j]]
    BY <1>5 DEF CleanupProject, asideVars
  <2>2. \A j \in Jobs : j \in unmarked \/ (j \notin Deferred /\ ~Attempting(j))
    BY <2>1 DEF Busy, GateInv, AttemptGated, Attempting
  <2>3. \A k \in Jobs : /\ jobs'[k].accounted = jobs[k].accounted
                        /\ \/ jobs[k].status \in Terminal /\ jobs'[k].status = "deleted"
                           \/ jobs'[k].status = jobs[k].status
    BY <2>1 DEF TypeOK, Job
  <2>4. RowsMove
    BY <2>2, <2>3 DEF RowsMove, QuietMoves
  <2>5. QED
    BY <1>3, <2>1, <2>3, <2>4
<1>6. QED
  BY <1>1, <1>2, <1>4, <1>5

(* Closing a session: the gate of its pending revision opens with its       *)
(* cancellation.                                                            *)
LEMMA CloseGates ==
    ASSUME TypeOK, NEW s \in Sessions
    PROVE  /\ \A k \in Jobs : CancelPending(s)[k].accounted = jobs[k].accounted
           /\ \A k \in Jobs : CancelBoth(s)[k].accounted = jobs[k].accounted
           /\ Supersedes(s) => /\ sessions[s].pending \in Jobs
                               /\ CancelPending(s)[sessions[s].pending].status = "cancelled"
                               /\ CancelBoth(s)[sessions[s].pending].status = "cancelled"
<1> DEFINE old == sessions[s].pending
           run == sessions[s].running
           one == CancelPending(s)
<1>1. jobs \in [Jobs -> Job] /\ one \in [Jobs -> Job]
  BY SessionRowsType DEF TypeOK
<1>2. old # NoJob => old \in Jobs
  BY PendingType
<1>3. StopsRunning(s) => run \in Jobs
  BY DEF StopsRunning, Deferred, TypeOK
<1>4. \A k \in Jobs : one[k].accounted = jobs[k].accounted
  <2>1. old \in Jobs => \A k \in Jobs : Transition(jobs, old, "queued", "cancelled")[k].accounted = jobs[k].accounted
    BY <1>1, AccountsFacts
  <2>2. QED
    BY <1>2, <2>1 DEF CancelPending
<1>5. Supersedes(s) => old \in Jobs /\ one[old].status = "cancelled"
  BY <1>1, <1>2 DEF Supersedes, CancelPending, Transition, SetStatus, Job
<1> HIDE DEF old, run, one
<1>6. \A k \in Jobs : CancelBoth(s)[k].accounted = one[k].accounted
  <2>1. run \in Jobs => \A k \in Jobs : Transition(one, run, "running", "cancelled")[k].accounted = one[k].accounted
    BY <1>1, AccountsFacts
  <2>2. QED
    BY <1>3, <2>1 DEF CancelBoth, one, run
<1>7. Supersedes(s) => CancelBoth(s)[old].status = "cancelled"
  <2>1. run \in Jobs /\ old \in Jobs /\ one[old].status = "cancelled"
           => Transition(one, run, "running", "cancelled")[old].status = "cancelled"
    BY <1>1 DEF Transition, SetStatus, Job
  <2>2. QED
    BY <1>3, <1>5, <2>1 DEF CancelBoth, one, run
<1>8. QED
  BY <1>4, <1>5, <1>6, <1>7 DEF one, old

(* Realtime sessions. *)
LEMMA SessionGates ==
    ASSUME TypeInv, TypeInv', TokenInv, GateInv, UnmarkedKept, SessionNext
    PROVE  GateInv' /\ GatesObeyed
<1> USE DEF TypeInv
<1>1. ASSUME NEW s \in Sessions, CreateSession(s) \/ RenewSession(s) \/ LeaseTick(s)
      PROVE  GateInv' /\ GatesObeyed
  <2>1. UNCHANGED <<jobs, queue, active, completions, publications, worker, recovery, recovering, unsent>>
    BY <1>1 DEF CreateSession, RenewSession, LeaseTick, asideVars
  <2>2. SessionsKept
    <3>1. CASE CreateSession(s)
      BY <3>1 DEF CreateSession, NoLease, SessionsKept, TypeOK, TokenInv, PendingUnplaced
    <3>2. CASE RenewSession(s) \/ LeaseTick(s)
      BY <3>2, LeaseFacts DEF SessionsKept, TokenInv, PendingUnplaced
    <3>3. QED
      BY <1>1, <3>1, <3>2
  <2>3. AttemptsKept /\ HeldKept
    BY <2>1, <2>2, GateStill, StillFacts
  <2>4. QED
    BY <2>1, <2>3, TokenGates DEF RecoveryKept
<1>2. ASSUME NEW s \in Sessions, NEW j \in Jobs, NEW p \in Snapshots, AdmitRevision(s, j)
      PROVE  /\ jobs[j].status = "none" /\ NewRevision(s, j, p) \in [Jobs -> Job]
             /\ \A k \in Jobs \ {j} : NewRevision(s, j, p)[k] = jobs[k]
             /\ AccountsKept(jobs, NewRevision(s, j, p))
  <2>1. NewRow(p, s, sessions[s].revision + 1) \in Job /\ ~NewRow(p, s, sessions[s].revision + 1).accounted
    BY NewRowType DEF NewRow, TypeOK, Session
  <2>2. QED
    BY <1>2, <2>1 DEF AdmitRevision, Fresh, NewRevision, TypeOK, AccountsKept
<1>3. ASSUME NEW s \in Sessions, NEW j \in Jobs, NEW p \in Snapshots, SubmitLost(s, j, p)
      PROVE  GateInv' /\ GatesObeyed
  <2>1. /\ UNCHANGED <<queue, active, completions, publications, sessions, worker, recovery, recovering, unsent>>
        /\ AdmitRevision(s, j) /\ jobs' = NewRevision(s, j, p)
    BY <1>3 DEF SubmitLost, asideVars
  <2>2. Quiet(jobs, jobs') /\ AccountsKept(jobs, jobs')
    BY <1>2, <2>1, QuietSubmit
  <2>3. AttemptsKept /\ HeldKept /\ GatesKept /\ Deferred' = Deferred
    BY <2>1, GateStill, StillFacts
  <2>4. QED
    BY <2>1, <2>2, <2>3, QuietStep DEF GatesNew, RecoveryKept
<1>4. ASSUME NEW s \in Sessions, NEW j \in Jobs, NEW p \in Snapshots, NEW o \in {"fail", "lost"}, NEW r \in Outcomes,
             SubmitFailed(s, j, p, o, r)
      PROVE  GateInv' /\ GatesObeyed
  <2> DEFINE row == NewRevision(s, j, p)
             old == sessions[s].pending
             one == IF o = "lost" THEN SetStatus(row, old, "cancelled") ELSE row
  <2>1. /\ UNCHANGED <<queue, active, completions, sessions, worker, recovery, recovering, unsent>>
        /\ AdmitRevision(s, j) /\ old # NoJob
        /\ publications \subseteq publications' /\ publications' \subseteq publications \cup {j}
        /\ jobs' = IF r = "fail" THEN one ELSE SetStatus(one, j, "cancelled")
    BY <1>4 DEF SubmitFailed, asideVars
  <2>2. row \in [Jobs -> Job] /\ AccountsKept(jobs, row) /\ old \in Jobs /\ jobs[j].status = "none"
    BY <1>2, <2>1, PendingType
  <2> HIDE DEF row, old
  <2>3. one \in [Jobs -> Job] /\ \A k \in Jobs : one[k].accounted = row[k].accounted
    <3>1. SetStatus(row, old, "cancelled") \in [Jobs -> Job]
      BY <2>2, SetStatusType, StatusFacts
    <3>2. \A k \in Jobs : SetStatus(row, old, "cancelled")[k].accounted = row[k].accounted
      BY <2>2 DEF SetStatus, Job
    <3>3. QED
      BY <2>2, <3>1, <3>2
  <2> HIDE DEF one
  <2>4. \A k \in Jobs : jobs'[k].accounted = row[k].accounted
    <3>1. \A k \in Jobs : SetStatus(one, j, "cancelled")[k].accounted = one[k].accounted
      BY <2>3 DEF SetStatus, Job
    <3>2. QED
      BY <2>1, <2>3, <3>1
  <2>5. Quiet(jobs, jobs')
    BY <1>4, QuietSubmit
  <2>6. AccountsKept(jobs, jobs')
    BY <2>2, <2>4 DEF AccountsKept
  <2>7. AttemptsKept /\ HeldKept /\ Deferred' = Deferred
    BY <2>1, GateStill, StillFacts
  <2>8. GatesKept /\ GatesNew /\ RecoveryKept
    BY <2>1, <2>2 DEF GatesKept, GatesNew, RecoveryKept
  <2>9. QED
    BY <2>1, <2>5, <2>6, <2>7, <2>8, QuietStep
<1>5. ASSUME NEW s \in Sessions, NEW j \in Jobs, NEW p \in Snapshots, SubmitRevision(s, j, p)
      PROVE  GateInv' /\ GatesObeyed
  <2> DEFINE row == NewRevision(s, j, p)
             S == [sessions[s] EXCEPT !.revision = @ + 1, !.pending = j, !.snapshot = p, !.lease = LeaseTTL]
  <2>0. PICK old : old = sessions[s].pending
    OBVIOUS
  <2>1. /\ UNCHANGED <<active, completions, worker, recovery, recovering, unsent>>
        /\ AdmitRevision(s, j) /\ ScheduleSession(s, S)
        /\ jobs' = IF Supersedes(s) THEN Transition(row, old, "queued", "cancelled") ELSE row
        /\ publications' = (IF Supersedes(s) THEN EndPublication(publications, old) ELSE publications) \cup {j}
    BY <1>5, <2>0 DEF SubmitRevision, asideVars
  <2>2. /\ row \in [Jobs -> Job] /\ AccountsKept(jobs, row) /\ jobs[j].status = "none"
        /\ \A k \in Jobs \ {j} : row[k] = jobs[k]
    BY <1>2, <2>1
  <2>3. Supersedes(s) => old \in Jobs /\ old # j /\ jobs[old].status = "queued"
    BY <2>0, <2>2, PendingType DEF Supersedes
  <2>4. S \in Session /\ S.status = "live" /\ S.pending = j
    <3>1. sessions[s] \in Session /\ sessions[s].status = "live"
      BY <2>1 DEF AdmitRevision, LeaseHeld, TypeOK
    <3>2. LeaseTTL \in 0 .. LeaseTTL /\ sessions[s].revision + 1 \in Nat
      BY <3>1, JobManagerAssumption DEF Session
    <3>3. QED
      BY <3>1, <3>2 DEF Session
  <2> HIDE DEF row, S
  <2>5. Quiet(jobs, jobs')
    BY <1>5, QuietSubmit
  <2>6. \A k \in Jobs : jobs'[k].accounted = row[k].accounted
    BY <2>1, <2>2, <2>3, AccountsFacts
  <2>7. AccountsKept(jobs, jobs')
    BY <2>2, <2>6 DEF AccountsKept
  <2>8. Supersedes(s) => jobs'[old].status = "cancelled"
    BY <2>1, <2>2, <2>3 DEF Transition, SetStatus, Job
  <2>9. GatesKept /\ GatesNew
    BY <2>1, <2>2, <2>3, <2>8 DEF GatesKept, GatesNew, EndPublication
  <2>10. /\ ChannelKept /\ sessions'[s].pending = j
         /\ \A r \in Sessions \ {s} : sessions'[r] = sessions[r]
    BY <2>1, <2>4, ScheduleFacts
  <2>11. HeldKept
    <3> SUFFICES ASSUME NEW k \in Jobs, Held(k)', k # j PROVE Held(k)
      BY <2>1 DEF HeldKept
    <3>1. Placed(k)' => Placed(k)
      BY <2>1, <2>10 DEF Placed, InChannel, In, ChannelKept
    <3>2. (\E r \in Sessions : sessions'[r].pending = k) => \E r \in Sessions : sessions[r].pending = k
      BY <2>10
    <3>3. QED
      BY <3>1, <3>2 DEF Held
  <2>12. AttemptsKept /\ Deferred' = Deferred
    BY <2>1, GateStill
  <2>13. QED
    BY <2>1, <2>5, <2>7, <2>9, <2>11, <2>12, QuietStep DEF RecoveryKept
<1>6. ASSUME NEW s \in Sessions, \/ CloseSession(s) \/ ClosePendingLost(s)
                                 \/ \E o \in {"fail", "lost"} : CloseRunningFailed(s, o)
      PROVE  GateInv' /\ GatesObeyed
  <2>0. PICK old : old = sessions[s].pending
    OBVIOUS
  <2>1. /\ UNCHANGED <<queue, active, completions, worker, recovery, recovering, unsent>>
        /\ jobs' = CancelPending(s) \/ jobs' = CancelBoth(s)
        /\ publications' = publications \/ publications' = PublicationsAfterClose(s)
        /\ sessions' = sessions \/ sessions' = [sessions EXCEPT ![s] = ClosedLease]
    BY <1>6 DEF CloseSession, ClosePendingLost, CloseRunningFailed, asideVars
  <2>2. Quiet(jobs, jobs')
    BY <2>1, QuietClose
  <2>3. AccountsKept(jobs, jobs')
    BY <2>1, CloseGates DEF AccountsKept
  <2>4. Supersedes(s) => old \in Jobs /\ jobs[old].status = "queued" /\ jobs'[old].status = "cancelled"
    BY <2>0, <2>1, CloseGates DEF Supersedes
  <2>5. GatesKept /\ GatesNew
    BY <2>0, <2>1, <2>4 DEF GatesKept, GatesNew, PublicationsAfterClose, EndPublication
  <2>6. SessionsKept
    <3>1. CASE sessions' = sessions
      BY <3>1, StillFacts
    <3>2. CASE sessions' = [sessions EXCEPT ![s] = ClosedLease]
      <4>1. ClosedLease.pending = NoJob
        BY DEF ClosedLease, NoLease
      <4>2. QED
        BY <3>2, <4>1 DEF SessionsKept, TypeOK, TokenInv, PendingUnplaced
    <3>3. QED
      BY <2>1, <3>1, <3>2
  <2>7. AttemptsKept /\ HeldKept /\ Deferred' = Deferred
    BY <2>1, <2>6, GateStill, StillFacts
  <2>8. QED
    BY <2>1, <2>2, <2>3, <2>5, <2>7, QuietStep DEF RecoveryKept
<1>7. QED
  BY <1>1, <1>3, <1>4, <1>5, <1>6 DEF SessionNext

(* Start after a crash closes the gates of the jobs it feeds, and no other. *)
LEMMA RestartGates ==
    ASSUME TypeInv, TokenInv, GateInv, Restart
    PROVE  /\ GateInv'
           /\ \A j \in Jobs : jobs'[j].accounted = jobs[j].accounted
           /\ \A j \in publications' : j \in Jobs /\ jobs'[j].status = "queued"
           /\ \A j \in Jobs : \/ jobs[j].status \in Pending
                                   /\ jobs'[j].status \in {jobs[j].status, "queued", "cancelled", "deleted"}
                              \/ jobs[j].status \in Terminal /\ jobs'[j].status \in {jobs[j].status, "deleted"}
                              \/ jobs[j].status \in {"none", "deleted"} /\ jobs'[j].status = jobs[j].status
<1> USE DEF TypeInv
<1>1. \A j \in Jobs : jobs[j] \in Job /\ jobs[j].status \in Status
  BY DEF TypeOK, Job
<1>2. /\ publications' = recovering'
      /\ \A j \in Jobs : jobs'[j].accounted = jobs[j].accounted
      /\ \A j \in publications' : j \in Jobs /\ jobs'[j].status = "queued"
      /\ \A j \in Jobs : \/ jobs[j].status \in Pending
                              /\ jobs'[j].status \in {jobs[j].status, "queued", "cancelled", "deleted"}
                         \/ jobs[j].status \in Terminal /\ jobs'[j].status \in {jobs[j].status, "deleted"}
                         \/ jobs[j].status \in {"none", "deleted"} /\ jobs'[j].status = jobs[j].status
  <2>1. ASSUME NEW bad, RestartListed(bad)
        PROVE  <1>2!1 /\ <1>2!2 /\ <1>2!3 /\ <1>2!4
    <3>1. \A j \in Jobs : \/ /\ j \in PendingRows \ bad /\ jobs'[j] = [jobs[j] EXCEPT !.status = RecoveredStatusAtStart(j)]
                          \/ j \notin PendingRows \ bad /\ jobs'[j] = jobs[j]
      BY <2>1 DEF RestartListed
    <3>2. publications' = recovering' /\ recovering' = {j \in PendingRows \ bad : Resumes(j)}
      BY <2>1 DEF RestartListed
    <3>3. \A j \in PendingRows \ bad : j \in Jobs /\ jobs[j].status \in Pending
      BY DEF PendingRows
    <3>4. \A j \in Jobs : jobs'[j].accounted = jobs[j].accounted
      BY <1>1, <3>1 DEF Job
    <3>5. \A j \in publications' : j \in Jobs /\ jobs'[j].status = "queued"
      <4> SUFFICES ASSUME NEW j \in publications' PROVE j \in Jobs /\ jobs'[j].status = "queued"
        OBVIOUS
      <4>1. j \in Jobs /\ j \in PendingRows \ bad /\ Resumes(j)
        BY <3>2, <3>3
      <4>2. jobs'[j] = [jobs[j] EXCEPT !.status = RecoveredStatusAtStart(j)] /\ RecoveredStatusAtStart(j) = "queued"
        BY <3>1, <4>1 DEF Resumes, RecoveredStatusAtStart
      <4>3. QED
        BY <1>1, <4>1, <4>2 DEF Job
    <3>6. \A j \in PendingRows \ bad : jobs'[j].status \in {"queued", "cancelled"}
      BY <1>1, <3>1, <3>3 DEF Job, RecoveredStatusAtStart
    <3>7. \A j \in Jobs : jobs[j].status \in Pending \/ jobs[j].status \in Terminal \/ jobs[j].status \in {"none", "deleted"}
      BY <1>1 DEF Status
    <3>8. QED
      BY <3>1, <3>2, <3>3, <3>4, <3>5, <3>6, <3>7
  <2>2. ASSUME RestartBlind
        PROVE  <1>2!1 /\ <1>2!2 /\ <1>2!3 /\ <1>2!4
    <3>1. publications' = {} /\ recovering' = {}
      BY <2>2 DEF RestartBlind
    <3>2. \A j \in Jobs : \/ jobs'[j] = jobs[j]
                          \/ jobs[j].status # "none" /\ jobs'[j] = [jobs[j] EXCEPT !.status = "deleted"]
      BY <2>2 DEF RestartBlind
    <3>3. \A j \in Jobs : \/ jobs'[j] = jobs[j]
                          \/ /\ jobs[j].status # "none" /\ jobs'[j].status = "deleted"
                             /\ jobs'[j].accounted = jobs[j].accounted
      BY <1>1, <3>2 DEF Job
    <3>4. \A j \in Jobs : jobs[j].status \in Pending \/ jobs[j].status \in Terminal \/ jobs[j].status \in {"none", "deleted"}
      BY <1>1 DEF Status
    <3>5. QED
      BY <3>1, <3>3, <3>4
  <2>3. QED
    BY <2>1, <2>2 DEF Restart
<1>3. /\ queue' = <<>> /\ recovery'.pc = "idle" /\ unsent' = {} /\ Deferred' = {}
      /\ \A w \in Workers : worker'[w].pc = "idle" /\ worker'[w].token = NoJob
      /\ \A s \in Sessions : sessions'[s].pending = NoJob
  BY DEF Restart, IdleRecovery, IdleWorker, NoCompletion, Deferred, ClosedLease, NoLease, TokenInv, PendingUnplaced
<1>4. WaitingGated'
  BY <1>2, <1>3, SessionsNotJobs DEF WaitingGated, Queued, Held, Placed, InChannel
<1>5. AttemptGated' /\ DeferredGated' /\ RecoveryPast'
  BY <1>3 DEF AttemptGated, DeferredGated, RecoveryPast, Attempts
<1>6. Unaccounted'
  BY <1>2 DEF GateInv, Unaccounted, Pending, Terminal
<1>7. QED
  BY <1>2, <1>4, <1>5, <1>6 DEF GateInv

-----------------------------------------------------------------------------
(* The theorems. *)

(* No gate is closed at the start. *)
LEMMA InitGates == Init => GateInv
BY SessionsNotJobs
   DEF Init, GateInv, WaitingGated, AttemptGated, DeferredGated, RecoveryPast, Unaccounted, Queued,
       Deferred, Attempts, NoCompletion, IdleWorker, IdleRecovery, NoRow

(* Only a restart, which ends every attempt, clears the marks. *)
LEMMA MarksKept ==
    ASSUME Next, ~Restart
    PROVE  UnmarkedKept
<1>1. CASE ClientNext
  BY <1>1 DEF ClientNext, Enqueue, CancelQueued, CancelRunning, CleanupProject, asideVars, UnmarkedKept
<1>2. CASE SessionNext
  <2>1. UNCHANGED asideVars
    <3>1. ASSUME NEW s \in Sessions, CreateSession(s) \/ RenewSession(s) \/ LeaseTick(s)
          PROVE  UNCHANGED asideVars
      BY <3>1 DEF CreateSession, RenewSession, LeaseTick
    <3>2. ASSUME NEW s \in Sessions, NEW j \in Jobs, NEW p \in Snapshots,
                 \/ SubmitRevision(s, j, p) \/ SubmitLost(s, j, p)
                 \/ \E o \in {"fail", "lost"}, r \in Outcomes : SubmitFailed(s, j, p, o, r)
          PROVE  UNCHANGED asideVars
      BY <3>2 DEF SubmitRevision, SubmitLost, SubmitFailed
    <3>3. ASSUME NEW s \in Sessions,
                 \/ CloseSession(s) \/ ClosePendingLost(s)
                 \/ \E o \in {"fail", "lost"} : CloseRunningFailed(s, o)
          PROVE  UNCHANGED asideVars
      BY <3>3 DEF CloseSession, ClosePendingLost, CloseRunningFailed
    <3>4. QED
      BY <1>2, <3>1, <3>2, <3>3 DEF SessionNext
  <2>2. QED
    BY <2>1 DEF asideVars, UnmarkedKept
<1>3. ASSUME NEW w \in Workers, WorkerNext(w)
      PROVE  UnmarkedKept
  BY <1>3
     DEF WorkerNext, Receive, TakeSession, LoadJob, RejectJob, StartJob, FinishJob, PublishJob,
         SkipPublish, Deactivate, SettleSession, OpenGate, Requeue, Forget, asideVars, UnmarkedKept
<1>4. CASE RecoveryNext
  BY <1>4
     DEF RecoveryNext, RetryCompletion, RetryLost, RecoverSession, RecoverGate, asideVars, UnmarkedKept
<1>5. CASE BackgroundNext
  BY <1>5
     DEF BackgroundNext, CancelUnsent, FeedRecovered, PruneTerminal, MaintainSession, asideVars,
         UnmarkedKept
<1>6. QED
  BY <1>1, <1>2, <1>3, <1>4, <1>5 DEF Next

(* Every step keeps GateInv, and but for a restart obeys the gates. *)
LEMMA StepGates ==
    ASSUME TypeInv, TypeInv', TokenInv, GateInv, Next
    PROVE  GateInv' /\ (GatesObeyed \/ Restart)
<1>0. CASE Restart
  BY <1>0, RestartGates
<1> SUFFICES ASSUME ~Restart
             PROVE  GateInv' /\ GatesObeyed
  BY <1>0
<1>a. UnmarkedKept
  BY MarksKept
<1>1. CASE ClientNext
  BY <1>1, <1>a, ClientGates, BackgroundGates DEF ClientNext
<1>2. CASE SessionNext
  BY <1>2, <1>a, SessionGates
<1>3. ASSUME NEW w \in Workers, WorkerNext(w)
      PROVE  GateInv' /\ GatesObeyed
  BY <1>3, <1>a, WorkerMovesGates, AttemptGates, UnwindGates, ForgetGates DEF WorkerNext
<1>4. CASE RecoveryNext
  BY <1>4, <1>a, RecoveryGates
<1>5. CASE BackgroundNext
  BY <1>5, <1>a, ClientGates, BackgroundGates DEF BackgroundNext
<1>6. QED
  BY <1>1, <1>2, <1>3, <1>4, <1>5 DEF Next

(* One case per action. *)
LEMMA NextGates == TypeInv /\ TypeInv' /\ TokenInv /\ GateInv /\ [Next]_vars => GateInv'
<1>1. SUFFICES ASSUME TypeInv, TypeInv', TokenInv, GateInv, [Next]_vars PROVE GateInv'
  OBVIOUS
<1>2. CASE Next
  BY <1>1, <1>2, StepGates
<1>3. CASE UNCHANGED vars
  BY <1>1, <1>3
     DEF vars, GateInv, WaitingGated, AttemptGated, DeferredGated, RecoveryPast, Unaccounted, Queued,
         Deferred, Held, Placed, InChannel, RowKept
<1>4. QED
  BY <1>1, <1>2, <1>3

(* Neither the retention sweep nor project cleanup ever removes a row whose *)
(* completion is deferred, for any number of workers, failures and          *)
(* restarts, but for attempts another worker took out of m.active.          *)
THEOREM DeferredAlwaysHasRow == Spec => []DeferredHasRow
<1>1. GateInv => DeferredHasRow
  BY DEF GateInv, DeferredGated, DeferredHasRow, RowKept
<1>2. QED
  BY InitType, NextType, InitTokens, NextTokens, InitGates, NextGates, <1>1, PTL DEF Spec

(* What Get returned once the gate of a succeeded job had opened is final:  *)
(* neither its worker nor a late recovery adds accounting to the row.       *)
THEOREM OpenGateFinalHolds == Spec => OpenGateFinal
<1>1. TypeInv /\ TypeInv' /\ TokenInv /\ GateInv /\ [Next]_vars
         => [\A j \in Jobs : jobs[j].status = "succeeded" /\ j \notin publications
                => jobs'[j].accounted = jobs[j].accounted]_vars
  <2>1. SUFFICES ASSUME TypeInv, TypeInv', TokenInv, GateInv, Next,
                        NEW j \in Jobs, jobs[j].status = "succeeded", j \notin publications
                 PROVE  jobs'[j].accounted = jobs[j].accounted
    OBVIOUS
  <2>2. CASE GatesObeyed
    BY <2>1, <2>2 DEF GatesObeyed
  <2>3. CASE Restart
    BY <2>1, <2>3, RestartGates
  <2>4. QED
    BY <2>1, <2>2, <2>3, StepGates
<1>2. QED
  BY InitType, NextType, InitTokens, NextTokens, InitGates, NextGates, <1>1, PTL DEF Spec, OpenGateFinal

(* The queue implements the lifecycle promised to clients: every step of    *)
(* the server is a step of JobLifecycle, its restart a crash of it.         *)
THEOREM LifecycleImplemented == Spec => ImplementsLifecycle
<1>1. Init => Lifecycle!Init
  BY DEF Init, NoRow, Lifecycle!Init
<1>2. TypeInv /\ TypeInv' /\ TokenInv /\ GateInv /\ [Next]_vars => [Lifecycle!Next]_(Lifecycle!vars)
  <2>1. SUFFICES ASSUME TypeInv, TypeInv', TokenInv, GateInv, [Next]_vars
                 PROVE  [Lifecycle!Next]_(Lifecycle!vars)
    OBVIOUS
  <2>2. CASE Next /\ GatesObeyed
    <3>1. publications' \subseteq Jobs
      BY <2>1 DEF TypeInv, TypeOK
    <3>2. Lifecycle!Step
      BY <2>2, <3>1 DEF GatesObeyed, Lifecycle!Step
    <3>3. QED
      BY <3>2 DEF Lifecycle!Next
  <2>3. CASE Restart
    <3>1. Lifecycle!Crash
      BY <2>1, <2>3, RestartGates DEF Lifecycle!Crash, Lifecycle!Final, Terminal, Pending
    <3>2. QED
      BY <3>1 DEF Lifecycle!Next
  <2>4. CASE UNCHANGED vars
    BY <2>4 DEF vars, Lifecycle!vars
  <2>5. QED
    BY <2>1, <2>2, <2>3, <2>4, StepGates
<1>3. QED
  BY InitType, NextType, InitTokens, NextTokens, InitGates, NextGates, <1>1, <1>2, PTL
     DEF Spec, ImplementsLifecycle, Lifecycle!Spec
=============================================================================
