------------------------------ MODULE JobManager ------------------------------
(***************************************************************************)
(* The compile queue of the server (packages/server/internal/jobs): job    *)
(* records, the bounded channel, the compile workers, the deferred         *)
(* completions and their recovery goroutine, the publication gates, the    *)
(* source pins, the realtime sessions and restart recovery.                *)
(*                                                                         *)
(* A handler that holds admissionMu from its first to its last access is   *)
(* one step: while it runs no job leaves "queued", and the only changes    *)
(* made without the lock (a worker or the recovery goroutine moving a job  *)
(* out of "running") are re-tested by the handler's own conditional        *)
(* transition.  Everything done without the lock is a step of its own.     *)
(*                                                                         *)
(* A database call ends "ok"; "fail" (an error, no effect) or "lost" (the  *)
(* effect is durable, the caller sees an error).  "boot" marks the same    *)
(* failures inside Start.  A call that fails before its handler changed    *)
(* anything is a stuttering step and has no action.                        *)
(***************************************************************************)
EXTENDS Naturals, Sequences, FiniteSets

CONSTANTS
    Workers,             \* compile workers, MaxConcurrentCompiles of them
    Sessions,            \* identifiers of realtime sessions
    Snapshots,           \* content-derived source snapshot identifiers
    NoSnapshot,          \* a session that has no revision yet
    MaxJobs,             \* bound: jobs ever submitted
    MaxQueuedJobs,       \* cfg.MaxQueuedJobs
    MaxRealtimeSessions, \* cfg.MaxRealtimeSessions
    LeaseTTL,            \* cfg.RealtimeSessionTTL, in ticks
    Durable,             \* TRUE: m.db # nil; FALSE: the native in-memory map
    FaultKinds,          \* kinds of database failure that may happen
    MaxFaults,           \* bound: database failures
    MaxRestarts,         \* bound: crashes followed by a restart
    LongRetention        \* TRUE: cfg.ResultRetention exceeds every queue wait

Jobs == 1 .. MaxJobs
NoJob == 0
NoSession == 0
Terminal == {"succeeded", "failed", "cancelled"}
Pending == {"queued", "running"}
Status == Terminal \cup Pending \cup {"none", "deleted"}
QueueCap == 2 * MaxQueuedJobs

ASSUME JobManagerAssumption ==
    /\ MaxJobs \in Nat /\ MaxQueuedJobs \in Nat \ {0}
    /\ MaxRealtimeSessions \in Nat /\ LeaseTTL \in Nat \ {0}
    /\ MaxFaults \in Nat /\ MaxRestarts \in Nat
    /\ Durable \in BOOLEAN /\ LongRetention \in BOOLEAN
    /\ FaultKinds \subseteq {"fail", "lost", "boot"}
    /\ IsFiniteSet(Workers) /\ Workers # {}
    /\ NoSnapshot \notin Snapshots
    /\ Sessions \cap Nat = {}

VARIABLES
    jobs,         \* the job rows: m.jobs, or the compile_jobs table
    queue,        \* m.queue: job and session identifiers
    active,       \* the keys of m.active
    completions,  \* m.completions: terminal transitions not yet durable
    publications, \* the keys of m.publications: gates still closed to readers
    pins,         \* project.Manager.pins: reference count per snapshot
    sessions,     \* m.sessions
    worker,       \* program counter and locals of each worker goroutine
    recovery,     \* the same for the recoverCompletions goroutine
    recovering,   \* job ids Start has still to feed into the channel
    unsent,       \* jobs whose Enqueue met a full channel, still to cancel
    faults,       \* database failures so far
    restarts,     \* restarts so far
    leaving,      \* per worker: job it requeued and will yet delete from m.active
    unmarked      \* history: jobs whose m.active entry such a deletion took away

asideVars == <<recovering, restarts, leaving, unmarked>>
vars == <<jobs, queue, active, completions, publications, pins, sessions,
          worker, recovery, recovering, unsent, faults, restarts, leaving, unmarked>>

Job == [status: Status, session: Sessions \cup {NoSession}, revision: Nat,
        snapshot: Snapshots \cup {NoSnapshot}, accounted: BOOLEAN]
NoCompletion == [from |-> "none", to |-> "none"]
Completion == {NoCompletion} \cup [from: {"running", "succeeded"}, to: {"succeeded", "failed"}]
Session == [status: {"none", "live", "closed"}, lease: 0 .. LeaseTTL,
            revision: Nat, pending: Jobs \cup {NoJob}, running: Jobs \cup {NoJob},
            lastOk: Jobs \cup {NoJob}, scheduled: BOOLEAN,
            snapshot: Snapshots \cup {NoSnapshot}]
WorkerPC == {"idle", "take", "load", "start", "compile", "publish", "unwind",
             "settle", "gate", "requeue", "forget"}
Worker == [pc: WorkerPC, token: Jobs \cup Sessions \cup {NoJob}, known: Status]
Recovery == [pc: {"idle", "settle", "gate"}, job: Jobs \cup {NoJob}, known: Status]

NoRow == [status |-> "none", session |-> NoSession, revision |-> 0,
          snapshot |-> NoSnapshot, accounted |-> FALSE]
NoLease == [status |-> "none", lease |-> 0, revision |-> 0, pending |-> NoJob,
            running |-> NoJob, lastOk |-> NoJob, scheduled |-> FALSE,
            snapshot |-> NoSnapshot]
ClosedLease == [NoLease EXCEPT !.status = "closed"]
IdleWorker == [pc |-> "idle", token |-> NoJob, known |-> "none"]
IdleRecovery == [pc |-> "idle", job |-> NoJob, known |-> "none"]

Init ==
    /\ jobs = [j \in Jobs |-> NoRow]
    /\ queue = <<>>
    /\ active = {}
    /\ completions = [j \in Jobs |-> NoCompletion]
    /\ publications = {}
    /\ pins = [p \in Snapshots |-> 0]
    /\ sessions = [s \in Sessions |-> NoLease]
    /\ worker = [w \in Workers |-> IdleWorker]
    /\ recovery = IdleRecovery
    /\ recovering = {}
    /\ unsent = {}
    /\ faults = 0
    /\ restarts = 0
    /\ leaving = [w \in Workers |-> NoJob]
    /\ unmarked = {}

-----------------------------------------------------------------------------
(* Reading the state. *)

Queued == {j \in Jobs : jobs[j].status = "queued"}
Deferred == {j \in Jobs : completions[j].from # "none"}
LiveSessions == {s \in Sessions : sessions[s].status = "live"}
LeaseHeld(s) == sessions[s].status = "live" /\ sessions[s].lease > 0
Fresh(j) == jobs[j].status = "none" /\ \A k \in Jobs : jobs[k].status = "none" => j <= k

(* pendingCount: queued rows plus completions waiting for the database. *)
PendingCount == Cardinality(Queued) + Cardinality(Deferred)

(* transition returns an error: the call failed, or the native map has no   *)
(* such row (a database reports a missing row as "not changed").            *)
TransitionErr(j, o) == o # "ok" \/ (~Durable /\ jobs[j].status = "deleted")

(* One database call of the step ends with outcome o. *)
DbCall(o) ==
    /\ o = "ok" \/ (Durable /\ o \in FaultKinds /\ faults < MaxFaults)
    /\ faults' = IF o = "ok" THEN faults ELSE faults + 1

-----------------------------------------------------------------------------
(* Effects shared by several handlers, as values of the next state. *)

Pin(p, s) == [p EXCEPT ![s] = @ + 1]
(* Mutant: the count is decremented without looking whether a pin exists. *)
ReleaseUnchecked(p, s) == [x \in DOMAIN p |-> IF x = s THEN p[x] - 1 ELSE p[x]]
Release(p, s) == [p EXCEPT ![s] = IF @ = 0 THEN 0 ELSE @ - 1]

(* Mutant: the gate opens although the final record is still deferred. *)
EndPublicationEarly(P, j) == P \ {j}
(* endPublication: a deferred completion keeps the gate closed. *)
EndPublication(P, j) == IF j \in Deferred THEN P ELSE P \ {j}

SetStatus(js, j, st) == [js EXCEPT ![j].status = st]

(* Mutant: the conditional transition writes whatever the row holds. *)
TransitionAlways(js, j, from, to) == SetStatus(js, j, to)
(* transition: a compare-and-set on the status of one row. *)
Transition(js, j, from, to) == IF js[j].status = from THEN SetStatus(js, j, to) ELSE js

(* cancel(id) ends with outcome o: a row that is no longer queued keeps its *)
(* pin and its gate.                                                        *)
CancelRow(j, o) ==
    LET hit == jobs[j].status = "queued"
    IN  /\ jobs' = IF o = "fail" THEN jobs ELSE Transition(jobs, j, "queued", "cancelled")
        /\ pins' = IF hit /\ o = "ok" THEN Release(pins, jobs[j].snapshot) ELSE pins
        /\ publications' = IF hit /\ o = "ok" THEN EndPublication(publications, j)
                                              ELSE publications

(* Mutant: a session that already has a token in the channel sends another. *)
CanScheduleTwice(S) == S.running = NoJob /\ S.pending # NoJob /\ Len(queue) < QueueCap
(* scheduleSessionLocked: one token per idle session, never blocking. *)
CanSchedule(S) ==
    ~S.scheduled /\ S.running = NoJob /\ S.pending # NoJob /\ Len(queue) < QueueCap

ScheduleSession(s, S) ==
    /\ sessions' = [sessions EXCEPT ![s] = [S EXCEPT !.scheduled = @ \/ CanSchedule(S)]]
    /\ queue' = IF CanSchedule(S) THEN Append(queue, s) ELSE queue

(* Mutant: the running slot is cleared by whichever attempt finishes. *)
OwnsSlotAny(j) == jobs[j].session \in LiveSessions
(* finishSession's test that the session still runs this very job. *)
OwnsSlot(j) ==
    /\ jobs[j].session \in LiveSessions
    /\ sessions[jobs[j].session].running = j

(* Mutant: the loaded status is taken for final whatever it is. *)
FinalStatusTrusting(j, known) == known
(* finishSession reads the row only when its caller's copy is unfinished. *)
FinalStatus(j, known) == IF known \in Terminal THEN known ELSE jobs[j].status

(* finishSession for a caller whose copy of job j has status known. *)
FinishSession(j, known) ==
    LET s == jobs[j].session
        final == FinalStatus(j, known)
    IN  IF j \notin Deferred /\ final \in Terminal /\ OwnsSlot(j)
        THEN ScheduleSession(s, [sessions[s] EXCEPT
                 !.running = NoJob,
                 !.lastOk = IF final = "succeeded" THEN j ELSE @])
        ELSE UNCHANGED <<sessions, queue>>

-----------------------------------------------------------------------------
(* Requests for ordinary jobs. *)

NewRow(p, s, r) == [status |-> "queued", session |-> s, revision |-> r,
                    snapshot |-> p, accounted |-> FALSE]

(* Mutant: a row that could not be sent is left as it is. *)
UnsentAfterDropped(j) == unsent
(* A row the full channel refused is cancelled once admissionMu is free. *)
UnsentAfter(j) == IF Len(queue) < QueueCap THEN unsent ELSE unsent \cup {j}

(* Enqueue: admission, the row, its gate and pin, the channel send.  A lost *)
(* insert leaves a row without any of them.                                 *)
Enqueue(j, p, o) ==
    /\ Fresh(j) /\ PendingCount < MaxQueuedJobs
    /\ o # "fail" /\ DbCall(o)
    /\ jobs' = [jobs EXCEPT ![j] = NewRow(p, NoSession, 0)]
    /\ \/ /\ o = "lost"
          /\ UNCHANGED <<publications, pins, queue, unsent>>
       \/ /\ o = "ok"
          /\ publications' = publications \cup {j}
          /\ pins' = Pin(pins, p)
          /\ queue' = IF Len(queue) < QueueCap THEN Append(queue, j) ELSE queue
          /\ unsent' = UnsentAfter(j)
    /\ UNCHANGED <<active, completions, sessions, worker, recovery, asideVars>>

(* Enqueue's default branch: after unlocking, cancel the row that could not *)
(* be sent, ignoring the result.                                            *)
CancelUnsent(j, o) ==
    /\ j \in unsent /\ DbCall(o)
    /\ unsent' = unsent \ {j}
    /\ CancelRow(j, o)
    /\ UNCHANGED <<queue, active, completions, sessions, worker, recovery, asideVars>>

(* Cancel of a queued job. *)
CancelQueued(j, o) ==
    /\ jobs[j].status = "queued"
    /\ o # "fail" /\ DbCall(o)
    /\ CancelRow(j, o)
    /\ UNCHANGED <<queue, active, completions, sessions, worker, recovery, unsent, asideVars>>

(* Cancel of a running job: the row changes; the worker notices later and   *)
(* gives back the pin.                                                      *)
CancelRunning(j, o) ==
    /\ jobs[j].status = "running" /\ j \in active \cup Deferred
    /\ o # "fail" /\ DbCall(o)
    /\ jobs' = Transition(jobs, j, "running", "cancelled")
    /\ UNCHANGED <<queue, active, completions, publications, pins, sessions, worker, recovery,
                   unsent, asideVars>>

(* Mutant: a job whose completion is deferred does not count as active. *)
BusyIgnoringDeferred == {j \in Jobs : j \in active \/ jobs[j].status \in Pending}
(* The jobs cleanupProject reports as active. *)
Busy == {j \in Jobs : j \in active \cup Deferred \/ jobs[j].status \in Pending}

(* cleanupProject with scope "project" and a matching plan digest. *)
CleanupProject ==
    /\ LiveSessions = {} /\ Busy = {}
    /\ \E j \in Jobs : jobs[j].status \in Terminal
    /\ jobs' = [j \in Jobs |-> IF jobs[j].status \in Terminal
                               THEN [jobs[j] EXCEPT !.status = "deleted"] ELSE jobs[j]]
    /\ UNCHANGED <<queue, active, completions, publications, pins, sessions, worker,
                   recovery, unsent, faults, asideVars>>

(* The job is named by a channel entry, a session slot or a worker. *)
Referenced(j) ==
    \/ \E i \in DOMAIN queue : queue[i] = j
    \/ \E s \in Sessions : j \in {sessions[s].pending, sessions[s].running}
    \/ \E w \in Workers : worker[w].token = j
    \/ recovery.job = j

(* A row the retention sweep may remove: terminal and its gate open. *)
Expired(j) ==
    /\ jobs[j].status \in Terminal /\ j \notin publications
    /\ LongRetention => ~Referenced(j)

(* pruneTerminal, one row at a time. *)
PruneTerminal(j) ==
    /\ Expired(j)
    /\ jobs' = SetStatus(jobs, j, "deleted")
    /\ UNCHANGED <<queue, active, completions, publications, pins, sessions, worker,
                   recovery, unsent, faults, asideVars>>

-----------------------------------------------------------------------------
(* A compile worker: worker() and run(). *)

Goto(w, pc, known) == worker' = [worker EXCEPT ![w].pc = pc, ![w].known = known]
Idle(w) == worker' = [worker EXCEPT ![w] = IdleWorker]

(* worker: receive the next identifier from the channel. *)
Receive(w) ==
    /\ worker[w].pc = "idle" /\ queue # <<>>
    /\ worker' = [worker EXCEPT ![w] =
           [pc |-> IF Head(queue) \in Sessions THEN "take" ELSE "load",
            token |-> Head(queue), known |-> "none"]]
    /\ queue' = Tail(queue)
    /\ UNCHANGED <<jobs, active, completions, publications, pins, sessions, recovery,
                   unsent, faults, asideVars>>

(* Mutant: the job moves to the running slot but also stays pending. *)
TakenKeepingPending(S) == [S EXCEPT !.scheduled = FALSE, !.running = S.pending]
(* takeSession's new state of a session that is idle with work pending. *)
Taken(S) == [S EXCEPT !.scheduled = FALSE, !.running = S.pending, !.pending = NoJob]

(* takeSession: turn a session token into its pending job. *)
TakeSession(w) ==
    LET s == worker[w].token
        S == sessions[s]
        ready == S.running = NoJob /\ S.pending # NoJob
    IN  /\ worker[w].pc = "take"
        /\ sessions' = CASE S.status # "live" -> sessions
                         [] S.status = "live" /\ ready -> [sessions EXCEPT ![s] = Taken(S)]
                         [] OTHER -> [sessions EXCEPT ![s].scheduled = FALSE]
        /\ worker' = [worker EXCEPT ![w] =
               IF S.status = "live" /\ ready
               THEN [pc |-> "load", token |-> S.pending, known |-> "none"]
               ELSE IdleWorker]
        /\ UNCHANGED <<jobs, queue, active, completions, publications, pins, recovery,
                       unsent, faults, asideVars>>

(* A read that failed otherwise than by a missing row is tried again. *)
LoadFailed(w) == Goto(w, "requeue", "none")

(* run: load the row.  Only a database reports a missing row as such; the   *)
(* native map returns an ordinary error, which is requeued.                 *)
LoadJob(w, o) ==
    LET st == jobs[worker[w].token].status
    IN  /\ worker[w].pc = "load"
        /\ o \in {"ok", "fail"} /\ DbCall(o)
        /\ \/ o = "fail" /\ LoadFailed(w)
           \/ o = "ok" /\ st = "deleted" /\ Durable /\ Idle(w)
           \/ o = "ok" /\ st = "deleted" /\ ~Durable /\ LoadFailed(w)
           \/ o = "ok" /\ st = "queued" /\ Goto(w, "start", st)
           \/ o = "ok" /\ st \notin {"queued", "deleted"} /\ Goto(w, "settle", st)
        /\ UNCHANGED <<jobs, queue, active, completions, publications, pins, sessions,
                       recovery, unsent, asideVars>>

(* validateSessionJobLocked. *)
ValidSessionJob(j) ==
    jobs[j].session # NoSession =>
        LeaseHeld(jobs[j].session) /\ sessions[jobs[j].session].running = j

(* run, under admissionMu: the session no longer owns the attempt. *)
RejectJob(w, o) ==
    LET j == worker[w].token
    IN  /\ worker[w].pc = "start" /\ ~ValidSessionJob(j)
        /\ DbCall(o) /\ CancelRow(j, o)
        /\ Goto(w, "settle", "queued")
        /\ UNCHANGED <<queue, active, completions, sessions, recovery, unsent, asideVars>>

(* run, under admissionMu: queued -> running. *)
StartJob(w, o) ==
    LET j == worker[w].token
        hit == jobs[j].status = "queued"
    IN  /\ worker[w].pc = "start" /\ ValidSessionJob(j)
        /\ DbCall(o)
        /\ jobs' = IF o = "fail" THEN jobs ELSE Transition(jobs, j, "queued", "running")
        /\ active' = IF hit /\ o = "ok" THEN active \cup {j} ELSE active
        /\ \/ TransitionErr(j, o) /\ Goto(w, "requeue", "running")
           \/ ~TransitionErr(j, o) /\ hit /\ Goto(w, "compile", "running")
           \/ ~TransitionErr(j, o) /\ ~hit /\ Goto(w, "unwind", "running")
        /\ UNCHANGED <<queue, completions, publications, pins, sessions, recovery, unsent,
                       asideVars>>

(* Mutant: the completion is dropped once its retries are used up. *)
DeferDropped(j, from, to) == UNCHANGED completions
(* deferCompletion *)
Defer(j, from, to) == completions' = [completions EXCEPT ![j] = [from |-> from, to |-> to]]

(* Mutant: a worker overtaken by Cancel keeps its own verdict. *)
FinishedStatusOwn(j, out) == out
(* finish adopts the row's status when its transition missed. *)
FinishedStatus(j, out) == IF jobs[j].status = "running" THEN out ELSE jobs[j].status

(* run and finish: workspace, compile and archive end with result out, then *)
(* the terminal transition.  "fail" and "lost" mean that every retry within *)
(* the persistence deadline failed.  A row that is gone by then defers the  *)
(* completion too: finish cannot load what overtook it.                     *)
FinishJob(w, out, o) ==
    LET j == worker[w].token
        final == FinishedStatus(j, out)
        read == o = "ok" /\ jobs[j].status # "deleted"
    IN  /\ worker[w].pc = "compile"
        /\ DbCall(o)
        /\ jobs' = IF o = "fail" THEN jobs ELSE Transition(jobs, j, "running", out)
        /\ \/ /\ read
              /\ pins' = Release(pins, jobs[j].snapshot)
              /\ Goto(w, IF final = "succeeded" THEN "publish" ELSE "unwind", final)
              /\ UNCHANGED completions
           \/ /\ ~read
              /\ Defer(j, "running", out)
              /\ Goto(w, "unwind", out)
              /\ UNCHANGED pins
        /\ UNCHANGED <<queue, active, publications, sessions, recovery, unsent, asideVars>>

Account(js, j) == IF js[j].status = "succeeded" THEN [js EXCEPT ![j].accounted = TRUE] ELSE js

(* publishExecution and updatePublishedCache: the compile cache is stored,  *)
(* then the succeeded row is rewritten with the cache's accounting.         *)
PublishJob(w, o) ==
    LET j == worker[w].token
    IN  /\ worker[w].pc = "publish"
        /\ DbCall(o)
        /\ jobs' = IF o = "fail" THEN jobs ELSE Account(jobs, j)
        /\ IF TransitionErr(j, o) THEN Defer(j, "succeeded", "succeeded")
                                  ELSE UNCHANGED completions
        /\ Goto(w, "unwind", "succeeded")
        /\ UNCHANGED <<queue, active, publications, pins, sessions, recovery, unsent, asideVars>>

(* The same for a job that asked for no server cache. *)
SkipPublish(w) ==
    /\ worker[w].pc = "publish"
    /\ Goto(w, "unwind", "succeeded")
    /\ UNCHANGED <<jobs, queue, active, completions, publications, pins, sessions, recovery,
                   unsent, faults, asideVars>>

(* run's deferred removal from m.active. *)
Deactivate(w) ==
    /\ worker[w].pc = "unwind"
    /\ active' = active \ {worker[w].token}
    /\ Goto(w, "settle", worker[w].known)
    /\ UNCHANGED <<jobs, queue, completions, publications, pins, sessions, recovery, unsent,
                   faults, asideVars>>

(* run's deferred finishSession; its own read of the row may fail. *)
SettleSession(w, o) ==
    LET j == worker[w].token
        reads == jobs[j].session # NoSession /\ j \notin Deferred /\ worker[w].known \notin Terminal
    IN  /\ worker[w].pc = "settle"
        /\ o = "ok" \/ (o = "fail" /\ reads)
        /\ DbCall(o)
        /\ IF o = "ok" THEN FinishSession(j, worker[w].known) ELSE UNCHANGED <<sessions, queue>>
        /\ Goto(w, "gate", worker[w].known)
        /\ UNCHANGED <<jobs, active, completions, publications, pins, recovery, unsent, asideVars>>

(* run's deferred endPublication. *)
OpenGate(w) ==
    /\ worker[w].pc = "gate"
    /\ publications' = EndPublication(publications, worker[w].token)
    /\ Idle(w)
    /\ UNCHANGED <<jobs, queue, active, completions, pins, sessions, recovery, unsent, faults,
                   asideVars>>

(* requeue: after one second, a send that blocks while the channel is full. *)
(* A failed start has registered the deletion of the job from m.active,     *)
(* which run makes after the send; a failed load has not.                   *)
Requeue(w) ==
    LET j == worker[w].token
        late == worker[w].known = "running"
    IN  /\ worker[w].pc = "requeue" /\ Len(queue) < QueueCap
        /\ queue' = Append(queue, j)
        /\ worker' = [worker EXCEPT ![w] =
               IF late THEN [IdleWorker EXCEPT !.pc = "forget"] ELSE IdleWorker]
        /\ leaving' = [leaving EXCEPT ![w] = IF late THEN j ELSE NoJob]
        /\ UNCHANGED <<jobs, active, completions, publications, pins, sessions, recovery, unsent,
                       faults, recovering, restarts, unmarked>>

(* run's deferred deletion after requeue: by now another worker may have    *)
(* received the job and started it; its entry goes.                         *)
Forget(w) ==
    /\ worker[w].pc = "forget"
    /\ active' = active \ {leaving[w]}
    /\ unmarked' = unmarked \cup (active \cap {leaving[w]})
    /\ leaving' = [leaving EXCEPT ![w] = NoJob]
    /\ Idle(w)
    /\ UNCHANGED <<jobs, queue, completions, publications, pins, sessions, recovery, unsent,
                   faults, recovering, restarts>>

-----------------------------------------------------------------------------
(* The recovery goroutine: retryCompletions, one completion at a time. *)

(* Mutant: a cache-accounting completion gives back a pin as well. *)
OwesPinAlways(c) == TRUE
(* Only a completion deferred by finish still owns the source pin. *)
OwesPin(c) == c.from = "running"

(* The status recovery works with: its own if the transition hit, otherwise *)
(* the row's.                                                               *)
RecoveredStatus(j) ==
    IF jobs[j].status = completions[j].from THEN completions[j].to ELSE jobs[j].status

RecoveredRow(j) ==
    IF completions[j].from = "running"
    THEN Transition(jobs, j, "running", completions[j].to)
    ELSE Account(jobs, j)

(* The transition of a deferred completion becomes durable. *)
RetryCompletion(j) ==
    /\ recovery.pc = "idle" /\ j \in Deferred
    /\ jobs[j].status # "deleted"
    /\ jobs' = RecoveredRow(j)
    /\ completions' = [completions EXCEPT ![j] = NoCompletion]
    /\ pins' = IF OwesPin(completions[j]) THEN Release(pins, jobs[j].snapshot) ELSE pins
    /\ recovery' = [pc |-> "settle", job |-> j, known |-> RecoveredStatus(j)]
    /\ UNCHANGED <<queue, active, publications, sessions, worker, unsent, faults, asideVars>>

(* The same transition, its answer lost: the completion stays deferred. *)
RetryLost(j) ==
    /\ recovery.pc = "idle" /\ j \in Deferred
    /\ DbCall("lost")
    /\ jobs' = RecoveredRow(j)
    /\ UNCHANGED <<queue, active, completions, publications, pins, sessions, worker, recovery,
                   unsent, asideVars>>

RecoverSession ==
    /\ recovery.pc = "settle"
    /\ FinishSession(recovery.job, recovery.known)
    /\ recovery' = [recovery EXCEPT !.pc = "gate"]
    /\ UNCHANGED <<jobs, active, completions, publications, pins, worker, unsent, faults, asideVars>>

(* Mutant: recovery forgets the gate. *)
RecoverGateClosed ==
    /\ recovery.pc = "gate"
    /\ recovery' = IdleRecovery
    /\ UNCHANGED <<jobs, queue, active, completions, publications, pins, sessions, worker,
                   unsent, faults, asideVars>>
RecoverGate ==
    /\ recovery.pc = "gate"
    /\ publications' = EndPublication(publications, recovery.job)
    /\ recovery' = IdleRecovery
    /\ UNCHANGED <<jobs, queue, active, completions, pins, sessions, worker, unsent, faults,
                   asideVars>>

-----------------------------------------------------------------------------
(* Realtime sessions. *)

CreateSession(s) ==
    /\ sessions[s].status = "none"
    /\ Cardinality(LiveSessions) < MaxRealtimeSessions
    /\ sessions' = [sessions EXCEPT ![s] = [NoLease EXCEPT !.status = "live", !.lease = LeaseTTL]]
    /\ UNCHANGED <<jobs, queue, active, completions, publications, pins, worker, recovery,
                   unsent, faults, asideVars>>

RenewSession(s) ==
    /\ LeaseHeld(s)
    /\ sessions' = [sessions EXCEPT ![s].lease = LeaseTTL]
    /\ UNCHANGED <<jobs, queue, active, completions, publications, pins, worker, recovery,
                   unsent, faults, asideVars>>

(* A tick of the clock brings the lease closer to ExpiresAt. *)
LeaseTick(s) ==
    /\ LeaseHeld(s)
    /\ sessions' = [sessions EXCEPT ![s].lease = @ - 1]
    /\ UNCHANGED <<jobs, queue, active, completions, publications, pins, worker, recovery,
                   unsent, faults, asideVars>>

(* The pending revision SubmitRevision is about to supersede is queued. *)
Supersedes(s) == sessions[s].pending # NoJob /\ jobs[sessions[s].pending].status = "queued"

(* SubmitRevision's checks up to the insert of row j. *)
AdmitRevision(s, j) ==
    /\ LeaseHeld(s) /\ Fresh(j)
    /\ sessions[s].pending # NoJob => jobs[sessions[s].pending].status \in {"queued", "cancelled"}
    /\ PendingCount - (IF Supersedes(s) THEN 1 ELSE 0) < MaxQueuedJobs

NewRevision(s, j, p) == [jobs EXCEPT ![j] = NewRow(p, s, sessions[s].revision + 1)]

(* One pin for the job and one for the session; the superseded job and the  *)
(* session's previous snapshot give theirs back.                            *)
PinsAfterSubmit(s, p) ==
    LET job == Pin(pins, p)
        old == IF Supersedes(s) THEN Release(job, jobs[sessions[s].pending].snapshot) ELSE job
        own == Pin(old, p)
    IN  IF sessions[s].snapshot = NoSnapshot THEN own ELSE Release(own, sessions[s].snapshot)

(* SubmitRevision of snapshot p as job j. *)
SubmitRevision(s, j, p) ==
    LET old == sessions[s].pending
        row == NewRevision(s, j, p)
    IN  /\ AdmitRevision(s, j)
        /\ jobs' = IF Supersedes(s) THEN Transition(row, old, "queued", "cancelled") ELSE row
        /\ pins' = PinsAfterSubmit(s, p)
        /\ publications' = (IF Supersedes(s) THEN EndPublication(publications, old) ELSE publications)
                           \cup {j}
        /\ ScheduleSession(s, [sessions[s] EXCEPT
               !.revision = @ + 1, !.pending = j, !.snapshot = p, !.lease = LeaseTTL])
        /\ UNCHANGED <<active, completions, worker, recovery, unsent, faults, asideVars>>

(* The insert's answer is lost: the caller releases its pin, the row stays. *)
SubmitLost(s, j, p) ==
    /\ AdmitRevision(s, j)
    /\ DbCall("lost")
    /\ jobs' = NewRevision(s, j, p)
    /\ UNCHANGED <<queue, active, completions, publications, pins, sessions, worker, recovery,
                   unsent, asideVars>>

(* Superseding the old row fails (o), so the new row is cancelled, ignoring *)
(* that call's own outcome (r), and the session keeps its old revision.     *)
SubmitFailed(s, j, p, o, r) ==
    LET old == sessions[s].pending
        row == NewRevision(s, j, p)
        one == IF o = "lost" THEN SetStatus(row, old, "cancelled") ELSE row
    IN  /\ AdmitRevision(s, j) /\ old # NoJob /\ (o = "lost" => Supersedes(s))
        /\ {o, r} \ {"ok"} \subseteq FaultKinds /\ Durable
        /\ faults' = faults + (IF r = "ok" THEN 1 ELSE 2) /\ faults' <= MaxFaults
        /\ jobs' = IF r = "fail" THEN one ELSE SetStatus(one, j, "cancelled")
        /\ pins' = IF r = "ok" THEN pins ELSE Pin(pins, p)
        /\ publications' = IF r = "ok" THEN publications ELSE publications \cup {j}
        /\ UNCHANGED <<queue, active, completions, sessions, worker, recovery, unsent, asideVars>>

(* closeSessionLocked reaches the running job. *)
StopsRunning(s) == sessions[s].running \in active \cup Deferred

(* Mutant: closing a session forgets the session's own pin. *)
PinsAfterCloseLeaking(s) ==
    IF Supersedes(s) THEN Release(pins, jobs[sessions[s].pending].snapshot) ELSE pins
PinsAfterClose(s) ==
    LET old == IF Supersedes(s) THEN Release(pins, jobs[sessions[s].pending].snapshot) ELSE pins
    IN  IF sessions[s].snapshot = NoSnapshot THEN old ELSE Release(old, sessions[s].snapshot)

PublicationsAfterClose(s) ==
    IF Supersedes(s) THEN EndPublication(publications, sessions[s].pending) ELSE publications

CancelPending(s) ==
    IF sessions[s].pending = NoJob THEN jobs
    ELSE Transition(jobs, sessions[s].pending, "queued", "cancelled")

CancelBoth(s) ==
    IF StopsRunning(s) THEN Transition(CancelPending(s), sessions[s].running, "running", "cancelled")
    ELSE CancelPending(s)

ClosePrecondition(s) ==
    /\ sessions[s].status = "live"
    /\ sessions[s].pending # NoJob => jobs[sessions[s].pending].status \in {"queued", "cancelled"}

(* closeSessionLocked, from CloseSession or from the expiry sweep. *)
CloseSession(s) ==
    /\ ClosePrecondition(s)
    /\ jobs' = CancelBoth(s)
    /\ pins' = PinsAfterClose(s)
    /\ publications' = PublicationsAfterClose(s)
    /\ sessions' = [sessions EXCEPT ![s] = ClosedLease]
    /\ UNCHANGED <<queue, active, completions, worker, recovery, unsent, faults, asideVars>>

(* The call that cancels the pending job is lost: the row changed, nothing  *)
(* else did.                                                                *)
ClosePendingLost(s) ==
    /\ ClosePrecondition(s) /\ Supersedes(s) /\ DbCall("lost")
    /\ jobs' = CancelPending(s)
    /\ UNCHANGED <<queue, active, completions, publications, pins, sessions, worker, recovery,
                   unsent, asideVars>>

(* The pending job is cancelled, then the running one's transition fails:   *)
(* the session stays live.                                                  *)
CloseRunningFailed(s, o) ==
    /\ ClosePrecondition(s) /\ StopsRunning(s) /\ o # "ok" /\ DbCall(o)
    /\ jobs' = IF o = "fail" THEN CancelPending(s) ELSE CancelBoth(s)
    /\ pins' = IF Supersedes(s) THEN Release(pins, jobs[sessions[s].pending].snapshot) ELSE pins
    /\ publications' = PublicationsAfterClose(s)
    /\ UNCHANGED <<queue, active, completions, sessions, worker, recovery, unsent, asideVars>>

(* maintainSessions' retry of a send that found the channel full. *)
MaintainSession(s) ==
    /\ s \in LiveSessions /\ CanSchedule(sessions[s])
    /\ ScheduleSession(s, sessions[s])
    /\ UNCHANGED <<jobs, active, completions, publications, pins, worker, recovery, unsent,
                   faults, asideVars>>

-----------------------------------------------------------------------------
(* Start after a crash. *)

PendingRows == {j \in Jobs : jobs[j].status \in Pending}

(* Mutant: a row that was running when the server stopped is not reset. *)
RecoveredStatusAtStartKept(j) == jobs[j].status
(* Start ends session rows and puts every other pending row back to queued. *)
RecoveredStatusAtStart(j) == IF jobs[j].session = NoSession THEN "queued" ELSE "cancelled"

(* The pending rows Start pins and feeds to the workers. *)
Resumes(j) == jobs[j].session = NoSession

(* Start with the database listing its rows: bad rows fail their update. *)
RestartListed(bad) ==
    LET seen == PendingRows \ bad
        kept == {j \in seen : Resumes(j)}
    IN  /\ Durable
        /\ faults' = faults + Cardinality(bad)
        /\ jobs' = [j \in Jobs |-> IF j \in seen
                        THEN [jobs[j] EXCEPT !.status = RecoveredStatusAtStart(j)] ELSE jobs[j]]
        /\ recovering' = kept
        /\ publications' = kept
        /\ pins' = [p \in Snapshots |-> Cardinality({j \in kept : jobs[j].snapshot = p})]

(* Start without rows: the listing failed, or the rows were in memory. *)
RestartBlind ==
    /\ faults' = IF Durable THEN faults + 1 ELSE faults
    /\ jobs' = IF Durable THEN jobs ELSE
           [j \in Jobs |-> IF jobs[j].status = "none" THEN jobs[j]
                           ELSE [jobs[j] EXCEPT !.status = "deleted"]]
    /\ recovering' = {}
    /\ publications' = {}
    /\ pins' = [p \in Snapshots |-> 0]

Restart ==
    /\ restarts < MaxRestarts
    /\ restarts' = restarts + 1
    /\ \/ RestartListed({})
       \/ /\ "boot" \in FaultKinds
          /\ \E bad \in SUBSET {j \in PendingRows :
                                  jobs[j].session # NoSession \/ jobs[j].status = "running"} :
               /\ bad # {} /\ faults + Cardinality(bad) <= MaxFaults
               /\ RestartListed(bad)
       \/ /\ Durable => "boot" \in FaultKinds /\ faults < MaxFaults
          /\ RestartBlind
    /\ queue' = <<>>
    /\ active' = {}
    /\ completions' = [j \in Jobs |-> NoCompletion]
    /\ sessions' = [s \in Sessions |-> IF sessions[s].status = "live" THEN ClosedLease
                                       ELSE sessions[s]]
    /\ worker' = [w \in Workers |-> IdleWorker]
    /\ recovery' = IdleRecovery
    /\ unsent' = {}
    /\ leaving' = [w \in Workers |-> NoJob]
    /\ unmarked' = {}

Fed(j) == recovering \ {j}

(* The goroutine that feeds recovered jobs, oldest first, into the channel. *)
FeedRecovered(j) ==
    /\ j \in recovering /\ \A k \in recovering : j <= k
    /\ Len(queue) < QueueCap
    /\ queue' = Append(queue, j)
    /\ recovering' = Fed(j)
    /\ UNCHANGED <<jobs, active, completions, publications, pins, sessions, worker, recovery,
                   unsent, faults, restarts, leaving, unmarked>>

-----------------------------------------------------------------------------
Outcomes == {"ok", "fail", "lost"}

ClientNext ==
    \/ \E j \in Jobs, p \in Snapshots, o \in Outcomes : Enqueue(j, p, o)
    \/ \E j \in Jobs, o \in Outcomes : CancelQueued(j, o)
    \/ \E j \in Jobs, o \in Outcomes : CancelRunning(j, o)
    \/ CleanupProject

SessionNext ==
    \/ \E s \in Sessions : CreateSession(s)
    \/ \E s \in Sessions : RenewSession(s)
    \/ \E s \in Sessions : LeaseTick(s)
    \/ \E s \in Sessions, j \in Jobs, p \in Snapshots : SubmitRevision(s, j, p)
    \/ \E s \in Sessions, j \in Jobs, p \in Snapshots : SubmitLost(s, j, p)
    \/ \E s \in Sessions, j \in Jobs, p \in Snapshots, o \in {"fail", "lost"}, r \in Outcomes :
          SubmitFailed(s, j, p, o, r)
    \/ \E s \in Sessions : CloseSession(s)
    \/ \E s \in Sessions : ClosePendingLost(s)
    \/ \E s \in Sessions, o \in {"fail", "lost"} : CloseRunningFailed(s, o)

WorkerNext(w) ==
    \/ Receive(w)
    \/ TakeSession(w)
    \/ \E o \in Outcomes : LoadJob(w, o)
    \/ \E o \in Outcomes : RejectJob(w, o)
    \/ \E o \in Outcomes : StartJob(w, o)
    \/ \E out \in {"succeeded", "failed"}, o \in Outcomes : FinishJob(w, out, o)
    \/ \E o \in Outcomes : PublishJob(w, o)
    \/ SkipPublish(w)
    \/ Deactivate(w)
    \/ \E o \in Outcomes : SettleSession(w, o)
    \/ OpenGate(w)
    \/ Requeue(w)
    \/ Forget(w)

RecoveryNext ==
    \/ \E j \in Jobs : RetryCompletion(j)
    \/ \E j \in Jobs : RetryLost(j)
    \/ RecoverSession
    \/ RecoverGate

BackgroundNext ==
    \/ \E j \in Jobs, o \in Outcomes : CancelUnsent(j, o)
    \/ \E j \in Jobs : FeedRecovered(j)
    \/ \E j \in Jobs : PruneTerminal(j)
    \/ \E s \in Sessions : MaintainSession(s)
    \/ Restart

Next ==
    \/ ClientNext
    \/ SessionNext
    \/ \E w \in Workers : WorkerNext(w)
    \/ RecoveryNext
    \/ BackgroundNext

Spec == Init /\ [][Next]_vars

-----------------------------------------------------------------------------
(* Invariants. *)

(* Every variable has its type. *)
TypeOK ==
    /\ jobs \in [Jobs -> Job]
    /\ queue \in Seq(Jobs \cup Sessions)
    /\ active \subseteq Jobs
    /\ completions \in [Jobs -> Completion]
    /\ publications \subseteq Jobs
    /\ pins \in [Snapshots -> Nat]
    /\ sessions \in [Sessions -> Session]
    /\ worker \in [Workers -> Worker]
    /\ recovery \in Recovery
    /\ recovering \subseteq Jobs
    /\ unsent \subseteq Jobs
    /\ faults \in Nat
    /\ restarts \in Nat
    /\ leaving \in [Workers -> Jobs \cup {NoJob}]
    /\ unmarked \subseteq Jobs

HoldsPin(j) ==
    \/ jobs[j].status \in Pending
    \/ completions[j].from = "running"
    \/ \E w \in Workers : worker[w].pc = "compile" /\ worker[w].token = j

(* The reference count of a snapshot is the number of its owners: jobs that *)
(* are queued, running, being wound up after a cancellation or waiting for  *)
(* their deferred completion, and live sessions.  No path (cancel, finish,  *)
(* recovery, supersede, close, restart) forgets a pin or returns one twice. *)
PinExact ==
    \A p \in Snapshots :
        pins[p] = Cardinality({j \in Jobs : HoldsPin(j) /\ jobs[j].snapshot = p})
                + Cardinality({s \in LiveSessions : sessions[s].snapshot = p})

InChannel(t) == \E i \in DOMAIN queue : queue[i] = t
Placed(j) ==
    InChannel(j) \/ j \in recovering \cup unsent \/ \E w \in Workers : worker[w].token = j

(* A job id is in one place at a time (channel, one worker, Start's feeder, *)
(* a failing Enqueue), so no job is ever executed by two workers, whatever  *)
(* was requeued, recovered or rescheduled.                                  *)
SoleToken ==
    /\ \A i, k \in DOMAIN queue : queue[i] \in Jobs /\ queue[i] = queue[k] => i = k
    /\ \A w \in Workers : worker[w].token \in Jobs =>
          /\ ~InChannel(worker[w].token)
          /\ \A v \in Workers : worker[v].token = worker[w].token => v = w
    /\ \A j \in recovering \cup unsent :
          ~InChannel(j) /\ \A w \in Workers : worker[w].token # j
    /\ recovering \cap unsent = {}

(* A queued job outside the sessions is always on its way to a worker, or   *)
(* about to be cancelled by the Enqueue that could not send it.             *)
QueuedIsScheduled == \A j \in Queued : jobs[j].session = NoSession => Placed(j)

SessionTokens(s) ==
    Cardinality({i \in DOMAIN queue : queue[i] = s})
    + Cardinality({w \in Workers : worker[w].token = s})

(* "Only one queue token exists per idle session": the scheduled flag of a  *)
(* live session is set exactly while its token is in the channel or in the  *)
(* hands of a worker that has not taken the session yet.                    *)
OneSessionToken ==
    \A s \in LiveSessions : SessionTokens(s) = IF sessions[s].scheduled THEN 1 ELSE 0

(* The revision a session holds as pending has not started.  SubmitRevision *)
(* reads it through Get while it holds admissionMu; were the row succeeded, *)
(* Get would wait for a gate whose worker waits for admissionMu.            *)
PendingNotStarted ==
    \A s \in LiveSessions :
        sessions[s].pending # NoJob => jobs[sessions[s].pending].status \in {"queued", "cancelled"}

(* A running session job is the one in its session's running slot, so a     *)
(* session never has two attempts running, and the slot's revision is older *)
(* than the pending one.                                                    *)
OneAttempt ==
    \A s \in LiveSessions :
        /\ \A j \in Jobs : jobs[j].session = s /\ jobs[j].status = "running"
                           => sessions[s].running = j
        /\ sessions[s].running # NoJob /\ sessions[s].pending # NoJob
              => jobs[sessions[s].running].revision < jobs[sessions[s].pending].revision

(* Neither the retention sweep nor project cleanup removes a row whose      *)
(* completion is deferred; recovery would otherwise retry it for ever.  The *)
(* one exception is a job whose m.active entry was deleted by the worker    *)
(* that failed to start it earlier (manager.go:748): cleanup takes such an  *)
(* attempt for finished and may remove its row before it ends.              *)
DeferredHasRow ==
    \A j \in Deferred \ unmarked : jobs[j].status \in Terminal \cup {"running"}

(* A session's last successful job is one whose durable row says succeeded. *)
LastSuccessDurable ==
    \A s \in LiveSessions :
        sessions[s].lastOk # NoJob => jobs[sessions[s].lastOk].status \in {"succeeded", "deleted"}

-----------------------------------------------------------------------------
(* Action properties. *)

(* A terminal row never changes its status again, whichever of a worker,    *)
(* Cancel, CloseSession, recovery or Start comes late; it can only be       *)
(* deleted.                                                                 *)
TerminalStable ==
    [][\A j \in Jobs : jobs[j].status \in Terminal
          => jobs'[j].status \in {jobs[j].status, "deleted"}]_vars

(* Once the gate of a succeeded job is open its row is final: a reader that *)
(* waited in Get never sees the cache accounting change afterwards.         *)
OpenGateFinal ==
    [][\A j \in Jobs : jobs[j].status = "succeeded" /\ j \notin publications
          => jobs'[j].accounted = jobs[j].accounted]_vars

RevisionOf(j) == IF j = NoJob THEN 0 ELSE jobs[j].revision

(* The last successful revision of a session never goes back to an older    *)
(* one, however late a deferred completion is recovered.                    *)
LastSuccessMonotone ==
    [][\A s \in Sessions : sessions[s].status = "live" /\ sessions'[s].status = "live"
          => RevisionOf(sessions[s].lastOk) <= RevisionOf(sessions'[s].lastOk)]_vars

-----------------------------------------------------------------------------
(* The lifecycle a client sees. *)

Lifecycle == INSTANCE JobLifecycle WITH
    status <- [j \in Jobs |-> jobs[j].status],
    accounted <- [j \in Jobs |-> jobs[j].accounted],
    gates <- publications

(* The queue with its workers, sessions, recovery and restarts implements   *)
(* the lifecycle of JobLifecycle, whatever database calls fail.             *)
ImplementsLifecycle == Lifecycle!Spec

-----------------------------------------------------------------------------
(* Liveness. *)

(* The goroutines of the process keep running: workers (a compile ends by   *)
(* CompileTimeout), the one-second tickers of recovery and maintenance, the *)
(* feeder of Start and an Enqueue that has unlocked.  Clients, the clock of *)
(* a lease, retention and crashes owe nothing.                              *)
Fairness ==
    /\ \A w \in Workers : WF_vars(WorkerNext(w))
    /\ WF_vars(RecoveryNext)
    /\ \A j \in Jobs : WF_vars(\E o \in Outcomes : CancelUnsent(j, o))
    /\ \A j \in Jobs : WF_vars(FeedRecovered(j))
    /\ \A s \in Sessions : WF_vars(MaintainSession(s))

FairSpec == Spec /\ Fairness

(* No database call has failed yet.  A failure can strand a job that has    *)
(* not started or a session's slot (see WorkerReturns and the README).      *)
DatabaseUp == faults = 0

(* While the database answers, every submitted job reaches a terminal       *)
(* status, across restarts, supersedes and closed sessions.                 *)
JobsFinish ==
    \A j \in Jobs : jobs[j].status \in Pending /\ DatabaseUp
                    ~> jobs[j].status \in Terminal \cup {"deleted"} \/ ~DatabaseUp

(* A worker compiles the job, or its result waits in m.completions. *)
UnderWay(j) ==
    \/ \E w \in Workers : worker[w].pc = "compile" /\ worker[w].token = j
    \/ completions[j].from = "running"

(* An attempt that began leads to a terminal row through any outage that    *)
(* ends, by its worker, by Cancel or by the recovery of its completion; a   *)
(* crash may put the row back to queued instead.  A row is also "running"   *)
(* without an attempt, when the answer of its start transition was lost:    *)
(* that row stays as it is until a restart, and nothing is promised of it.  *)
StartedJobsFinish ==
    \A j \in Jobs : UnderWay(j) ~> jobs[j].status \in Terminal \cup {"deleted", "queued"}

(* The gate of a succeeded job opens through any outage that ends, so no    *)
(* reader that waits in Get waits for ever.  Jobs whose m.active entry was  *)
(* deleted under them are excepted: with their row gone (DeferredHasRow) a  *)
(* deferred completion never ends and the gate stays closed.                *)
GatesOpen ==
    \A j \in Jobs : j \in publications /\ jobs[j].status = "succeeded"
                    ~> j \notin publications \/ j \in unmarked

(* While the database answers, a session's running slot is vacated again,   *)
(* so its next revision gets its turn.                                      *)
SlotVacated ==
    \A s \in Sessions : sessions[s].running # NoJob /\ DatabaseUp
                        ~> sessions[s].running = NoJob \/ ~DatabaseUp

(* "A persistence outage must not occupy a worker indefinitely": a worker   *)
(* that backs off after a failed database call gets free again.             *)
WorkerReturns == \A w \in Workers : worker[w].pc = "requeue" ~> worker[w].pc # "requeue"

=============================================================================
