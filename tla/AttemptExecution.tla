-------------------------- MODULE AttemptExecution --------------------------
(***************************************************************************)
(* What a worker does with a job once it has started it                    *)
(* (packages/server/internal/jobs/execution.go and the part of run after   *)
(* the row is running, with compile, sandbox and project underneath): warm *)
(* state is chosen, TeX runs in a workspace or in a container, a failed    *)
(* warm run is repeated from clean sources, the result is archived, the    *)
(* row ends, and only then is the warm state of the next job published.    *)
(* Around it run the steps that may come between: sessions that close or   *)
(* whose checkpoint expires, cancellation, sweeps, cleanup, and a crash.   *)
(*                                                                         *)
(* The rows, the queue and the pins are JobManager's; here a job has the   *)
(* place its worker has reached, and a session its running slot and the    *)
(* checkpoint it records. Docker and TeX are external: a container exists  *)
(* or not, and a run ends one way or another.                              *)
(***************************************************************************)
EXTENDS StateStore

CONSTANTS
    NoSession,
    NoInputs,
    Inputs,        \* what a snapshot has beside the text of its TeX sources
    MaxCrashes,    \* bound: crashes
    MaxFaults      \* bound: failures of the file system or of Docker

ASSUME AttemptAssumption ==
    /\ NoSession \notin Sessions
    /\ NoInputs \notin Inputs
    /\ MaxCrashes \in Nat /\ MaxFaults \in Nat

VARIABLES
    attempt,    \* each job's place and locals
    lease,      \* m.sessions: what a session records of its checkpoint
    undeleted,  \* sessions whose checkpoint file could not be deleted
    containers, \* containers that exist, by attempt name
    isolated,   \* cfg.RunnerImage is set
    up,         \* the process runs
    crashes, faults

vars == <<disk, pub, stateBytes, pendingBytes, litter, attempt, lease, undeleted,
          containers, isolated, up, crashes, faults>>
boundVars == <<isolated, up, crashes>>
leaseVars == <<lease, undeleted>>

(* session, inputs: the request. pc: where the worker is. ctx: compileCtx  *)
(* has not ended. seen: the job whose inputs were compared. warm: the job  *)
(* whose state was opened. try: 1, or 2 for the clean retry. reuse:        *)
(* e.cache is recorded. exported: the run left a checkpoint. poison:       *)
(* invalidateCheckpoint.                                                   *)
Attempt == [session: Sessions \cup {NoSession}, inputs: Inputs \cup {NoInputs},
            pc: {"new", "queued", "started", "launch", "running", "ran", "archived", "publish",
                 "staging", "commit", "settle", "done"},
            ctx: BOOLEAN, seen: Jobs \cup {Nobody}, warm: Jobs \cup {Nobody}, try: 1..2,
            reuse: BOOLEAN, exported: BOOLEAN, poison: BOOLEAN,
            end: {"none", "ok", "tex", "failed", "cancelled"}]
Unsubmitted == [session |-> NoSession, inputs |-> NoInputs, pc |-> "new", ctx |-> TRUE, seen |-> Nobody, warm |-> Nobody, try |-> 1,
                reuse |-> FALSE, exported |-> FALSE, poison |-> FALSE, end |-> "none"]
(* A worker's locals end with it; the request remains. *)
Request(a, place) == [Unsubmitted EXCEPT !.session = a.session, !.inputs = a.inputs, !.pc = place]

(* of: the job whose inputs and stamps the session records for cachePath,  *)
(* or Nobody. aged: cacheExpires has passed.                               *)
Lease == [live: BOOLEAN, running: Jobs \cup {Nobody}, of: Jobs \cup {Nobody}, aged: BOOLEAN]
OpenLease == [live |-> TRUE, running |-> Nobody, of |-> Nobody, aged |-> FALSE]
NoCheckpoint(l) == [l EXCEPT !.of = Nobody, !.aged = FALSE]

Names == Jobs \X (1..2)   \* latexmk-attempt-<id> and latexmk-attempt-<id>-cold

AttemptTypeOK ==
    /\ StoreTypeOK
    /\ attempt \in [Jobs -> Attempt]
    /\ lease \in [Sessions -> Lease]
    /\ undeleted \subseteq Sessions
    /\ containers \subseteq Names
    /\ {isolated, up} \subseteq BOOLEAN
    /\ crashes \in 0..MaxCrashes /\ faults \in 0..MaxFaults

Init ==
    /\ StoreInit
    /\ attempt = [j \in Jobs |-> Unsubmitted]
    /\ lease = [s \in Sessions |-> OpenLease]
    /\ undeleted = {}
    /\ containers = {}
    /\ isolated \in BOOLEAN
    /\ up = TRUE
    /\ crashes = 0
    /\ faults = 0

-----------------------------------------------------------------------------
At(j, place) == up /\ attempt[j].pc = place
(* m.active holds a job from StartJob until its worker has published.      *)
Active == {j \in Jobs : attempt[j].pc \notin {"new", "queued", "done"}}
Fault == faults < MaxFaults /\ faults' = faults + 1
SessionOf(j) == attempt[j].session
InSession(j) == SessionOf(j) # NoSession
LeaseOf(j) == lease[SessionOf(j)]
(* Queued jobs of a session use its checkpoint only in isolated mode.      *)
UsesSession(j) == isolated /\ InSession(j)
Goto(j, place) == attempt' = [attempt EXCEPT ![j].pc = place]
CompatibleCacheInputs(by, j) == attempt[by].inputs = attempt[j].inputs

(* The row has ended and the worker turns to finishSession, which asks     *)
(* only for poison.                                                        *)
ToSettle(j, poison) == attempt' = [attempt EXCEPT ![j] = [Request(@, "settle") EXCEPT !.poison = poison]]

Submit(j) ==
    /\ At(j, "new")
    /\ \A i \in Jobs : i < j => attempt[i].pc # "new"
    /\ \E s \in {t \in Sessions : lease[t].live} \cup {NoSession}, i \in Inputs :
           attempt' = [attempt EXCEPT ![j].pc = "queued", ![j].session = s, ![j].inputs = i]
    /\ UNCHANGED <<storeVars, leaseVars, containers, boundVars, faults>>

(* takeSession, then run up to the row being running. *)
SlotFree(j) == InSession(j) => LeaseOf(j).live /\ LeaseOf(j).running = Nobody

Start(j) ==
    /\ At(j, "queued")
    /\ SlotFree(j)
    /\ Goto(j, "started")
    /\ lease' = IF InSession(j) THEN [lease EXCEPT ![SessionOf(j)].running = j] ELSE lease
    /\ UNCHANGED <<storeVars, undeleted, containers, boundVars, faults>>

(* A session that has gone takes its queued jobs with it. *)
Drop(j) ==
    /\ At(j, "queued")
    /\ InSession(j) /\ ~LeaseOf(j).live
    /\ attempt' = [attempt EXCEPT ![j].pc = "done"]
    /\ UNCHANGED <<storeVars, leaseVars, containers, boundVars, faults>>

(* No workspace, or its sources cannot be laid out: the job fails unrun. *)
WorkspaceFails(j) ==
    /\ At(j, "started")
    /\ Fault
    /\ ToSettle(j, FALSE)
    /\ UNCHANGED <<storeVars, leaseVars, containers, boundVars>>

-----------------------------------------------------------------------------
(* A request may ask for a clean compile (Force): warm state is not used.  *)
(* executeIsolated: the checkpoint is chosen under admissionMu; its file   *)
(* is opened later, when nothing is locked.                                *)
Checkpoint(j) ==
    IF LeaseOf(j).live /\ ~LeaseOf(j).aged /\ LeaseOf(j).of # Nobody
       /\ CompatibleCacheInputs(LeaseOf(j).of, j)
    THEN LeaseOf(j).of ELSE Nobody

ChooseCheckpoint(j) ==
    /\ At(j, "started")
    /\ UsesSession(j)
    /\ \E force \in BOOLEAN :
           attempt' = [attempt EXCEPT ![j].pc = "launch", ![j].reuse = LeaseOf(j).live,
                                      ![j].seen = IF force THEN Nobody ELSE Checkpoint(j)]
    /\ UNCHANGED <<storeVars, leaseVars, containers, boundVars, faults>>

(* RestoreCompileCache: the record is read under m.mu, so what is compared *)
(* is what is restored. Every job here asks for the portable cache.        *)
RestorableUnchecked(j) == Present(CompileCache) /\ ~disk[CompileCache].aged
Restorable(j) ==
    /\ Present(CompileCache) /\ ~disk[CompileCache].aged
    /\ CompatibleCacheInputs(disk[CompileCache].by, j)

RestoreCompileCache(j) ==
    /\ At(j, "started")
    /\ ~UsesSession(j)
    /\ \E force \in BOOLEAN :
           LET state == IF Restorable(j) /\ ~force THEN disk[CompileCache].by ELSE Nobody IN
           attempt' = [attempt EXCEPT ![j].pc = IF isolated THEN "launch" ELSE "running",
                                      ![j].seen = state, ![j].warm = state, ![j].reuse = TRUE]
    /\ UNCHANGED <<storeVars, leaseVars, containers, boundVars, faults>>

(* Writing it fails half way, and what was written is removed again. *)
RestoreFails(j) ==
    /\ At(j, "started")
    /\ ~UsesSession(j)
    /\ Restorable(j)
    /\ Fault
    /\ attempt' = [attempt EXCEPT ![j].pc = IF isolated THEN "launch" ELSE "running", ![j].reuse = TRUE]
    /\ UNCHANGED <<storeVars, leaseVars, containers, boundVars>>

-----------------------------------------------------------------------------
(* sandbox.Run: the checkpoint file is opened and a container started.     *)
Opens(j) == UsesSession(j) /\ attempt[j].try = 1 /\ attempt[j].seen # Nobody
Attainable(j) == (Opens(j) => Present(LiveCache(SessionOf(j)))) /\ <<j, attempt[j].try>> \notin containers

(* Isolated sources are read where they are stored; one is missing. *)
SourcesFail(j) ==
    /\ At(j, "launch") /\ attempt[j].try = 1
    /\ Fault
    /\ attempt' = [attempt EXCEPT ![j].pc = "ran", ![j].end = IF @ = "cancelled" THEN @ ELSE "failed"]
    /\ UNCHANGED <<storeVars, leaseVars, containers, boundVars>>

Launch(j) ==
    /\ At(j, "launch")
    /\ Attainable(j)
    /\ attempt' = [attempt EXCEPT ![j].pc = "running",
                                  ![j].warm = IF Opens(j) THEN disk[LiveCache(SessionOf(j))].by ELSE @]
    /\ containers' = containers \cup {<<j, attempt[j].try>>}
    /\ UNCHANGED <<storeVars, leaseVars, boundVars, faults>>

(* How a run ends. "ok" is success; "tex" a compiler error; "timeout" the  *)
(* end of ctx or of the runner's own deadline, whatever TeX said; "error"  *)
(* a container or a transport that failed. A cancellation, or a deadline   *)
(* that passes after TeX has ended, leaves the verdict as it is.           *)
Ends == {"ok", "tex", "timeout"}

Warm(j) == attempt[j].try = 1 /\ (attempt[j].warm # Nobody \/ Opens(j))

(* execute, runIsolated: a warm run that failed is repeated from clean     *)
(* sources, unless the job is over or ran out of time.                     *)
RetriesOnlyErrors(j, end) == Warm(j) /\ attempt[j].ctx /\ end = "error"
Retries(j, end) == Warm(j) /\ attempt[j].ctx /\ end \in {"tex", "error"}

(* invalidateCheckpoint: the session's checkpoint could not be used.       *)
Poisons(j, end) == attempt[j].poison \/ (Opens(j) /\ attempt[j].reuse /\ end = "error" /\ attempt[j].ctx)

Ended(was, end) == IF was = "cancelled" THEN was ELSE IF end \in {"ok", "tex"} THEN end ELSE "failed"

AfterRun(j, end, exported) ==
    LET a == attempt[j] IN
    attempt' = [attempt EXCEPT ![j] =
        IF Retries(j, end)
        THEN [a EXCEPT !.pc = IF isolated THEN "launch" ELSE "running", !.try = 2,
                       !.warm = Nobody, !.poison = Poisons(j, end)]
        ELSE [a EXCEPT !.pc = "ran", !.end = Ended(a.end, end), !.exported = exported, !.poison = Poisons(j, end)]]

RunEnds(j) ==
    /\ At(j, "running")
    /\ \E end \in Ends : AfterRun(j, end, end = "ok" /\ UsesSession(j) /\ attempt[j].reuse)
    /\ containers' = containers \ {<<j, attempt[j].try>>}
    /\ UNCHANGED <<storeVars, leaseVars, boundVars, faults>>

(* The checkpoint is gone, or Docker has the name already. *)
LaunchFails(j) ==
    /\ At(j, "launch")
    /\ ~Attainable(j)
    /\ AfterRun(j, "error", FALSE)
    /\ UNCHANGED <<storeVars, leaseVars, containers, boundVars, faults>>

(* The run itself breaks. *)
Breaks(j) ==
    /\ At(j, "running")
    /\ Fault
    /\ AfterRun(j, "error", FALSE)
    /\ UNCHANGED <<storeVars, leaseVars, boundVars>>

(* The worker refuses its input or dies before it has written a result. *)
WorkerBreaks(j) == isolated /\ Breaks(j) /\ containers' = containers \ {<<j, attempt[j].try>>}

(* What it wrote is not a result, or not the result of this attempt. *)
ResultRefused(j) == isolated /\ Breaks(j) /\ containers' = containers \ {<<j, attempt[j].try>>}

(* Docker fails, and its cleanup too: the container outlives the run. *)
RunnerStays(j) == isolated /\ Breaks(j) /\ UNCHANGED containers

(* Natively, the workspace cannot be emptied for the clean retry. *)
ResetFails(j) == ~isolated /\ attempt[j].try = 2 /\ Breaks(j) /\ UNCHANGED containers

(* The worker could not pack the state of a successful run. *)
ExportFails(j) ==
    /\ At(j, "running")
    /\ UsesSession(j)
    /\ Fault
    /\ AfterRun(j, "ok", FALSE)
    /\ containers' = containers \ {<<j, attempt[j].try>>}
    /\ UNCHANGED <<storeVars, leaseVars, boundVars>>

-----------------------------------------------------------------------------
Archive(j) ==
    /\ At(j, "ran")
    /\ WriteResult(j)
    /\ Goto(j, "archived")
    /\ UNCHANGED <<leaseVars, containers, boundVars, faults>>

(* No room for the archive: the job fails and publishes nothing. *)
ArchiveRefused(j) ==
    /\ At(j, "ran")
    /\ ResultBytes > Available
    /\ ToSettle(j, attempt[j].poison)
    /\ UNCHANGED <<storeVars, leaseVars, containers, boundVars, faults>>

(* finish: the row ends, unless a cancellation has ended it already; only  *)
(* a success goes on to publish, and what it started from matters no more. *)
Finish(j) ==
    /\ At(j, "archived")
    /\ IF attempt[j].end = "ok"
       THEN attempt' = [attempt EXCEPT ![j].pc = "publish", ![j].try = 1, ![j].seen = Nobody, ![j].warm = Nobody]
       ELSE ToSettle(j, attempt[j].poison)
    /\ UNCHANGED <<storeVars, leaseVars, containers, boundVars, faults>>

-----------------------------------------------------------------------------
(* publishExecution. Nothing is published without reuse, after ctx ended,  *)
(* or for a session run that left no checkpoint.                           *)
Publishes(j) == attempt[j].reuse /\ attempt[j].ctx /\ (UsesSession(j) => attempt[j].exported)
Target(j) == IF UsesSession(j) THEN LiveCache(SessionOf(j)) ELSE CompileCache

StageState(j) ==
    /\ At(j, "publish")
    /\ Publishes(j)
    /\ Reserve(j, Target(j))
    /\ Goto(j, "staging")
    /\ UNCHANGED <<leaseVars, containers, boundVars, faults>>

SkipPublish(j) ==
    /\ At(j, "publish")
    /\ ~Publishes(j) \/ Refused
    /\ ToSettle(j, attempt[j].poison)
    /\ UNCHANGED <<storeVars, leaseVars, containers, boundVars, faults>>

(* The checkpoint the run left cannot be read. *)
CheckpointUnreadable(j) ==
    /\ At(j, "publish")
    /\ UsesSession(j) /\ Publishes(j)
    /\ Fault
    /\ ToSettle(j, attempt[j].poison)
    /\ UNCHANGED <<storeVars, leaseVars, containers, boundVars>>

WriteStaged(j) ==
    /\ At(j, "staging")
    /\ Stage(j)
    /\ Goto(j, "commit")
    /\ UNCHANGED <<leaseVars, containers, boundVars, faults>>

WriteFails(j) ==
    /\ At(j, "staging")
    /\ Fault
    /\ Discard(j) \/ StageLeaves(j)
    /\ ToSettle(j, attempt[j].poison)
    /\ UNCHANGED <<leaseVars, containers, boundVars>>

(* Under admissionMu: the session must still be there, with this job in    *)
(* its running slot.                                                       *)
MayCheckpointUnchecked(j) == TRUE
MayCheckpoint(j) == LeaseOf(j).live /\ LeaseOf(j).running = j /\ attempt[j].ctx

CommitCheckpoint(j) ==
    /\ At(j, "commit")
    /\ UsesSession(j)
    /\ MayCheckpoint(j)
    /\ CommitLocked(j, j)
    /\ lease' = [lease EXCEPT ![SessionOf(j)].of = j, ![SessionOf(j)].aged = FALSE]
    /\ ToSettle(j, FALSE)
    /\ undeleted' = undeleted \ {SessionOf(j)}
    /\ UNCHANGED <<containers, boundVars, faults>>

(* SaveCompileCache, under m.mu: the record read there decides.            *)
NewerIgnored(j) == FALSE
Newer(j) == Present(CompileCache) /\ ~disk[CompileCache].aged /\ disk[CompileCache].by > j

CommitCache(j) ==
    /\ At(j, "commit")
    /\ ~UsesSession(j)
    /\ ~Newer(j)
    /\ CommitLocked(j, j)
    /\ ToSettle(j, attempt[j].poison)
    /\ UNCHANGED <<leaseVars, containers, boundVars, faults>>

(* Nothing to publish after all: the deferred Close removes the sibling.   *)
CommitNothing(j) ==
    /\ At(j, "commit")
    /\ IF UsesSession(j) THEN ~MayCheckpoint(j) ELSE Newer(j)
    /\ Discard(j)
    /\ ToSettle(j, attempt[j].poison)
    /\ UNCHANGED <<leaseVars, containers, boundVars, faults>>

(* The rename fails, and perhaps the removal too. *)
CommitFails(j) ==
    /\ At(j, "commit")
    /\ Fault
    /\ Discard(j) \/ DiscardFails(j)
    /\ ToSettle(j, attempt[j].poison)
    /\ UNCHANGED <<leaseVars, containers, boundVars>>

(* clearSessionCacheLocked forgets the checkpoint first and only logs that *)
(* its file could not be deleted.                                          *)
ClearSessionCache(s) ==
    \/ DeleteLiveCache(s) /\ UNCHANGED <<undeleted, faults>>
    \/ Present(LiveCache(s)) /\ Fault /\ undeleted' = undeleted \cup {s} /\ UNCHANGED storeVars

(* finishSession, the last thing a worker does: the slot is freed and an   *)
(* unusable checkpoint is dropped.                                         *)
Holds(j) == InSession(j) /\ LeaseOf(j).live /\ LeaseOf(j).running = j

Settle(j) ==
    LET s == SessionOf(j)
        freed == [LeaseOf(j) EXCEPT !.running = Nobody] IN
    /\ At(j, "settle")
    /\ attempt' = [attempt EXCEPT ![j] = Request(@, "done")]
    /\ \/ ~Holds(j) /\ UNCHANGED <<storeVars, leaseVars, faults>>
       \/ /\ Holds(j) /\ ~attempt[j].poison
          /\ lease' = [lease EXCEPT ![s] = freed]
          /\ UNCHANGED <<storeVars, undeleted, faults>>
       \/ /\ Holds(j) /\ attempt[j].poison
          /\ lease' = [lease EXCEPT ![s] = NoCheckpoint(freed)]
          /\ ClearSessionCache(s)
    /\ UNCHANGED <<containers, boundVars>>

-----------------------------------------------------------------------------
(* Cancel of a running job: the row ends and compileCtx with it. The row   *)
(* of a job that has finished is left as it is.                            *)
RowRunning(j) == attempt[j].pc \in {"started", "launch", "running", "ran", "archived"}
CancelledIn(js) ==
    [j \in Jobs |-> IF j \notin js THEN attempt[j]
                    ELSE [attempt[j] EXCEPT !.ctx = FALSE,
                                            !.end = IF RowRunning(j) THEN "cancelled" ELSE @]]

Cancel(j) ==
    /\ up /\ RowRunning(j) /\ attempt[j].ctx
    /\ attempt' = CancelledIn({j})
    /\ UNCHANGED <<storeVars, leaseVars, containers, boundVars, faults>>

(* The compile deadline covers publication too. *)
Deadline(j) ==
    /\ up /\ j \in Active /\ attempt[j].pc # "settle" /\ attempt[j].ctx
    /\ attempt' = [attempt EXCEPT ![j].ctx = FALSE]
    /\ UNCHANGED <<storeVars, leaseVars, containers, boundVars, faults>>

CloseSession(s) ==
    /\ up /\ lease[s].live
    /\ attempt' = CancelledIn({lease[s].running} \cap Active)
    /\ lease' = [lease EXCEPT ![s] = [NoCheckpoint(@) EXCEPT !.live = FALSE, !.running = Nobody]]
    /\ ClearSessionCache(s)
    /\ UNCHANGED <<containers, boundVars>>

(* expireSessionsLocked drops a checkpoint whose time is over.             *)
ExpireCheckpoint(s) ==
    /\ up /\ lease[s].live /\ lease[s].of # Nobody /\ lease[s].aged
    /\ lease' = [lease EXCEPT ![s] = NoCheckpoint(@)]
    /\ ClearSessionCache(s)
    /\ UNCHANGED <<attempt, containers, boundVars>>

AgeCheckpoint(s) ==
    /\ up /\ lease[s].of # Nobody /\ ~lease[s].aged
    /\ lease' = [lease EXCEPT ![s].aged = TRUE]
    /\ UNCHANGED <<storeVars, attempt, undeleted, containers, boundVars, faults>>

-----------------------------------------------------------------------------
(* PutBlob: the same reservation, between two looks for the blob. *)
PutBlob(u) ==
    /\ up
    /\ \/ ~Present(Blob(u)) /\ Reserve(u, Blob(u))
       \/ Stage(u)
       \/ CommitLocked(u, Nobody)
    /\ UNCHANGED <<attempt, leaseVars, containers, boundVars, faults>>

PutBlobFails(u) ==
    /\ up
    /\ Fault
    /\ Discard(u) \/ StageLeaves(u) \/ DiscardFails(u)
    /\ UNCHANGED <<attempt, leaseVars, containers, boundVars>>

Download(j) ==
    /\ At(j, "done")
    /\ PruneResultAuxiliary(j)
    /\ UNCHANGED <<attempt, leaseVars, containers, boundVars, faults>>

Sweep ==
    /\ up
    /\ \E fs \in SUBSET Expirable : \E js \in SUBSET Jobs : Prune(fs, js)
    /\ UNCHANGED <<attempt, leaseVars, containers, boundVars, faults>>

SweepFails ==
    /\ up
    /\ Fault
    /\ PruneFails
    /\ UNCHANGED <<attempt, leaseVars, containers, boundVars>>

(* cleanupProject: no live session, and for the cache no active job.       *)
Idle == up /\ \A s \in Sessions : ~lease[s].live
CleanupCache ==
    /\ Idle
    /\ \A j \in Jobs : attempt[j].pc \in {"new", "done"}
    /\ Present(CompileCache)
    /\ DeleteCompileCaches
    /\ UNCHANGED <<attempt, leaseVars, containers, boundVars, faults>>

CleanupResult(j) ==
    /\ Idle
    /\ attempt[j].pc = "done" /\ Present(Result(j))
    /\ DeleteResult(j)
    /\ UNCHANGED <<attempt, leaseVars, containers, boundVars, faults>>

CleanupBlobs ==
    /\ Idle
    /\ \A j \in Jobs : attempt[j].pc \in {"new", "done"}
    /\ \E f \in Blobs : Present(f)
    /\ CollectUnreferencedBlobs
    /\ UNCHANGED <<attempt, leaseVars, containers, boundVars, faults>>

AgeCache ==
    /\ up
    /\ Age(CompileCache)
    /\ UNCHANGED <<attempt, leaseVars, containers, boundVars, faults>>

-----------------------------------------------------------------------------
(* The process dies: files and containers stay. *)
Crash ==
    /\ up /\ crashes < MaxCrashes
    /\ up' = FALSE
    /\ crashes' = crashes + 1
    /\ UNCHANGED <<storeVars, attempt, leaseVars, containers, isolated, faults>>

(* main: sandbox.Validate removes the containers of the last process, New  *)
(* cleans and measures the volume, and unfinished rows without a session   *)
(* go back to the queue.                                                   *)
OrphansLeft == containers
Orphans == {}
Recovered(j) ==
    CASE attempt[j].pc = "new" -> attempt[j]
      [] attempt[j].pc = "queued" \/ (RowRunning(j) /\ attempt[j].end # "cancelled") ->
            IF InSession(j) THEN Request(attempt[j], "done")
            ELSE Request(attempt[j], "queued")
      [] OTHER -> Request(attempt[j], "done")

Restart ==
    /\ ~up
    /\ NewStore
    /\ containers' = Orphans
    /\ attempt' = [j \in Jobs |-> Recovered(j)]
    /\ lease' = [s \in Sessions |-> [OpenLease EXCEPT !.live = FALSE]]
    /\ undeleted' = {}
    /\ up' = TRUE
    /\ UNCHANGED <<isolated, crashes, faults>>

Next ==
    \/ \E j \in Jobs :
        \/ Submit(j) \/ Start(j) \/ Drop(j) \/ WorkspaceFails(j)
        \/ ChooseCheckpoint(j) \/ RestoreCompileCache(j) \/ RestoreFails(j)
        \/ SourcesFail(j) \/ Launch(j) \/ LaunchFails(j) \/ RunEnds(j) \/ ExportFails(j)
        \/ WorkerBreaks(j) \/ ResultRefused(j) \/ RunnerStays(j) \/ ResetFails(j)
        \/ Archive(j) \/ ArchiveRefused(j) \/ Finish(j)
        \/ StageState(j) \/ SkipPublish(j) \/ CheckpointUnreadable(j) \/ WriteStaged(j) \/ WriteFails(j)
        \/ CommitCheckpoint(j) \/ CommitCache(j) \/ CommitNothing(j) \/ CommitFails(j)
        \/ Settle(j) \/ Cancel(j) \/ Deadline(j) \/ Download(j) \/ CleanupResult(j)
    \/ \E s \in Sessions : CloseSession(s) \/ ExpireCheckpoint(s) \/ AgeCheckpoint(s)
    \/ \E u \in Uploads : PutBlob(u) \/ PutBlobFails(u)
    \/ Sweep \/ SweepFails \/ CleanupCache \/ CleanupBlobs \/ AgeCache
    \/ Crash \/ Restart

Spec == Init /\ [][Next]_vars
-----------------------------------------------------------------------------
(* Jobs of a project end in any order: a portable cache that can still be  *)
(* read is never replaced by that of a job submitted earlier, although the *)
(* replacement was encoded and staged before anyone looked.                *)
CacheNeverOlder ==
    [][LET old == disk[CompileCache] new == disk'[CompileCache] IN
       old.size > 0 /\ ~old.aged /\ new.size > 0 => new.by >= old.by]_vars

(* A checkpoint and what its session says of it stay together: the file a  *)
(* live session names is the one whose inputs it records, and there is no  *)
(* checkpoint of a session that has closed (unless deleting it failed),    *)
(* although a job stages it with no lock held while its session may close. *)
CheckpointOwned ==
    up => \A s \in Sessions :
        /\ lease[s].of # Nobody => disk[LiveCache(s)].by = lease[s].of
        /\ Present(LiveCache(s)) /\ s \notin undeleted => lease[s].live /\ lease[s].of # Nobody

(* A warm run starts from the state whose inputs were compared with the    *)
(* job's, however much happens between the comparison and the opening.     *)
WarmCompatible ==
    \A j \in Jobs : attempt[j].warm # Nobody =>
        attempt[j].warm = attempt[j].seen /\ CompatibleCacheInputs(attempt[j].warm, j)

(* Warm state never makes a job fail while it has time left: the compiler  *)
(* error it ends with is that of a run that started from clean sources.    *)
(* (Once compileCtx has ended, execute reports the warm run's error.)      *)
WarmHarmless ==
    \A j \in Jobs : attempt[j].end = "tex" /\ attempt[j].ctx => attempt[j].warm = Nobody

(* A container is started under a name no container has, across crashes    *)
(* and clean retries of the same job.                                      *)
NameFree == \A j \in Jobs : At(j, "launch") => <<j, attempt[j].try>> \notin containers
=============================================================================
