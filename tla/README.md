# A TLA+ model of latexmk

`latexmk` compiles LaTeX documents remotely. A Go server accepts uploads of source files by
content digest, queues compile jobs, runs them in worker goroutines, publishes results, and offers
realtime sessions in which a newer revision supersedes an older one. A Go client watches a project,
uploads what is missing, fetches results and exports PDFs into the project. This directory holds the
TLA+ specifications of the stateful parts of both, the TLC configurations that check them, and TLAPS proofs.

Paths below are relative to `packages/server/internal/` unless they say otherwise.

## 1. Inventory

| Component | State it keeps | Operations | Hard behaviour | What makes it correct |
|---|---|---|---|---|
| Compile queue (`jobs/manager.go`) | job rows (map or table), bounded channel, `active`, `completions`, `publications` | Enqueue, Cancel, worker run and finish, deferred completions and their retry, cleanup, retention, Start | workers, recovery goroutine and handlers interleave; the database fails or loses answers; restarts; a full channel | a job runs once at a time; terminal rows are final; readers see final results; pins match jobs; every job ends |
| Realtime sessions (`jobs/sessions.go`) | lease, pending and running job, last success, scheduled flag, source pin, event ring, receipts | Create, Renew, SubmitRevision, take, finish, Close, expire, maintain | supersede races start; lease expiry races submit; late recovery of an old revision | one token and one attempt per session; the slot is vacated; the last success is durable and never moves back |
| Attempt execution (`jobs/execution.go`) | warm state, checkpoint of a session, workspace | execute, cold retry, publishExecution, clearSessionCacheLocked | the session closes, the job is cancelled or the process dies between any two steps | warm state is compatible and harmless; a checkpoint belongs to the session that names it |
| Source store (`project/store.go`, `uploads.go`) | upload sessions, blobs, current snapshots, pins | Plan, PutBlob, Commit, PrepareUpload, ConsumeUpload, Prune, CollectUnreferencedBlobs | two collectors against every handler, three locks, expiry, restart | nothing referenced is deleted |
| State quota (`project/publication.go`, `result_retention.go`) | `stateBytes`, `pendingBytes`, staged files | stage, commit, close, delete, strip, re-measure | sweeps measure while writers stage; every file operation may fail | disk use stays within `MaxStateBytes` |
| Compile cache, checkpoints (`project/compile_cache.go`, `live_cache.go`) | one auxiliary generation per key, one checkpoint per session | restore, save, expire, delete | jobs end out of order | an older job never replaces a newer cache |
| Metadata store (`store/postgres.go`) | tables | conditional updates, counts, visits | used as atomic calls that may fail | conditional transitions |
| HTTP API (`httpapi`) | subscribers of a session | routes onto the managers, SSE stream | Commit and Enqueue are two calls; event replay to slow or broken streams | a committed job keeps its sources; no finished revision goes unheard |
| Server process (`packages/server/cmd/server`) | start order | sweep, recover, serve | crash at any step | recovered jobs keep their sources |
| Runner, sandbox, process control (`compile`, `sandbox`, `platform/process`) | containers, processes | run, kill, collect, remove orphans | time limits, crash, failing Docker calls | container names are free; a run ends in one of a few ways |
| Realtime client (`packages/cli/cmd/latexmk/live.go`, `packages/cli/internal/client`) | session, revision, idempotency keys, result generations | create, submit, renew, watch events, publish | lost responses, expiry, crash between files | one job per edit, current result is whole |
| Watch loop (`packages/cli/internal/watch`, `runWatch`, `observeLive`) | last seen states, pending changes, settle timer | refresh, hint, reconcile, settle | endless edits, lost notifications, edits during a compile | a change is reported within the maximum wait; the last edit is compiled |
| One-shot client (`packages/cli/internal/client`, `archive`, `dependency`) | selection, frozen files, input cache, recovery rounds | select, freeze, upload, wait, recover | files change under it, requests fail | what was captured is what is compiled |
| Export history (`packages/cli/internal/exporthistory`) | manifests per group | publish, prune | crash, concurrent builds, an editor on the same files | no edit and no newest export is removed; exports are not sources |
| Dependency scanner (`packages/cli/internal/dependency`) | worklist | scan | cycles, limits | closure of references |
| Shared file helpers (`packages/shared/safefs`) | staged files, locks, quarantined files | stage, replace, lock, verified removal | crash, concurrent writers | all or nothing |
| Configuration, authentication, archives, naming, packing, dashboard, deployment generator | none that changes concurrently | | | not modelled |

`PROJECT.json` lists the same components with their status, and the hazards of the code at their lines.

## 2. Modules

    JobLifecycle            what a client may observe of a job
      ^ refined by
    JobManager              queue, workers, recovery, gates, pins, sessions, restarts
      ^ JobManagerProofs    types, tokens, rows, gates, the refinement
          ^ JobSessionProofs  sessions and pins
    BlobStore               uploads, blobs, snapshots, pins, the two collectors, restarts
      ^ BlobProofs
    RealtimeClient          the realtime client against the session endpoints over a bad network
      ^ RealtimeProofs
    SessionEvents           event ring, SSE handlers and the client's event reader
      ^ EventsProofs
    StateStore              the state volume: files, staging, quota, retention
      ^ AttemptExecution    one attempt of a job from its start to finishSession, on that volume
          ^ AttemptProofs
    ChangeTracker           the file tracker: refresh, hints, debounce, maximum wait
      ^ WatchLoop           runWatch with the one-shot client, and observeLive
          ^ WatchProofs
    ExportHistory           builds that export a PDF, retention, the user
      ^ ExportProofs
    MC*                     instances for TLC

JobManager, BlobStore, AttemptExecution, RealtimeClient and SessionEvents overlap on purpose: each takes
one concern in full and replaces the others by the weakest thing it needs. JobManager has the rows and
slots and lets a compile be a step; AttemptExecution opens that step up and keeps of the queue only the
place of each job; SessionEvents publishes in any order, a superset of what JobManager's transitions do.

### JobManager

The state is the manager's own: `jobs` (rows, in the map or in the table), `queue` (the channel),
`active`, `completions`, `publications`, `pins`, `sessions`, and a program counter with the locals
that survive a step for each worker (`worker`) and for the recovery goroutine (`recovery`).
`recovering` holds the identifiers that Start's feeder goroutine still has to send, `unsent` the
jobs of an Enqueue that met a full channel and has unlocked but not yet cancelled its row. `leaving` is
the job a worker has requeued and will yet delete from `active`, and the history variable `unmarked`
collects the jobs that lost their `active` entry that way while another worker was at them.

Atomicity follows the locks. A handler that holds `admissionMu` throughout (SubmitRevision, Cancel,
CloseSession, cleanup, the admission part of Enqueue) is one action: the only writers that do not
take the lock move a job out of "running", and the handlers meet those with conditional transitions.
A worker's `run` is cut wherever it holds no lock: receive, take a session, load, start, compile and
finish, publish, leave `active`, settle the session, open the gate, requeue, and after the requeue of a
start that failed the deferred `delete(m.active, id)` ("forget", `jobs/manager.go:748`). `retryCompletions` is cut
between the durable transition, `finishSession` and `endPublication`.

A database call ends "ok", "fail" (no effect) or "lost" (effect, but an error is reported); "boot"
allows the same inside Start. `FaultKinds` and `MaxFaults` say which and how often. A call that fails
before its handler has changed anything is a stuttering step and has no action of its own.

Worth knowing when reading it against the code:

- `Durable = FALSE` is the mode without a database: rows are lost by a restart, calls never fail.
- A successful compile publishes behind its gate (`PublishJob`), and `accounted` stands for the
  cache accounting that `updatePublishedCache` adds to the row afterwards.
- `LongRetention` says that `ResultRetention` exceeds every wait in the queue. When it does not, a
  superseded revision may be deleted while a session still names it.
- Start's rows that cannot be decoded or pinned (data of older versions) are not modelled; a graceful
  shutdown is CloseSession steps followed by a restart.

### BlobStore

A step is one section under the store's mutex `m.mu`. `snapshotMu` is held by a collector from its second section to its end,
and by Commit while it saves. `uploads` keeps the record of an upload after it left the map, because
snapshots, pins and rows are named by the upload they came from; `status` says whether it is still in the map ("open") and how it left.
`commit` is the position of a commit request, which spans `Commit` and `Enqueue`; `admission` says
who holds the queue's `admissionMu`. A clock in ticks gives upload expiry, blob modification times
and snapshot ages, and a collector uses the time at which it began. Pins are a set of holders here;
that they are counted exactly is `PinExact` of JobManager. Result files and sizes are StateStore's. One owner is modelled: blobs, uploads and snapshots of
different owners have different names.

### RealtimeClient

The client's state is that of `runLive` and `runLiveSession` in `packages/cli/cmd/latexmk/live.go`: the
position in the main loop, the creation key, and the locals that survive a turn of the loop (the
prepared revision, the files last submitted, `dirty`, the trigger, the recovery rounds, what is
displayed and diagnosed). Its steps are the calls it makes: create and close a session, freeze, prepare,
commit, report, publish, diagnose, recover. The server's side is what the session endpoints keep for
it: creation keys, the revision counter, receipts, the pending, running, latest and last successful job.
The queue behind them is JobManager's and is reduced to "a pending job starts, a running job ends".

A call that ends in a transient error is a mishap. When the call changes the server, its request is
either lost or joins `late`, from where it may arrive at any later time, after the client has retried,
moved on, closed the session or stopped; a call whose answer is lost is a mishap followed by that
arrival. `LoseSession` is a restart of the server or a lease that ran out although the client is alive.

- A capture is the number of the edit it saw and how many rounds of missing files were added to the
  selection; two captures are equal when both agree, which is what `selectedFilesChanged` compares.
- Session events and the lease loop have no state here: an event only hastens a report, and a failed
  renewal only tells the client earlier that its session is gone.
- The main loop takes one client for the only writer of its session; two clients never share a session,
  because the creation key is random.
- A permanent error (400, 401, 403), an interrupt and a change of settings all end the loop: `Stop`.
- Byte limits of the recovery, the revision rate limit and the limit of revision numbers are left out;
  a refusal by the rate limiter (429) is a mishap whose request does not arrive.
- A job that a user cancels through the job API is not modelled here: its revision stays without a result
  until the next edit.

### StateStore and AttemptExecution

StateStore has the operations on the state volume, one per section under the store's `m.mu`; a file is its
kind with the job, session or upload it belongs to, and has a size, an author and an age. `pub` holds one
publication per writer: none, reserved, staged, or stuck when neither the rename nor the removal succeeded.
AttemptExecution moves each job through `run`: choose warm state, launch, run, archive, finish, stage,
commit, settle. A native job restores the portable cache into its workspace; an isolated session job opens
its session's checkpoint in a container, which is chosen under `admissionMu` and opened later. Sources are
abstracted to `inputs`, what `CompatibleCacheInputs` compares. Every file or Docker call that the code
handles may fail (`Fault`); a crash leaves files and containers behind, and a restart validates the runner
image, removes the orphans, checkpoints and staged siblings, and resumes the queued jobs.

- Cancel and CloseSession end `ctx`; the compile deadline does the same and covers publication too.
- Locals that nothing reads any more are reset when a job turns to publication and to finishSession.
- One session, one blob upload and two jobs with two possible inputs are modelled; owners are not.

### ChangeTracker and WatchLoop

ChangeTracker is the tracker's state and the values its operations return. A file has a version; `states`
is what the tracker last saw, `pending` what it will report, `settle` the ticks until the timer fires and
`age` the ticks since the first change. WatchLoop has both loops around it, chosen by `mode`: `runWatch`
with a compile made of the steps of the one-shot client (select, capture file by file, re-check the
selection, upload, wait, recover missing files), and `observeLive`, whose announcements RealtimeClient takes
up. The user saves and removes files at any step, with or without a notification; the ignore file takes
dependencies out of the selection. `missed` marks the two gaps named below.

### ExportHistory

One action per file operation of a publication: download into the output directory, take the process lock,
stage the manifest, write the destination, commit the manifest, check the latest export, and for each old
entry verify, quarantine, and remove or restore. The user saves and deletes at any moment; a process may
die at any step, which releases its lock and leaves its files. `replaced` and `exporters` are history
variables: what was overwritten by right, and which groups have exported to a path.

### SessionEvents

The ring, the `changed` channel as a counter of the channels closed so far, the handlers with their places in
`sessionEvents`, the wire of each connection and the client's cursor, signal and loop. A connection may
break at any step, and a handler whose client has gone holds its subscriber slot until it notices.

## 3. What the runs show

Every model may stop: a server with nothing to do is idle, and the counters that bound a run (jobs,
faults, restarts, ticks) run out. Deadlock is therefore not checked; that work does not get stuck is
what the liveness runs are for.

| Run | Instance | Shows |
|---|---|---|
| `sessions` | no database, two workers, one session, three jobs, a restart | `PinExact`, `QueuedIsScheduled`, `OneSessionToken`, `LastSuccessDurable` |
| `faults` | two workers, one session; calls fail, lose their answer or fail inside Start | `TypeOK`, `DeferredHasRow`, `SoleToken`, `OneAttempt`, `PendingNotStarted`, `OpenGateFinal`, `LastSuccessMonotone`, refinement `ImplementsLifecycle` |
| `live` | fair goroutines, one worker, one session, two failing calls, a restart | `PinExact`, `TerminalStable`, `JobsFinish`, `StartedJobsFinish`, `GatesOpen`, `SlotVacated` |
| `blobs` | two uploads of one digest, both collectors, a restart, failing calls and stuck files | `AcknowledgedKept`, `RevisionSources`, `CommittedComplete`, `ReferencedKept` |
| `client` | one edit, one mishap, one lost session, one round of missing files, one receipt kept | `OneJobPerKey`, `NoRepeatedRevision`, `NoSelfConflict`, `ClientAgrees` |
| `client_live` | the same without missing files, under fairness | `Settles` |
| `attempts` | two jobs, a session, an upload; native and isolated; one crash, one failing call; room for one result and one staged file | `QuotaHeld`, `CheckpointOwned`, `WarmCompatible`, `WarmHarmless`, `NameFree`, `CacheNeverOlder` |
| `exports` | two processes, two groups, two destinations, four builds, one save, one deletion, one crash or failure | `EditsKept`, `LatestKept`, `ExportsKnown` |
| `watch` | an entry, a dependency, an ignore file; two edits, one failure; both loops | `ReportedInTime`, `EditsCompiled` |
| `events` | a ring of two events, one subscriber slot, two connections, four events, two breaks | `NoSilentSkip`, `FinishHeard` |

Bounds. Two workers suffice for the races between workers. With `MaxQueuedJobs` 1 the channel holds
two entries, so three jobs fill it. Two faults give a failure inside the handling of a failure, and one restart
is enough because a restart resets everything but the rows. A lease of one tick makes expiry and
renewal race. The faults run has two jobs: a deferred old revision and a newer one that starts before
the recovery. In BlobStore two uploads make one upload's references protect or fail another's, one
tick makes everything expire that can, and retentions of zero ticks mean "shorter than the next tick".
In RealtimeClient one receipt makes a late copy arrive after its receipt was dropped; one mishap and one
lost session already put a late request before, between and after every later step; sessions, creation
keys and revision keys are enough for every reconnection those faults can cause, so that no bound stands
in the way of `Settles`.
In `attempts` two jobs give every order of two publications, two inputs make state compatible or not, and
the quota of three units is met by one result and one staged file, so that refusals, stripping and
measurements all happen. In `exports` keeping one export makes every publication prune; two builds per
process let one of them remove what the other has just written. In `watch` a maximum wait of two ticks and
a debounce of one make the bound bite, and one round of recovery is the retry and its exhaustion. In
`events` four events overflow the ring twice and a lingering handler can hold the only slot.
Workers, snapshots, uploads, digests, inputs and processes are interchangeable and declared symmetric in the safety runs;
the liveness runs use no symmetry.

`live` has one worker, so that its two failing calls and its restart fit. Two neighbouring instances were
checked once and are not kept as runs: calls that also lose their answer (all of `live` but `PinExact`, which
needs `CleanFailures`; 320,132 states), and two workers with one failing call and no restart (310,827 states).

Each module has a type invariant; the ones other than `TypeOK` are not part of a run, as they add nothing
to the properties above, and can be checked with `INVARIANT BlobTypeOK` and so on.

`QueuedIsScheduled` and `LastSuccessDurable` are checked without database failures, and
`JobsFinish` and `SlotVacated` speak of the time before the first one (`DatabaseUp`), because a failure
breaks each of them, as described next. `ReferencedKept` and `RevisionSources` are stated for a database
that may fail but does not lose answers: when the insert of a job row takes effect and reports an error,
the queue returns the pin, and a collector that has already visited the rows misses the new one.

### Disagreements between code and documentation

Each is a run that is expected to end in a counterexample, and an entry of `findings`.

| Run | What the counterexample does |
|---|---|
| `outage` | workers requeue into a full channel whose only readers they are |
| `commit_gap` | a cleanup between Commit and the pin of Enqueue removes the sources of the new job |

### Limits of what holds

The models also show where a guarantee ends; these have no run of their own.

- `run` defers `delete(m.active, id)` before it tries to start the job (`jobs/manager.go:748`), and when
  that fails the deletion comes after the requeue. With two workers the other one may hold the token by
  then and loses its entry. Cleanup then takes that attempt for finished and may delete its row; when the
  attempt's completion is deferred, recovery finds no row and retries it for ever, and the gate of that job
  stays closed. One failed call is enough. `DeferredHasRow` and `GatesOpen` except exactly the jobs in
  `unmarked`; without the exception TLC finds `DeferredHasRow` violated on the instance of `faults`.
- A start transition that takes effect and reports an error leaves a running row without an attempt: the
  token is requeued, the next worker finds the row running and drops it, and only a restart puts the row
  back. `StartedJobsFinish` speaks of the jobs that have an attempt or a deferred completion.
- An export is recorded by two renames, the output and then its manifest
  (`packages/cli/internal/exporthistory/history.go:170-173`). In between only the publishing process knows
  the path, by its reservation in memory. Another process that selects its sources there, or that read the history
  earlier and walks the directory there, takes the new PDF for a source, although `docs/NAMING.md:111`
  says that such paths are excluded from later selection. `ExportsKnown` is stated for every
  invocation and excepts the destination between the renames (`Unrecorded`).
- A warm run is repeated without its warm state after a compiler error only while the compile context is
  alive (`jobs/execution.go:48-49`, `296`). Once it has ended the error of the warm run is reported as it is;
  `WarmHarmless` speaks of the time before.

- A session job that was cancelled before it started is settled by `finishSession`, which reads the row.
  When that read fails (`jobs/sessions.go:338`) no completion is deferred, so nobody clears
  `RunningJobID` until the session closes.
- When the channel is full, Enqueue cancels the row it has just saved and ignores the result
  (`jobs/manager.go:282`). When that call fails the queued row stays, and counts against
  `MaxQueuedJobs`, until a restart: `QueuedIsScheduled` fails with one "fail" fault.
- Prune drops an expired upload without looking at its `committing` flag (`project/store.go:490`). A
  Commit that had passed its checks then saves a snapshot whose blobs may be gone; `CommittedComplete`
  therefore speaks of uploads that were still in the map.
- A worker whose terminal transition fails defers it and carries its own verdict on. When a Cancel changed
  the row meanwhile and recovery has settled the deferred completion before the worker's own
  `finishSession`, `finish` (`jobs/manager.go:871`) has returned "succeeded" for a job whose row says
  "cancelled", and the session records it as its last success; the comment at `jobs/manager.go:819`
  calls that status "the confirmed durable terminal state". `LastSuccessDurable` fails with one "fail" fault.
- A publication whose rename and removal both fail (`project/publication.go:103`) keeps its reservation
  until a restart: nobody calls Close again. When it is `Stage` that cannot remove what it wrote, there is
  no pending file to remember, Close returns the reservation, and `directorySize` skips staged names, so
  the sibling is counted by nobody until a restart deletes it. The comment there, "an undeleted sibling
  must never silently free space in the hard quota", does not hold for that case; `litter` counts it.
- When two groups export to one path (`docs/NAMING.md:115` speaks of such groups), the record of the
  second may be pruned while the first still names older bytes; `ExportsKnown` speaks of paths that one
  group has exported to. A crash between the rename of the output and that of the manifest leaves an
  export that file selection does not know, as `docs/NAMING.md:113` says; `interrupted` excuses it.
- `runWatch` ends when a refresh of the selection fails while it waits
  (`packages/cli/cmd/latexmk/main.go:477`), although `docs/DEPENDENCIES.md:175` says that selection
  failures are reported and the process continues. `observeLive` keeps its targets.
- `runWatch` may miss an edit in two gaps, which `EditsCompiled` excuses by `missed`: a file that changes
  between the manifest after a compile and the baseline of the new tracker, and a file that changed while
  it was captured and was back before that manifest was taken.
- A dependency that only the missing-file recovery has found is watched once a success has saved it in the
  input cache; until then an edit of it alone is not noticed.
- Without a database, `load` reports a removed job by an ordinary error, and `run` requeues its token
  for ever (`jobs/manager.go:1163`).

## 4. Fairness

`FairSpec` of JobManager assumes weak fairness of each worker (a compile ends by `CompileTimeout`),
of the recovery goroutine and the session maintenance (one-second tickers), of the feeder goroutine
of Start, and of the tail of an Enqueue that has unlocked. Nothing is assumed of clients, of leases,
of retention or of crashes, and a lease that runs out need not be swept: a worker rejects the job of an
expired session by itself. Faults and restarts are bounded, so an outage ends; without that a job
could be retried for ever, in the model as in the code.

`FairSpec` of RealtimeClient assumes that the calls of the client end and that the server's workers and
its lease sweep run (weak fairness), and strong fairness of three cases of the main loop's `select`: the
verify ticker, the poll ticker and the discovery that the session is gone. Go chooses at random among
the ready cases, so a case that is ready again and again is taken. Nothing is assumed of the file
watcher, the event stream or late requests: the last edit is compiled even when all of them fail.

`FairSpec` of WatchLoop assumes that the process runs, that its refresh ticker ticks and that its timers
fire (weak fairness); notifications may all be lost. `FairSpec` of SessionEvents assumes weak fairness of
the handlers' own steps, of the client's reading and reconnecting and of its loop, and strong fairness of a
handler noticing that its request context has ended, because `select` does not always prefer the
heartbeat. Heartbeats are not assumed. Breaks are finite, so a client gets a stream in the end.

## 5. Proofs

Every invariant and every action property that a passing run checks, and the refinement of JobLifecycle, is
also a theorem: TLC shows it on the instance of the run, TLAPS for every value of the constants that the
module's named assumption allows (any number of workers, sessions, jobs, uploads, files, failures and
restarts). The theorems are about `Spec`, without fairness, and each rests on an inductive invariant. The
proof that a step keeps it has one lemma or step per action; actions that leave what it speaks of alone are
dealt with together.

### JobManagerProofs: rows, tokens, gates

- `TypeCorrect`. `TypeOK` alone is not inductive: a worker past "take" must hold a job identifier
  (`WorkerHolds`) and the recovery goroutine a job (`RecoveryHolds`), or the row they update would lie
  outside the function. The induction is on `TypeInv`, their conjunction. The reference counts stay
  natural numbers because `Release` never goes below zero.
- `SoleTokenHolds`, with `TokenInv`: `SoleToken`, and that the pending job of a session
  (`PendingUnplaced`) and a job that does not exist yet (`UnbornUnplaced`) are in none of the places.
  Without these two, taking a session or submitting a job could create a second token.
- `TerminalStableHolds`. Every change of rows is a composition of moves that leave terminal rows alone
  (`QuietMoves`), except deletion and the steps of `Loud`.
- `PendingNotStartedHolds`, assuming `LongRetention`, with `Waiting`: the pending job of a session is
  queued or cancelled, belongs to that session, and is nobody's token. The assumption is needed: a
  retention sweep that deletes a cancelled pending row falsifies it.
- `DeferredAlwaysHasRow`, `OpenGateFinalHolds` and the refinement `LifecycleImplemented`, with `GateInv`: the
  gate is closed of a queued job on its way to a worker (`WaitingGated`), of an attempt, whose job nobody
  else completes (`AttemptGated`), and of a deferred completion (`DeferredGated`), and the rows of both stay
as long as the job is not `unmarked` (`RowKept`), because an attempt is in `active` until then; what
  recovery works on has started (`RecoveryPast`), and a row that does not exist has no accounting
  (`Unaccounted`). The refinement maps the initial states, then every step to a step of JobLifecycle or a
  stutter, a restart to its crash; JobLifecycle has no fairness of its own.

### JobSessionProofs: sessions and pins

- `OneAttemptHolds`, `LastSuccessMonotoneHolds`, with `Settled` (a worker or the recovery
  goroutine that goes on to settle a session without a deferred completion has an ended row) and `Slots`: of
  the rows of a live session only the one its running slot names may be running, and the revisions of last
  success, running and pending job are in this order.
- `OneSessionTokenHolds`, with `SessionTokenInv`: a flag that is up means one entry of the channel or one
  worker that carries the session, never both.
- `QueuedIsScheduledWhileUp`, `LastSuccessDurableWhileUp`, of `DatabaseUp => ...`, with `UpInv`: before the
  first failing call nothing is deferred (`NoneDeferred`), a worker past its start has a row that left the
  queue (`PastBegun`), one that reports a success has won the transition (`ClaimsWon`), and a worker that
  requeues a start does so for a row that is gone, so that its late deletion takes nobody's entry (`MarkInv`).
  Section 3 says why each fails afterwards; in the `sessions` run no call fails.
- `PinExactHolds`, assuming `CleanFailures` (a failed call has no effect, and Start reads every row), with
  `RunningOwned` (a running row has a worker that compiles it or a deferred completion, which will return
  its pin) and that the live sessions are finitely many. The assumption is needed: a row whose insert
  reports an error is there without its pin. The proof counts owners of a snapshot as the jobs and sessions that hold it and
  shows that every action changes the count and the reference count by the same amount.

### The other modules

- `BlobProofs`. `AcknowledgedAlwaysKept` and `CommittedAlwaysComplete` hold whatever the database does,
  with `StoredInv`: what refers to an upload fixes its files (`Planned`), what Commit has looked at stays while its
  upload does (`Checked`), and a collector that holds `snapshotMu`
  has seen every snapshot (`SnapshotsSeen`) and uses a time that has passed (`SweepTimes`).
  `RevisionSourcesAlways` and `ReferencedAlwaysKept` assume `NoneLost`, as section 3 explains, with
  `ReferredInv`: a collector that has visited the rows knows those without a pin (`UnpinnedSeen`), an upload is
  committed once (`CommittedOnce`), a revision is pinned from its preparation on (`Prepared`), and nothing
  is pinned before the queue has recovered (`StartsEmpty`).
- `RealtimeProofs`. `OneJobPerKeyHolds`, `NoRepeatedRevisionHolds`, `NoSelfConflictHolds` and
  `ClientAgreesHolds`, with `RequestInv` and `ClientInv`. The point of the first is that receipts are
  dropped: a late copy of a revision whose key already has a job either still finds its receipt or carries
  a base revision that is no longer current, so it conflicts. The open revision of the client is either the latest one of its
  session, with its receipt, or still has the current base.
- `EventsProofs`. `NoSilentSkipHolds`, with `EventsInv`: what is on the wire of a connection continues the
  client's cursor and is a chain (`Chained`) of events that were published or a resync (`Genuine`), and a
  handler stands at or behind the head of the ring.
- `AttemptProofs`. `QuotaHeldAlways` represents the bytes of a set of files by a set of blocks, so that
  sums become cardinalities. The other five use `AttemptInv`: what each worker's locals hold at each place
  (`Locals`), that a container or restored cache was compared with the job's inputs (`Compared`), that an
  active job of a live session holds its slot (`SlotHeld`), that writers publish where they belong
  (`InPlace`), that a checkpoint is its session's and is not replaced between comparing and opening it
  (`Owned`, `Unmoved`), that a portable cache comes from a job (`CacheOfJob`), and that containers exist only
  under names whose run has begun (`Named`).
- `WatchProofs`. `ReportedInTimeHolds`, with `Timely`: with changes pending the timer runs, and it never
  reaches past the maximum wait.
- `ExportProofs`. `EditsKeptHolds`, `LatestKeptHolds`, `ExportsKnownHolds`, with `ExportInv`: the lock lets
  one process publish at a time (`Locked`), what is in the manifest of a group was exported by it
  (`ByItsGroup`), a publication between its two renames finds its bytes unless the user took them away
  (`Written`), every export at a path of one group is traced to a manifest, which every process reads, to the
  publication between its renames, or to an interruption (`AllTraced`), and retention works only on what leaves the manifest and nobody protects
  (`Retention`). That the loop of Publish which
  takes an old entry of the same path out (`Without`) is a filter is proved for every sequence, by the
  least length at which it would not be.

The type invariants that no run lists are theorems too (`BlobTypeCorrect`, `ClientTypeCorrect`,
`EventsTypeCorrect`, `WatchTypeCorrect`, `AttemptTypeCorrect`), as the other proofs need them.

### Assumptions on the constants

`JobManagerAssumption`, `BlobStoreAssumption`, `RealtimeClientAssumption`, `EventsAssumption`,
`StateStoreAssumption`, `AttemptAssumption`, `TrackerAssumption`, `WatchAssumption` and `ExportAssumption`
say that bounds are natural numbers, that limits the code insists on are positive, that the sets a run
enumerates are finite where a proof counts them, and that the names of different kinds of things differ
(jobs and uploads of StateStore, uploads and the other holders of `admission` in BlobStore). TLC evaluates
each of them on the instances. Beyond these only `LongRetention`, `CleanFailures` and `NoneLost` are
assumed, each by the theorems named above. None can be dropped: without it TLC finds each of these
properties violated on the instances of section 3 with that setting changed (`RevisionSources` once `MaxClock` is 2).

### Only model-checked

The liveness properties: `JobsFinish`, `StartedJobsFinish`, `GatesOpen`, `SlotVacated` (`live`), `Settles`
(`client_live`), `EditsCompiled` (`watch`) and `FinishHeard` (`events`). Fairness and ENABLED are outside
this proof system. The counterexamples of `outage` and `commit_gap` are TLC's by their nature, and so is
`ExportTypeOK` as stated: the proof of ExportHistory has the types it needs (`Types`) without the bound on the
length of a manifest.

## 6. Not modelled, and what is next

Not modelled: authentication and configuration (stateless); the tokenising part of the dependency scanner,
name templates, packing, argument parsing, tar encoding (sequential data handling); path confinement and
symbolic links of `safefs`; the selection by Git; the revision rate limiter; the generations of realtime
results on disk beyond `current.json`; the cleanup preview digest; the legacy multipart endpoint; users,
tokens and migrations of the metadata store; the dashboard and the deployment generator. A compile itself
is a step with a few possible ends.

Next: the invariants that a proof of `JobsFinish` and `SlotVacated` would need, as far as they are safety
(from each state of a job some step towards its end is possible); the bound on manifests in `ExportTypeOK`;
and the hazards of `PROJECT.json` that have no property yet.

## 7. Running it

    tlc -workers 2 -config MCSessions.cfg MCJobManager
    tlapm JobSessionProofs.tla

`PROJECT.json` names the module, the configuration and the expected outcome of each run, and for each
property of a passing run a mutant: a plausible slip in one definition (operators marked "Mutant" in the
modules) that TLC must catch.
