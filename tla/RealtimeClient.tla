---------------------------- MODULE RealtimeClient ----------------------------
(***************************************************************************)
(* One realtime client (packages/cli: runLive and runLiveSession with the  *)
(* goroutines they start) against the session endpoints of the server,     *)
(* over a network that loses requests and answers or delivers a request    *)
(* after its sender has given up.                                          *)
(*                                                                         *)
(* The main loop is sequential: a step is one HTTP call with its answer,   *)
(* or the local work between two calls.  A call that ends in a transient   *)
(* error (timeout, 429, 5xx, a failed capture) is a mishap; if it changes  *)
(* state on the server its request may still arrive later.  The queue,     *)
(* the workers and the leases are those of JobManager, reduced here to     *)
(* what a session shows of them.                                           *)
(***************************************************************************)
EXTENDS Naturals, Sequences, FiniteSets

CONSTANTS
    MaxEdits,            \* bound: edits of the local sources
    MaxRevisions,        \* bound: idempotency keys of prepared revisions
    MaxCreations,        \* bound: creation keys
    MaxSessions,         \* bound: sessions ever created
    MaxMishaps,          \* bound: calls that end in a transient error
    MaxLosses,           \* bound: sessions the server loses under the client
    MaxRealtimeSessions, \* cfg.MaxRealtimeSessions
    MaxSessionReceipts,  \* maxSessionReceipts
    MaxRounds,           \* maxNeedsFileRounds
    Naming               \* opts.naming is set: outputs are named per revision

ASSUME RealtimeClientAssumption ==
    /\ {MaxEdits, MaxRevisions, MaxSessions, MaxMishaps, MaxLosses, MaxRounds} \subseteq Nat
    /\ MaxCreations \in Nat \ {0}
    /\ MaxRealtimeSessions \in Nat \ {0} /\ MaxSessionReceipts \in Nat \ {0}
    /\ Naming \in BOOLEAN

SessionIds == 1 .. MaxSessions
Keys == 1 .. MaxRevisions
None == 0

(* What a capture selects: the sources after an edit, and how many rounds   *)
(* of missing files were added to the selection.                            *)
Files == (0 .. MaxEdits) \X Nat
NoFiles == <<>>

(* The body of POST /v1/sessions/:id/revisions with the upload it names.    *)
Revision == [session: SessionIds, base: Nat, key: Keys, files: Files]
NoRevision == [session |-> None, base |-> 0, key |-> None, files |-> NoFiles]

VARIABLES
    source,    \* number of edits made to the local files
    changed,   \* the file watcher has, or will have, a change to signal
    client,    \* the locals of runLive and runLiveSession
    published, \* current.json
    late,      \* requests whose sender has given up and that may still arrive
    sessions,  \* the server's sessions
    jobs,      \* the server's jobs, in the order of their admission
    mishaps,   \* transient errors so far
    losses     \* sessions lost under the client so far

serverVars == <<sessions, jobs>>
watchVars == <<source, changed>>
vars == <<source, changed, client, published, late, sessions, jobs, mishaps, losses>>

NoSession == [status |-> "none", key |-> None, revision |-> 0, pending |-> None,
              running |-> None, lastOk |-> None, latest |-> None, receipts |-> <<>>]

(* The variables runLiveSession starts with. *)
FreshLocals == [pending |-> NoRevision, frozen |-> NoFiles, last |-> NoFiles,
                dirty |-> TRUE, trigger |-> TRUE, resume |-> FALSE, extra |-> 0, rounds |-> 0,
                displayed |-> 0, shown |-> None, diagnosed |-> None, lastOk |-> None,
                latest |-> None, thenSubmit |-> FALSE]

Outside == [pc |-> "create", creation |-> 1, revisions |-> 0, session |-> None, stop |-> FALSE,
            run |-> FreshLocals]

Init ==
    /\ source = 0
    /\ changed = FALSE
    /\ client = Outside
    /\ published = [session |-> None, revision |-> 0, job |-> None, files |-> NoFiles]
    /\ late = {}
    /\ sessions = [s \in SessionIds |-> NoSession]
    /\ jobs = <<>>
    /\ mishaps = 0
    /\ losses = 0

-----------------------------------------------------------------------------
(* The server's handlers, as values of its next state. *)

Live(s) == s # None /\ sessions[s].status = "live"
LiveSessions == {s \in SessionIds : Live(s)}

(* CreateSession: the live session that this creation key made. *)
CreatedBy(k) == {s \in LiveSessions : sessions[s].key = k}

Unborn == {s \in SessionIds : sessions[s].status = "none"}
CanCreate == Cardinality(LiveSessions) < MaxRealtimeSessions /\ Unborn # {}

(* CreateSession with creation key k answers with session s. *)
HandleCreate(k, s) ==
    \/ /\ s \in CreatedBy(k)
       /\ UNCHANGED serverVars
    \/ /\ CreatedBy(k) = {} /\ CanCreate
       /\ s \in Unborn /\ \A t \in Unborn : s <= t
       /\ sessions' = [sessions EXCEPT ![s] = [NoSession EXCEPT !.status = "live", !.key = k]]
       /\ UNCHANGED jobs

(* Mutant: the receipts of earlier revisions are not consulted. *)
ReceiptNever(r) == {}
(* The job that the receipt of this idempotency key names. *)
Receipt(r) ==
    {sessions[r.session].receipts[i].job :
        i \in {i \in DOMAIN sessions[r.session].receipts :
                  sessions[r.session].receipts[i].key = r.key}}

(* Mutant: the base revision is not compared. *)
BaseMatchesAlways(r) == TRUE
BaseMatches(r) == r.base = sessions[r.session].revision

(* SubmitRevision's verdict on request r. *)
Verdict(r) ==
    CASE ~Live(r.session) -> "gone"
      [] Live(r.session) /\ Receipt(r) # {} -> "replay"
      [] Live(r.session) /\ Receipt(r) = {} /\ ~BaseMatches(r) -> "conflict"
      [] OTHER -> "accept"

(* A receipt is kept for the last maxSessionReceipts revisions. *)
KeepReceipts(q) == IF Len(q) > MaxSessionReceipts THEN Tail(q) ELSE q

(* A pending job that has not started is superseded. *)
Superseded(s) ==
    [j \in DOMAIN jobs |-> IF j = sessions[s].pending /\ jobs[j].status = "queued"
                           THEN [jobs[j] EXCEPT !.status = "cancelled"] ELSE jobs[j]]

HandleRevision(r) ==
    LET s == r.session
        j == Len(jobs) + 1
    IN  IF Verdict(r) # "accept" THEN UNCHANGED serverVars
        ELSE /\ jobs' = Append(Superseded(s), [session |-> s, revision |-> sessions[s].revision + 1,
                                               key |-> r.key, files |-> r.files, status |-> "queued"])
             /\ sessions' = [sessions EXCEPT
                    ![s].revision = @ + 1, ![s].pending = j, ![s].latest = j,
                    ![s].receipts = KeepReceipts(Append(@, [key |-> r.key, job |-> j]))]

(* closeSessionLocked: what the session had queued or running is cancelled, *)
(* and nothing of the session is kept.                                      *)
HandleClose(s) ==
    /\ sessions' = [sessions EXCEPT ![s] = IF Live(s) THEN [NoSession EXCEPT !.status = "gone"] ELSE @]
    /\ jobs' = [j \in DOMAIN jobs |->
                   IF Live(s) /\ jobs[j].session = s /\ jobs[j].status \in {"queued", "running"}
                   THEN [jobs[j] EXCEPT !.status = "cancelled"] ELSE jobs[j]]

-----------------------------------------------------------------------------
(* The server on its own. *)

(* takeSession and the start of the job. *)
TakeSession(s) ==
    /\ Live(s) /\ sessions[s].running = None /\ sessions[s].pending # None
    /\ sessions' = [sessions EXCEPT ![s].running = sessions[s].pending, ![s].pending = None]
    /\ jobs' = [jobs EXCEPT ![sessions[s].pending].status = "running"]
    /\ UNCHANGED <<watchVars, client, published, late, mishaps, losses>>

(* The running job ends; a failure may list missing files, see Recover. *)
FinishSession(s, out) ==
    /\ Live(s) /\ sessions[s].running # None
    /\ jobs' = [jobs EXCEPT ![sessions[s].running].status = out]
    /\ sessions' = [sessions EXCEPT ![s].running = None,
                        ![s].lastOk = IF out = "succeeded" THEN sessions[s].running ELSE @]
    /\ UNCHANGED <<watchVars, client, published, late, mishaps, losses>>

(* A request whose sender gave up arrives after all. *)
LateArrives(r) ==
    /\ r \in late /\ late' = late \ {r}
    /\ \/ r.op = "create" /\ \E s \in SessionIds : HandleCreate(r.key, s)
       \/ r.op = "create" /\ CreatedBy(r.key) = {} /\ ~CanCreate /\ UNCHANGED serverVars
       \/ r.op = "revision" /\ HandleRevision(r.body)
       \/ r.op = "close" /\ HandleClose(r.session)
    /\ UNCHANGED <<watchVars, client, published, mishaps, losses>>

(* A restart, or a lease that ran out while renewals did not get through. *)
LoseSession(s) ==
    /\ Live(s) /\ losses < MaxLosses
    /\ losses' = losses + 1
    /\ HandleClose(s)
    /\ UNCHANGED <<watchVars, client, published, late, mishaps>>

(* The lease of a session that no client renews runs out. *)
ExpireAbandoned(s) ==
    /\ Live(s) /\ client.session # s
    /\ HandleClose(s)
    /\ UNCHANGED <<watchVars, client, published, late, mishaps, losses>>

-----------------------------------------------------------------------------
(* The user and the file watcher. *)

(* observeLive's tracker reports the edit with others of the same burst, at *)
(* a time of its own; the signal does not block when one is waiting, and it *)
(* is taken whenever the main loop comes to it.                             *)
Edit ==
    /\ source < MaxEdits /\ ~client.stop
    /\ source' = source + 1 /\ changed' = TRUE
    /\ UNCHANGED <<client, published, late, serverVars, mishaps, losses>>

-----------------------------------------------------------------------------
(* runLive: create a session, run it, close it. *)

Run == client.run

(* The call ends in a transient error. *)
Mishap == mishaps < MaxMishaps /\ mishaps' = mishaps + 1
(* The request of a failed call is lost, or still on its way. *)
MayArriveLate(r) == late' \in {late, late \cup {r}}

(* Mutant: the displayed revision outlives the session it belongs to. *)
LeaveKeepDisplayed == [client EXCEPT !.pc = "close", !.run = [FreshLocals EXCEPT !.displayed = Run.displayed]]
(* runLiveSession returns, and its variables with it. *)
Leave == [client EXCEPT !.pc = "close", !.run = FreshLocals]

CreateRequest == [op |-> "create", key |-> client.creation]
RevisionRequest == [op |-> "revision", body |-> Run.pending]
CloseRequest == [op |-> "close", session |-> client.session]

(* CreateSession answers; runLiveSession starts. *)
CreateAnswered(s) ==
    /\ client.pc = "create"
    /\ HandleCreate(client.creation, s)
    /\ client' = [client EXCEPT !.pc = "loop", !.session = s]
    /\ UNCHANGED <<watchVars, published, late, mishaps, losses>>

(* A failed creation is retried with the same key. *)
CreateFailed ==
    /\ client.pc = "create" /\ Mishap
    /\ MayArriveLate(CreateRequest)
    /\ UNCHANGED <<watchVars, client, published, serverVars, losses>>

AfterClose ==
    IF client.stop THEN [client EXCEPT !.pc = "done", !.session = None]
    ELSE [client EXCEPT !.pc = "create", !.session = None, !.creation = @ + 1]

(* CloseSession answers, or reports that the session no longer exists. *)
CloseAnswered ==
    /\ client.pc = "close" /\ (client.stop \/ client.creation < MaxCreations)
    /\ HandleClose(client.session)
    /\ client' = AfterClose
    /\ UNCHANGED <<watchVars, published, late, mishaps, losses>>

(* An unsuccessful closure is reported and left to the lease. *)
CloseFailed ==
    /\ client.pc = "close" /\ (client.stop \/ client.creation < MaxCreations)
    /\ Mishap /\ MayArriveLate(CloseRequest)
    /\ client' = AfterClose
    /\ UNCHANGED <<watchVars, published, serverVars, losses>>

(* An interrupt, changed settings or a permanent error end the loop, and    *)
(* the call under way with it.                                              *)
Stop ==
    /\ client.pc # "done" /\ ~client.stop
    /\ client' = IF client.pc = "create" THEN [client EXCEPT !.pc = "done", !.stop = TRUE]
                 ELSE [Leave EXCEPT !.stop = TRUE]
    /\ CASE client.pc = "create" -> MayArriveLate(CreateRequest)
         [] client.pc = "commit" -> MayArriveLate(RevisionRequest)
         [] OTHER -> UNCHANGED late
    /\ UNCHANGED <<watchVars, published, serverVars, mishaps, losses>>

-----------------------------------------------------------------------------
(* runLiveSession: submit. *)

(* submit begins with a revision whose acceptance is still unknown. *)
StartSubmit(c) ==
    [c EXCEPT !.pc = IF c.run.pending = NoRevision THEN "freeze" ELSE "commit",
              !.run.resume = c.run.pending # NoRevision]

(* observation.changed, the trigger or the verify ticker. *)
SubmitOnChange ==
    /\ client.pc = "loop" /\ changed
    /\ changed' = FALSE
    /\ client' = StartSubmit([client EXCEPT !.run.rounds = 0])
    /\ UNCHANGED <<source, published, late, serverVars, mishaps, losses>>

SubmitOnTrigger ==
    /\ client.pc = "loop" /\ Run.trigger
    /\ client' = StartSubmit([client EXCEPT !.run.trigger = FALSE])
    /\ UNCHANGED <<watchVars, published, late, serverVars, mishaps, losses>>

SubmitOnVerify ==
    /\ client.pc = "loop"
    /\ client' = StartSubmit(client)
    /\ UNCHANGED <<watchVars, published, late, serverVars, mishaps, losses>>

Selected == <<source, Run.extra>>

(* FreezeSnapshot, and nothing more if the files are those last submitted. *)
Freeze ==
    /\ client.pc = "freeze"
    /\ client' = IF Run.last = Selected
                 THEN [client EXCEPT !.pc = "loop", !.run.dirty = FALSE]
                 ELSE [client EXCEPT !.pc = "prepare", !.run.dirty = TRUE, !.run.frozen = Selected]
    /\ UNCHANGED <<watchVars, published, late, serverVars, mishaps, losses>>

(* GetSession and PrepareRevision: the upload is complete, the revision has *)
(* its base and its idempotency key.                                        *)
Prepare ==
    LET r == [session |-> client.session, base |-> sessions[client.session].revision,
              key |-> client.revisions + 1, files |-> Run.frozen]
    IN  /\ client.pc = "prepare" /\ Live(client.session)
        /\ client.revisions < MaxRevisions
        /\ client' = [client EXCEPT !.pc = "commit", !.revisions = @ + 1, !.run.pending = r,
                          !.run.frozen = NoFiles]
        /\ UNCHANGED <<watchVars, published, late, serverVars, mishaps, losses>>

(* A capture, a read of the session or an upload fails: dirty stays set and *)
(* the next poll tries again.                                               *)
CaptureFailed ==
    /\ client.pc \in {"freeze", "prepare"} /\ Mishap
    /\ client' = [client EXCEPT !.pc = "loop", !.run.dirty = TRUE, !.run.frozen = NoFiles]
    /\ UNCHANGED <<watchVars, published, late, serverVars, losses>>

(* Mutant: the accepted revision is remembered as what the disk holds now. *)
AcceptedFilesNow == Selected
(* The files of the accepted revision become the last ones submitted. *)
AcceptedFiles == Run.pending.files

(* acceptPending after CommitRevision's answer. *)
Accepted ==
    [client EXCEPT !.pc = IF Run.resume THEN "freeze" ELSE "loop",
                   !.run.last = AcceptedFiles, !.run.pending = NoRevision,
                   !.run.resume = FALSE, !.run.dirty = Run.resume]

CommitAnswered ==
    LET v == Verdict(Run.pending)
    IN  /\ client.pc = "commit"
        /\ HandleRevision(Run.pending)
        /\ client' = CASE v = "gone" -> Leave
                       [] v = "conflict" -> [client EXCEPT !.pc = "loop", !.run.pending = NoRevision,
                                                        !.run.resume = FALSE]
                       [] OTHER -> Accepted
        /\ UNCHANGED <<watchVars, published, late, mishaps, losses>>

(* Mutant: a revision whose answer is missing is forgotten. *)
AfterCommitErrorForget == [client EXCEPT !.pc = "loop", !.run.pending = NoRevision,
                                         !.run.resume = FALSE]
(* The prepared revision survives, to be replayed exactly. *)
AfterCommitError == [client EXCEPT !.pc = "loop", !.run.resume = FALSE]

CommitFailed ==
    /\ client.pc = "commit" /\ Mishap
    /\ MayArriveLate(RevisionRequest)
    /\ client' = AfterCommitError
    /\ UNCHANGED <<watchVars, published, serverVars, losses>>

(* A call or the lease loop learns that the session no longer exists. *)
SessionMissing ==
    /\ client.pc \in {"loop", "prepare"} /\ ~Live(client.session)
    /\ client' = Leave
    /\ UNCHANGED <<watchVars, published, late, serverVars, mishaps, losses>>

-----------------------------------------------------------------------------
(* runLiveSession: report. *)

(* After a poll a submission that is still due is tried again. *)
AfterReport(c) ==
    LET d == [c EXCEPT !.pc = "loop", !.run.thenSubmit = FALSE, !.run.lastOk = None, !.run.latest = None]
    IN  IF c.run.thenSubmit /\ c.run.dirty THEN StartSubmit(d) ELSE d

(* GetSession, on the poll ticker or on an event of the session. *)
Report(poll) ==
    /\ client.pc = "loop" /\ Live(client.session)
    /\ client' = [client EXCEPT !.pc = "publish", !.run.thenSubmit = poll,
                      !.run.lastOk = sessions[client.session].lastOk,
                      !.run.latest = sessions[client.session].latest]
    /\ UNCHANGED <<watchVars, published, late, serverVars, mishaps, losses>>

(* A call of report fails on its way. *)
ReportFailed ==
    /\ client.pc \in {"loop", "publish", "diagnose"} /\ Mishap
    /\ \E poll \in IF client.pc = "loop" THEN BOOLEAN ELSE {Run.thenSubmit} :
          client' = AfterReport([client EXCEPT !.run.thenSubmit = poll])
    /\ UNCHANGED <<watchVars, published, late, serverVars, losses>>

(* A success that is not shown yet and is newer than what is. *)
Unshown == /\ Run.lastOk \notin {None, Run.shown}
           /\ jobs[Run.lastOk].revision > Run.displayed

(* DownloadLiveResult never moves current.json back within a session. *)
MayReplace == ~ /\ published.session = client.session
                /\ \/ published.revision > jobs[Run.lastOk].revision
                   \/ /\ published.revision = jobs[Run.lastOk].revision
                      /\ published.job # Run.lastOk

Publication == [session |-> client.session, revision |-> jobs[Run.lastOk].revision,
                job |-> Run.lastOk, files |-> jobs[Run.lastOk].files]

(* revisionExports has the naming context of the job: its submission was    *)
(* answered.                                                                *)
NamingCaptured == Naming => jobs[Run.lastOk].key # Run.pending.key

Shown == [client EXCEPT !.pc = "diagnose", !.run.displayed = jobs[Run.lastOk].revision,
                        !.run.shown = Run.lastOk]

(* The result is downloaded, current.json replaced and the PDF exported. *)
Publish ==
    /\ client.pc = "publish"
    /\ published' = IF Unshown /\ MayReplace THEN Publication ELSE published
    /\ client' = CASE ~Unshown -> [client EXCEPT !.pc = "diagnose"]
                   [] Unshown /\ MayReplace /\ NamingCaptured -> Shown
                   [] OTHER -> AfterReport(client)
    /\ UNCHANGED <<watchVars, late, serverVars, mishaps, losses>>

(* current.json is replaced; the symlink, the removal of older generations  *)
(* or the export then fails.                                                *)
PublishHalfway ==
    /\ client.pc = "publish" /\ Unshown /\ MayReplace /\ Mishap
    /\ published' = Publication
    /\ client' = AfterReport(client)
    /\ UNCHANGED <<watchVars, late, serverVars, losses>>

Undiagnosed == /\ Run.latest \notin {None, Run.shown, Run.diagnosed}
               /\ jobs[Run.latest].status = "failed"

(* The latest revision's failure is reported, once.                         *)
Diagnose ==
    /\ client.pc = "diagnose"
    /\ client' = AfterReport(IF Undiagnosed THEN [client EXCEPT !.run.diagnosed = Run.latest] ELSE client)
    /\ UNCHANGED <<watchVars, published, late, serverVars, mishaps, losses>>

(* The failure lists missing files and ResolveMissingFiles admits some of   *)
(* them; unlike the refusal, which is Diagnose, this asks for another       *)
(* revision.                                                                *)
Recover ==
    /\ client.pc = "diagnose" /\ Undiagnosed /\ Run.rounds < MaxRounds
    /\ client' = AfterReport([client EXCEPT !.run.diagnosed = Run.latest, !.run.extra = @ + 1,
                                  !.run.rounds = @ + 1, !.run.last = NoFiles, !.run.trigger = TRUE])
    /\ UNCHANGED <<watchVars, published, late, serverVars, mishaps, losses>>

-----------------------------------------------------------------------------
(* The next step of the main loop when no select is pending. *)
ClientStep ==
    \/ \E s \in SessionIds : CreateAnswered(s)
    \/ Freeze \/ Prepare \/ CommitAnswered
    \/ Publish \/ Diagnose \/ CloseAnswered

ServerStep ==
    \E s \in SessionIds :
        \/ TakeSession(s)
        \/ \E out \in {"succeeded", "failed"} : FinishSession(s, out)

Next ==
    \/ ClientStep \/ ServerStep
    \/ Edit
    \/ CreateFailed \/ CloseFailed \/ Stop
    \/ SubmitOnChange \/ SubmitOnTrigger \/ SubmitOnVerify
    \/ CaptureFailed \/ CommitFailed \/ SessionMissing
    \/ \E poll \in BOOLEAN : Report(poll)
    \/ ReportFailed \/ PublishHalfway \/ Recover
    \/ \E r \in late : LateArrives(r)
    \/ \E s \in SessionIds : LoseSession(s) \/ ExpireAbandoned(s)

Spec == Init /\ [][Next]_vars

(* The process keeps running and its calls end; select chooses at random    *)
(* among the ready cases, so that a ticker which keeps firing is not passed *)
(* over forever; the server's workers and its lease sweep keep running.     *)
(* Nothing is assumed of the file watcher, of the session's events, of the  *)
(* user, or of requests whose sender has given up.                          *)
Fairness ==
    /\ WF_vars(ClientStep) /\ WF_vars(ServerStep)
    /\ SF_vars(SubmitOnVerify) /\ SF_vars(Report(TRUE)) /\ SF_vars(SessionMissing)
    /\ \A s \in SessionIds : WF_vars(ExpireAbandoned(s))

FairSpec == Spec /\ Fairness

-----------------------------------------------------------------------------
(* The client is inside runLiveSession. *)
InSession == client.pc \notin {"create", "close", "done"}

Request == [op: {"create"}, key: 1 .. MaxCreations] \cup [op: {"revision"}, body: Revision]
              \cup [op: {"close"}, session: SessionIds]

(* Every variable has its type, and what refers to a session or a job of    *)
(* the server refers to one that was made.                                  *)
ClientTypeOK ==
    /\ source \in 0 .. MaxEdits /\ changed \in BOOLEAN
    /\ client.pc \in {"create", "loop", "freeze", "prepare", "commit", "publish", "diagnose",
                       "close", "done"}
    /\ client.creation \in 1 .. MaxCreations /\ client.revisions \in 0 .. MaxRevisions
    /\ InSession => client.session \in SessionIds \ Unborn
    /\ Run.pending \in Revision \cup {NoRevision}
    /\ Run.lastOk \in 0 .. Len(jobs) /\ Run.latest \in 0 .. Len(jobs)
    /\ published.job \in 0 .. Len(jobs)
    /\ \A r \in late : r \in Request
    /\ \A s \in SessionIds :
          /\ sessions[s].status \in {"none", "live", "gone"}
          /\ {sessions[s].pending, sessions[s].running, sessions[s].lastOk, sessions[s].latest}
                \subseteq 0 .. Len(jobs)
          /\ Len(sessions[s].receipts) <= MaxSessionReceipts
    /\ \A j \in DOMAIN jobs : jobs[j].status \in {"queued", "running", "succeeded", "failed",
                                                   "cancelled"}

(* However often a prepared revision is sent again, and however late a copy *)
(* of it arrives, even after its receipt was dropped, SubmitRevision makes  *)
(* at most one job of its idempotency key.                                  *)
OneJobPerKey == \A i, j \in DOMAIN jobs : jobs[i].key = jobs[j].key => i = j

(* A lost answer never makes the client submit the same files as a new      *)
(* revision: successive revisions of a session differ in what they compile. *)
NoRepeatedRevision ==
    \A i, j \in DOMAIN jobs :
        jobs[i].session = jobs[j].session /\ jobs[j].revision = jobs[i].revision + 1
            => jobs[i].files # jobs[j].files

(* The only client of a session never gets a revision conflict: the base it *)
(* read stays current until its revision is answered, or the revision has a *)
(* receipt.                                                                 *)
NoSelfConflict == Run.pending # NoRevision /\ InSession => Verdict(Run.pending) # "conflict"

(* While no submission is open, the files the client compares the disk with *)
(* are the files of the session's latest revision, so that "nothing has     *)
(* changed" is said of what the server compiles.                            *)
ClientAgrees ==
    InSession /\ Live(client.session) /\ Run.pending = NoRevision /\ Run.last # NoFiles
        => /\ sessions[client.session].latest # None
           /\ jobs[sessions[client.session].latest].files = Run.last

(* The latest revision compiles the sources as they are now; it has ended;  *)
(* and current.json names it if it succeeded.                               *)
UpToDate ==
    /\ InSession /\ Live(client.session) /\ sessions[client.session].latest # None
    /\ LET j == sessions[client.session].latest
       IN  /\ jobs[j].files[1] = source
           /\ jobs[j].status \in {"succeeded", "failed"}
           /\ jobs[j].status = "succeeded" => published.job = j

(* Once edits and faults are over the client settles on the sources as they *)
(* are, whichever requests, answers, sessions and change notices were lost  *)
(* on the way, unless it was stopped.                                       *)
Settles == <>[](client.stop \/ UpToDate)

=============================================================================
