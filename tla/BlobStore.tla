------------------------------ MODULE BlobStore ------------------------------
(***************************************************************************)
(* The source store of the server (packages/server/internal/project): the  *)
(* upload sessions, the content-addressed blobs, the current snapshot of   *)
(* each project, the pins, and the two collectors that delete blobs: Prune *)
(* (a ticker) and CollectUnreferencedBlobs (project cleanup).              *)
(*                                                                         *)
(* A step is a section of code under m.mu; a collector holds snapshotMu    *)
(* from its second section to its end, and Commit holds it while it saves. *)
(* The job queue appears as the order in which it takes and returns pins   *)
(* and creates and ends rows; the counting of pins is JobManager's.        *)
(* Blobs of different owners never meet, so one owner is modelled.         *)
(***************************************************************************)
EXTENDS Naturals, FiniteSets

CONSTANTS
    Uploads,           \* identifiers Plan hands out
    NoUpload,          \* a project without a snapshot
    Projects,
    Digests,
    UploadLifetime,    \* the retentions below are in ticks of the clock
    BlobRetention,
    SnapshotRetention,
    MaxUploadSessions, \* cfg.MaxUploadSessions
    Durable,           \* TRUE: m.db # nil
    FaultKinds,        \* kinds of database failure that may happen
    MaxClock,          \* bound: ticks
    MaxRestarts        \* bound: restarts

ASSUME BlobStoreAssumption ==
    /\ NoUpload \notin Uploads /\ Uploads \cap {"free", "cleanup"} = {}
    /\ {UploadLifetime, BlobRetention, SnapshotRetention} \subseteq Nat
    /\ MaxUploadSessions \in Nat /\ MaxClock \in Nat /\ MaxRestarts \in Nat
    /\ Durable \in BOOLEAN /\ FaultKinds \subseteq {"fail", "lost", "stuck"}
    /\ IsFiniteSet(Uploads) /\ Projects # {}

VARIABLES
    clock,
    blobs,     \* digests on disk
    mtime,     \* modification time of each blob, 0 when absent
    uploads,   \* m.sessions, kept after removal for what refers to them
    puts,      \* PutBlob calls between their lookup and their rename
    commit,    \* the Commit and Enqueue of one upload's commit request
    snapshots, \* the current snapshot of each project, by its upload
    pins,      \* m.pins, by holder
    rows,      \* queued or running job rows, by holder
    admission, \* who holds the queue's admissionMu
    sweep,     \* the two collectors
    boot,      \* "sweep", "recover" while starting, then "up"
    restarts

storeVars == <<blobs, mtime>>
queueVars == <<pins, rows, admission>>
bootVars == <<boot, restarts>>
vars == <<clock, blobs, mtime, uploads, puts, commit, snapshots, pins, rows,
          admission, sweep, boot, restarts>>

(* A job made from an upload, by commitUpload or by SubmitRevision. *)
Holders == Uploads \X {"commit", "revision"}
Collectors == {"prune", "collect"}
Upload == [status: {"unused", "open", "committed", "consumed", "dropped"},
           project: Projects, files: SUBSET Digests, missing: SUBSET Digests,
           expires: Nat, committing: BOOLEAN]
Put == [upload: Uploads, digest: Digests, since: Nat]
CommitCall == [pc: {"idle", "checking", "saved", "pinned"}, left: SUBSET Digests]
Snapshot == [upload: Uploads \cup {NoUpload}, updated: Nat]
Sweep == [pc: {"idle", "begin", "snapshots", "rows", "remove"}, now: Nat, refs: SUBSET Digests]

Unused == [status |-> "unused", project |-> CHOOSE p \in Projects : TRUE, files |-> {},
           missing |-> {}, expires |-> 0, committing |-> FALSE]
NoCommit == [pc |-> "idle", left |-> {}]
NoCurrent == [upload |-> NoUpload, updated |-> 0]
NoSweep == [pc |-> "idle", now |-> 0, refs |-> {}]

Init ==
    /\ clock = 0
    /\ blobs = {}
    /\ mtime = [d \in Digests |-> 0]
    /\ uploads = [u \in Uploads |-> Unused]
    /\ puts = {}
    /\ commit = [u \in Uploads |-> NoCommit]
    /\ snapshots = [p \in Projects |-> NoCurrent]
    /\ pins = {}
    /\ rows = {}
    /\ admission = "free"
    /\ sweep = [c \in Collectors |-> NoSweep]
    /\ boot = "up"
    /\ restarts = 0

-----------------------------------------------------------------------------
(* References. *)

Open == {u \in Uploads : uploads[u].status = "open"}
Expired(u, now) == now > uploads[u].expires
FilesOf(H) == UNION {uploads[h[1]].files : h \in H}
UploadRefs(U) == UNION {uploads[u].files : u \in U}
Current == {p \in Projects : snapshots[p].upload # NoUpload}

(* The uploads once those expired at time now are deleted from the map. *)
DropExpired(now) ==
    [u \in Uploads |-> IF u \in Open /\ Expired(u, now)
                       THEN [uploads[u] EXCEPT !.status = "dropped"] ELSE uploads[u]]

(* Uploads a collector keeps: Collect keeps all, Prune the unexpired ones. *)
Kept(c, now) == IF c = "prune" THEN {u \in Open : ~Expired(u, now)} ELSE Open

(* Mutant: the collectors forget the pins. *)
HeldRefsUnpinned(c, now) == UploadRefs(Kept(c, now))
(* What m.mu guards: references of the upload sessions and of the pins. *)
HeldRefs(c, now) == UploadRefs(Kept(c, now)) \cup FilesOf(pins)

SnapshotRefs(S) == UNION {uploads[S[p].upload].files : p \in {q \in Projects : S[q].upload # NoUpload}}

(* Mutant: Commit saves without taking snapshotMu. *)
SnapshotMuFreeAlways == TRUE
SnapshotMuFree == \A c \in Collectors : sweep[c].pc \notin {"rows", "remove"}
Up == boot = "up"

(* A database call may end with outcome o. *)
DbCall(o) == o \in {"ok", "refused"} \/ (Durable /\ o \in FaultKinds)

-----------------------------------------------------------------------------
(* Uploading. *)

(* Plan: forget expired uploads, answer which digests are missing.  A       *)
(* refused Plan has dropped the expired uploads all the same.               *)
Plan(u, p, F) ==
    LET live == {v \in Open : ~Expired(v, clock)}
    IN  /\ Up /\ uploads[u].status = "unused"
        /\ \/ /\ MaxUploadSessions > 0 => Cardinality(live) < MaxUploadSessions
              /\ uploads' = [DropExpired(clock) EXCEPT ![u] =
                    [status |-> "open", project |-> p, files |-> F, missing |-> F \ blobs,
                     expires |-> clock + UploadLifetime, committing |-> FALSE]]
           \/ /\ MaxUploadSessions > 0 /\ Cardinality(live) >= MaxUploadSessions
              /\ uploads' = DropExpired(clock)
        /\ UNCHANGED <<clock, storeVars, puts, commit, snapshots, queueVars, sweep, bootVars>>

(* PutBlob or Commit of an expired upload deletes it and fails. *)
TouchExpired(u) ==
    /\ Up /\ u \in Open /\ Expired(u, clock)
    /\ uploads' = [uploads EXCEPT ![u].status = "dropped"]
    /\ UNCHANGED <<clock, storeVars, puts, commit, snapshots, queueVars, sweep, bootVars>>

Received(u, d) == [uploads EXCEPT ![u].missing = @ \ {d}]

(* PutBlob up to staging; a digest already stored is acknowledged at once. *)
BeginPut(u, d) ==
    /\ Up /\ u \in Open /\ ~Expired(u, clock) /\ d \in uploads[u].files
    /\ \/ d \in blobs /\ uploads' = Received(u, d) /\ puts' = puts
       \/ /\ d \notin blobs /\ uploads' = uploads
          /\ puts' = puts \cup {[upload |-> u, digest |-> d, since |-> clock]}
    /\ UNCHANGED <<clock, storeVars, commit, snapshots, queueVars, sweep, bootVars>>

(* PutBlob's last section: rename unless another call stored the digest.    *)
(* The file's time is that of its last write, before the rename.            *)
EndPut(b) ==
    /\ b \in puts
    /\ puts' = puts \ {b}
    /\ blobs' = blobs \cup {b.digest}
    /\ \E t \in b.since .. clock :
          mtime' = IF b.digest \in blobs THEN mtime ELSE [mtime EXCEPT ![b.digest] = t]
    /\ uploads' = Received(b.upload, b.digest)
    /\ UNCHANGED <<clock, commit, snapshots, queueVars, sweep, bootVars>>

(* Staging fails: wrong content, the quota, a disconnected client. *)
FailPut(b) ==
    /\ b \in puts
    /\ puts' = puts \ {b}
    /\ UNCHANGED <<clock, storeVars, uploads, commit, snapshots, queueVars, sweep, bootVars>>

-----------------------------------------------------------------------------
(* The commit request: Commit, then Enqueue. *)

CommitBegin(u) ==
    /\ Up /\ u \in Open /\ ~Expired(u, clock) /\ ~uploads[u].committing
    /\ uploads' = [uploads EXCEPT ![u].committing = TRUE]
    /\ commit' = [commit EXCEPT ![u] = [pc |-> "checking", left |-> uploads[u].files]]
    /\ UNCHANGED <<clock, storeVars, puts, snapshots, queueVars, sweep, bootVars>>

(* One hasBlob of Commit's loop; a missing digest ends the commit. *)
CommitCheck(u, d) ==
    /\ commit[u].pc = "checking" /\ d \in commit[u].left
    /\ \/ /\ d \in blobs
          /\ commit' = [commit EXCEPT ![u].left = @ \ {d}] /\ uploads' = uploads
       \/ /\ d \notin blobs
          /\ commit' = [commit EXCEPT ![u] = NoCommit]
          /\ uploads' = [uploads EXCEPT ![u].committing = FALSE]
    /\ UNCHANGED <<clock, storeVars, puts, snapshots, queueVars, sweep, bootVars>>

(* The upsert that makes u the current snapshot of its project. *)
SavedSnapshot(u) == [snapshots EXCEPT ![uploads[u].project] = [upload |-> u, updated |-> clock]]

(* Commit under snapshotMu: save the snapshot, delete the upload.  With a   *)
(* database the save may fail, or take effect and still report an error.    *)
CommitSave(u, o) ==
    /\ commit[u].pc = "checking" /\ commit[u].left = {} /\ SnapshotMuFree
    /\ DbCall(o)
    /\ snapshots' = IF o = "fail" THEN snapshots ELSE SavedSnapshot(u)
    /\ commit' = [commit EXCEPT ![u] = IF o = "ok" THEN [NoCommit EXCEPT !.pc = "saved"] ELSE NoCommit]
    /\ uploads' = [uploads EXCEPT
          ![u].status = IF o = "ok" /\ u \in Open THEN "committed" ELSE @,
          ![u].committing = FALSE]
    /\ UNCHANGED <<clock, storeVars, puts, queueVars, sweep, bootVars>>

(* Enqueue pins the snapshot before it asks for admissionMu. *)
EnqueuePin(u) ==
    /\ commit[u].pc = "saved"
    /\ commit' = [commit EXCEPT ![u].pc = "pinned"]
    /\ pins' = pins \cup {<<u, "commit">>}
    /\ UNCHANGED <<clock, storeVars, uploads, puts, snapshots, rows, admission, sweep, bootVars>>

(* Enqueue creates the row and keeps the pin; a row whose insert reported   *)
(* an error is left behind without one.                                     *)
EnqueueRow(u, o) ==
    /\ commit[u].pc = "pinned" /\ admission = "free"
    /\ DbCall(o)
    /\ commit' = [commit EXCEPT ![u] = NoCommit]
    /\ rows' = rows \cup {<<u, "commit">>}
    /\ pins' = IF o = "lost" THEN pins \ {<<u, "commit">>} ELSE pins
    /\ UNCHANGED <<clock, storeVars, uploads, puts, snapshots, admission, sweep, bootVars>>

(* Enqueue refuses: an invalid request (before the pin), or a full queue. *)
EnqueueRefused(u) ==
    /\ commit[u].pc \in {"saved", "pinned"}
    /\ commit' = [commit EXCEPT ![u] = NoCommit]
    /\ pins' = pins \ {<<u, "commit">>}
    /\ UNCHANGED <<clock, storeVars, uploads, puts, snapshots, rows, admission, sweep, bootVars>>

-----------------------------------------------------------------------------
(* The realtime request: SubmitRevision, all of it under admissionMu. *)

Ready(u) == uploads[u].files \subseteq blobs

(* PrepareUpload: check and pin in one section of m.mu.  Bound: one row per *)
(* upload and kind of request.                                              *)
PrepareUpload(u) ==
    /\ Up /\ admission = "free" /\ u \in Open /\ ~Expired(u, clock) /\ ~uploads[u].committing
    /\ <<u, "revision">> \notin rows \cup pins
    /\ Ready(u)
    /\ admission' = u
    /\ pins' = pins \cup {<<u, "revision">>}
    /\ UNCHANGED <<clock, storeVars, uploads, puts, commit, snapshots, rows, sweep, bootVars>>

(* The rest of SubmitRevision.  "ok": the row is saved and the upload       *)
(* consumed; "refused": the pin is returned; "lost": so it is, but the row  *)
(* exists; "stuck": superseding the old revision failed and so did undoing  *)
(* the new row, which keeps its pin.                                        *)
AdmitRevision(u, o) ==
    /\ admission = u
    /\ DbCall(o)
    /\ admission' = "free"
    /\ rows' = IF o = "refused" THEN rows ELSE rows \cup {<<u, "revision">>}
    /\ pins' = IF o \in {"refused", "lost"} THEN pins \ {<<u, "revision">>} ELSE pins
    /\ uploads' = IF o = "ok" /\ u \in Open THEN [uploads EXCEPT ![u].status = "consumed"] ELSE uploads
    /\ UNCHANGED <<clock, storeVars, puts, commit, snapshots, sweep, bootVars>>

-----------------------------------------------------------------------------
(* The queue lets go of sources. *)

(* A job reaches a terminal status. *)
EndJob(h) ==
    /\ Up /\ h \in rows
    /\ rows' = rows \ {h}
    /\ UNCHANGED <<clock, storeVars, uploads, puts, commit, snapshots, pins, admission, sweep, bootVars>>

(* The pin of an ended job is returned; a live session keeps the pin of its *)
(* current revision for as long as it likes.                                *)
Unpin(h) ==
    /\ Up /\ h \in pins \ rows
    /\ h[2] = "commit" => commit[h[1]].pc # "pinned"
    /\ h[2] = "revision" => admission # h[1]
    /\ pins' = pins \ {h}
    /\ UNCHANGED <<clock, storeVars, uploads, puts, commit, snapshots, rows, admission, sweep, bootVars>>

DeleteSnapshot(p) == snapshots' = [snapshots EXCEPT ![p] = NoCurrent]

(* cleanupProject with scope snapshot or project, up to DeleteSnapshot.  A  *)
(* project with active jobs or live sessions is refused.                    *)
CleanupProject(p) ==
    /\ Up /\ admission = "free" /\ SnapshotMuFree
    /\ \A h \in rows \cup {g \in pins : g[2] = "revision"} : uploads[h[1]].project # p
    /\ admission' = "cleanup"
    /\ DeleteSnapshot(p)
    /\ sweep' = [sweep EXCEPT !["collect"].pc = "begin"]
    /\ UNCHANGED <<clock, storeVars, uploads, puts, commit, pins, rows, bootVars>>

-----------------------------------------------------------------------------
(* The collectors. *)

(* First section of m.mu: references of uploads and pins. *)
BeginSweep(c) ==
    /\ IF c = "prune" THEN sweep[c].pc = "idle" /\ boot # "recover" ELSE sweep[c].pc = "begin"
    /\ sweep' = [sweep EXCEPT ![c] = [pc |-> "snapshots", now |-> clock, refs |-> HeldRefs(c, clock)]]
    /\ uploads' = IF c = "prune" THEN DropExpired(clock) ELSE uploads
    /\ UNCHANGED <<clock, storeVars, puts, commit, snapshots, queueVars, bootVars>>

(* Prune deletes the snapshots older than SnapshotRetention. *)
Retained(c) ==
    [p \in Projects |-> IF c = "prune" /\ snapshots[p].updated + SnapshotRetention < sweep[c].now
                        THEN NoCurrent ELSE snapshots[p]]

(* Under snapshotMu from here on: references of the current snapshots. *)
SweepSnapshots(c) ==
    /\ sweep[c].pc = "snapshots" /\ SnapshotMuFree
    /\ snapshots' = Retained(c)
    /\ sweep' = [sweep EXCEPT ![c].pc = IF Durable THEN "rows" ELSE "remove",
                              ![c].refs = @ \cup SnapshotRefs(Retained(c))]
    /\ UNCHANGED <<clock, storeVars, uploads, puts, commit, queueVars, bootVars>>

(* Mutant: the manifests of active jobs are not visited. *)
RowRefsNone == {}
(* VisitActiveJobSnapshots. *)
RowRefs == FilesOf(rows)

SweepRows(c) ==
    /\ sweep[c].pc = "rows"
    /\ sweep' = [sweep EXCEPT ![c].pc = "remove", ![c].refs = @ \cup RowRefs]
    /\ UNCHANGED <<clock, storeVars, uploads, puts, commit, snapshots, queueVars, bootVars>>

(* Mutant: only the references of the first section count. *)
FinalRefsGathered(c) == sweep[c].refs
(* The references of uploads and pins are taken again before removing. *)
FinalRefs(c) == sweep[c].refs \cup HeldRefs(c, sweep[c].now)

(* Prune spares what is younger than BlobRetention; Collect does not. *)
Garbage(c) ==
    {d \in blobs \ FinalRefs(c) : c = "prune" => mtime[d] + BlobRetention < sweep[c].now}

(* A collector ends: the startup sweep lets Start go on, cleanup unlocks. *)
EndSweep(c) ==
    /\ sweep' = [sweep EXCEPT ![c] = NoSweep]
    /\ boot' = IF c = "prune" /\ boot = "sweep" THEN "recover" ELSE boot
    /\ admission' = IF c = "collect" THEN "free" ELSE admission

(* Last section, of m.mu: take the references again, remove the rest. *)
SweepRemove(c) ==
    /\ sweep[c].pc = "remove"
    /\ uploads' = IF c = "prune" THEN DropExpired(sweep[c].now) ELSE uploads
    /\ blobs' = blobs \ Garbage(c)
    /\ mtime' = [d \in Digests |-> IF d \in Garbage(c) THEN 0 ELSE mtime[d]]
    /\ EndSweep(c)
    /\ UNCHANGED <<clock, puts, commit, snapshots, pins, rows, restarts>>

(* A database error in the second section ends the collector. *)
AbortSweep(c) ==
    /\ DbCall("fail") /\ sweep[c].pc \in {"snapshots", "rows"}
    /\ sweep[c].pc = "snapshots" => SnapshotMuFree
    /\ EndSweep(c)
    /\ UNCHANGED <<clock, storeVars, uploads, puts, commit, snapshots, pins, rows, restarts>>

-----------------------------------------------------------------------------
(* Time and restarts. *)

Tick ==
    /\ clock < MaxClock
    /\ clock' = clock + 1
    /\ UNCHANGED <<storeVars, uploads, puts, commit, snapshots, queueVars, sweep, bootVars>>

(* The process dies and starts again: memory is gone, staged files are      *)
(* removed, and project.Start sweeps before the queue recovers its jobs.    *)
Restart ==
    /\ restarts < MaxRestarts
    /\ restarts' = restarts + 1
    /\ boot' = "sweep"
    /\ uploads' = [u \in Uploads |-> [uploads[u] EXCEPT
                      !.status = IF @ = "open" THEN "dropped" ELSE @, !.committing = FALSE]]
    /\ puts' = {} /\ pins' = {} /\ admission' = "free"
    /\ commit' = [u \in Uploads |-> NoCommit]
    /\ snapshots' = IF Durable THEN snapshots ELSE [p \in Projects |-> NoCurrent]
    /\ rows' = IF Durable THEN rows ELSE {}
    /\ sweep' = [c \in Collectors |-> NoSweep]
    /\ UNCHANGED <<clock, storeVars>>

(* jobs.Start pins the jobs it resumes (P) and ends the others; with a      *)
(* failing database some keep their rows without being resumed.             *)
Recover(P, R) ==
    /\ boot = "recover" /\ P \subseteq R
    /\ P # R => DbCall("fail")
    /\ boot' = "up"
    /\ rows' = R
    /\ pins' = P
    /\ UNCHANGED <<clock, storeVars, uploads, puts, commit, snapshots, admission, sweep, restarts>>

Next ==
    \/ \E u \in Uploads, p \in Projects, F \in SUBSET Digests \ {{}} : Plan(u, p, F)
    \/ \E u \in Uploads : TouchExpired(u)
    \/ \E u \in Uploads, d \in Digests : BeginPut(u, d)
    \/ \E b \in puts : EndPut(b)
    \/ \E b \in puts : FailPut(b)
    \/ \E u \in Uploads : CommitBegin(u)
    \/ \E u \in Uploads, d \in Digests : CommitCheck(u, d)
    \/ \E u \in Uploads, o \in {"ok", "fail", "lost"} : CommitSave(u, o)
    \/ \E u \in Uploads : EnqueuePin(u)
    \/ \E u \in Uploads, o \in {"ok", "lost"} : EnqueueRow(u, o)
    \/ \E u \in Uploads : EnqueueRefused(u)
    \/ \E u \in Uploads : PrepareUpload(u)
    \/ \E u \in Uploads, o \in {"ok", "refused", "lost", "stuck"} : AdmitRevision(u, o)
    \/ \E h \in Holders : EndJob(h)
    \/ \E h \in Holders : Unpin(h)
    \/ \E p \in Projects : CleanupProject(p)
    \/ \E c \in Collectors : BeginSweep(c)
    \/ \E c \in Collectors : SweepSnapshots(c)
    \/ \E c \in Collectors : SweepRows(c)
    \/ \E c \in Collectors : SweepRemove(c)
    \/ \E c \in Collectors : AbortSweep(c)
    \/ Tick
    \/ Restart
    \/ \E R \in SUBSET rows : \E P \in SUBSET R : Recover(P, R)

Spec == Init /\ [][Next]_vars

-----------------------------------------------------------------------------
(* Properties. *)

(* Every variable keeps its type, and a cleanup holds admissionMu exactly   *)
(* while its collector is under way.                                        *)
BlobTypeOK ==
    /\ clock \in Nat /\ restarts \in Nat
    /\ blobs \subseteq Digests /\ mtime \in [Digests -> Nat]
    /\ uploads \in [Uploads -> Upload]
    /\ puts \subseteq Put
    /\ commit \in [Uploads -> CommitCall]
    /\ snapshots \in [Projects -> Snapshot]
    /\ pins \subseteq Holders /\ rows \subseteq Holders
    /\ admission \in {"free", "cleanup"} \cup Uploads
    /\ sweep \in [Collectors -> Sweep]
    /\ boot \in {"up", "sweep", "recover"}
    /\ admission = "cleanup" <=> sweep["collect"].pc # "idle"

(* What the server told a client it has, it keeps: a digest that Plan did   *)
(* not list as missing, or that PutBlob acknowledged, is on disk for as     *)
(* long as the upload is in the map, whatever the collectors run meanwhile. *)
AcknowledgedKept == \A u \in Open : uploads[u].files \ uploads[u].missing \subseteq blobs

(* The sources of a realtime revision are on disk while its job is queued   *)
(* or running and while its pin is held, across collectors and restarts.    *)
RevisionSources == \A h \in rows \cup pins : h[2] = "revision" => uploads[h[1]].files \subseteq blobs

(* A current snapshot whose upload was in the map until Commit saved it     *)
(* stays complete until it is replaced or deleted.  (An upload that expires *)
(* during its Commit may be dropped by Prune and its snapshot saved without *)
(* its blobs; such an upload is not "committed".)                           *)
CommittedComplete ==
    \A p \in Current :
        uploads[snapshots[p].upload].status = "committed"
            => uploads[snapshots[p].upload].files \subseteq blobs

(* "It never removes data referenced by a live upload, current project      *)
(* snapshot, or queued/running job snapshot or realtime session": at the    *)
(* moment a collector removes a blob nothing refers to it.                  *)
ReferencedKept ==
    [][(blobs \ blobs') \cap (UploadRefs({u \in Open : ~Expired(u, clock)}) \cup SnapshotRefs(snapshots)
                              \cup FilesOf(rows \cup pins)) = {}]_vars

(* The same for every job: the sources of a queued or running job are on    *)
(* disk.  commitUpload pins only after Commit has returned, so it fails.    *)
JobSources == \A h \in rows : uploads[h[1]].files \subseteq blobs

=============================================================================
