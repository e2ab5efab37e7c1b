----------------------------- MODULE BlobProofs -----------------------------
(***************************************************************************)
(* Proofs about BlobStore: what a client was told is stored stays stored,  *)
(* a committed snapshot stays complete, and, unless a database call takes  *)
(* effect and reports an error all the same, the sources of a revision     *)
(* stay on disk and no collector removes what is referred to.              *)
(***************************************************************************)
EXTENDS BlobStore, TLAPS

(* The sources of an upload are fixed once something refers to it. *)
Planned ==
    /\ \A h \in rows \cup pins : uploads[h[1]].status # "unused"
    /\ \A u \in Uploads : commit[u].pc # "idle" => uploads[u].status # "unused"
    /\ \A p \in Current : uploads[snapshots[p].upload].status # "unused"
    /\ admission \in Uploads => uploads[admission].status # "unused"

(* What Commit has looked at is still there while its upload is, and no    *)
(* upload is committed a second time.                                      *)
Checked ==
    \A u \in Uploads : commit[u].pc = "checking" =>
        /\ uploads[u].status # "committed"
        /\ u \in Open => uploads[u].files \ commit[u].left \subseteq blobs

(* A collector that holds snapshotMu knows every current snapshot. *)
SnapshotsSeen ==
    \A c \in Collectors : sweep[c].pc \in {"rows", "remove"} => SnapshotRefs(snapshots) \subseteq sweep[c].refs

(* A collector's notion of the time is not ahead. *)
SweepTimes == \A c \in Collectors : sweep[c].now <= clock

StoredInv ==
    /\ BlobTypeOK /\ AcknowledgedKept /\ CommittedComplete
    /\ Planned /\ Checked /\ SnapshotsSeen /\ SweepTimes

(* An upload is committed at most once, so its row and the pin that goes   *)
(* before it are never those of two requests.                              *)
CommittedOnce ==
    \A u \in Uploads :
        /\ <<u, "commit">> \in rows => u \notin Open /\ commit[u].pc = "idle"
        /\ commit[u].pc \in {"saved", "pinned"} => u \notin Open
        /\ commit[u].pc = "pinned" => <<u, "commit">> \in pins

(* The upload a revision is prepared from is pinned and has no row yet. *)
Prepared == admission \in Uploads => <<admission, "revision">> \in pins \ rows

(* Rows without a pin exist only with a database, and a collector that has *)
(* visited the rows knows their sources.                                   *)
UnpinnedSeen ==
    /\ ~Durable => rows \subseteq pins
    /\ \A c \in Collectors : sweep[c].pc = "remove" =>
          \A h \in rows \ pins : uploads[h[1]].files \subseteq sweep[c].refs

(* Nothing is pinned and no request runs until the queue has recovered. *)
StartsEmpty == boot # "up" => pins = {} /\ \A u \in Uploads : commit[u].pc = "idle"

ReferredInv == StoredInv /\ RevisionSources /\ CommittedOnce /\ Prepared /\ UnpinnedSeen /\ StartsEmpty

-----------------------------------------------------------------------------
(* Types. *)

(* What an update of the map of uploads leaves of each of them. *)
LEMMA DropFacts ==
    ASSUME BlobTypeOK, NEW now
    PROVE  /\ DropExpired(now) \in [Uploads -> Upload]
           /\ \A u \in Uploads : LET v == DropExpired(now)[u] IN
                 /\ v.files = uploads[u].files /\ v.missing = uploads[u].missing
                 /\ v.status = IF u \in Open /\ Expired(u, now) THEN "dropped" ELSE uploads[u].status
<1>1. uploads \in [Uploads -> Upload]
  BY DEF BlobTypeOK
<1>2. \A u \in Uploads : LET v == [uploads[u] EXCEPT !.status = "dropped"] IN
          v \in Upload /\ v.files = uploads[u].files /\ v.missing = uploads[u].missing /\ v.status = "dropped"
  BY <1>1 DEF Upload
<1>3. QED
  BY <1>1, <1>2 DEF DropExpired

(* A received blob shortens the list of one upload's missing blobs. *)
LEMMA ReceivedFacts ==
    ASSUME BlobTypeOK, NEW u \in Uploads, NEW d
    PROVE  /\ Received(u, d) \in [Uploads -> Upload]
           /\ \A w \in Uploads : LET v == Received(u, d)[w] IN
                 /\ v.files = uploads[w].files /\ v.status = uploads[w].status
                 /\ v.missing = IF w = u THEN uploads[w].missing \ {d} ELSE uploads[w].missing
<1>1. uploads \in [Uploads -> Upload]
  BY DEF BlobTypeOK
<1> DEFINE m == uploads[u].missing \ {d}
           v == [uploads[u] EXCEPT !.missing = m]
<1>2. m \in SUBSET Digests
  BY <1>1 DEF Upload
<1>3. Received(u, d) = [uploads EXCEPT ![u] = v]
  BY <1>1 DEF Received
<1> HIDE DEF m
<1>4. v \in Upload /\ v.files = uploads[u].files /\ v.status = uploads[u].status /\ v.missing = m
  BY <1>1, <1>2 DEF Upload
<1> HIDE DEF v
<1>5. QED
  BY <1>1, <1>3, <1>4 DEF m

(* An upload whose status or whose lock changes. *)
LEMMA StatusFacts ==
    ASSUME BlobTypeOK, NEW u \in Uploads, NEW v, v \in Upload, v.files = uploads[u].files, v.missing = uploads[u].missing,
           uploads' = [uploads EXCEPT ![u] = v]
    PROVE  /\ uploads' \in [Uploads -> Upload]
           /\ \A w \in Uploads : /\ uploads'[w].files = uploads[w].files /\ uploads'[w].missing = uploads[w].missing
                                 /\ uploads'[w].status = IF w = u THEN v.status ELSE uploads[w].status
BY DEF BlobTypeOK

-----------------------------------------------------------------------------
(* Steps that remove no blob and save no snapshot.                         *)

(* What happens to the uploads. *)
Uploaded ==
    \A u \in Uploads :
        /\ uploads[u].status # "unused" => uploads'[u].files = uploads[u].files /\ uploads'[u].status # "unused"
        /\ uploads'[u].status = "committed" => uploads[u].status = "committed"
        /\ uploads'[u].status = "open" => uploads'[u].files \ uploads'[u].missing \subseteq blobs'

(* What happens to the commit requests. *)
Committing ==
    \A u \in Uploads :
        /\ commit'[u].pc # "idle" => uploads'[u].status # "unused"
        /\ commit'[u].pc = "checking" => uploads[u].status # "committed"
        /\ uploads'[u].status = "open" /\ commit'[u].pc = "checking" => uploads'[u].files \ commit'[u].left \subseteq blobs'

(* A step that removes no blob and starts no collection, from what it does *)
(* to uploads and commits.                                                 *)
LEMMA StoredStep ==
    ASSUME StoredInv, BlobTypeOK', Uploaded, Committing, blobs \subseteq blobs', UNCHANGED <<snapshots, sweep>>,
           clock' >= clock, admission' \in Uploads => admission' = admission \/ uploads'[admission'].status # "unused",
           \A h \in rows' \cup pins' : h \in rows \cup pins \/ uploads'[h[1]].status # "unused"
    PROVE  StoredInv'
<1>1. /\ snapshots \in [Projects -> Snapshot] /\ sweep \in [Collectors -> Sweep]
      /\ rows \cup pins \subseteq Holders /\ rows' \cup pins' \subseteq Holders
      /\ clock \in Nat /\ clock' \in Nat
  BY DEF StoredInv, BlobTypeOK
<1>2. \A p \in Current : snapshots[p].upload \in Uploads /\ uploads[snapshots[p].upload].status # "unused"
  BY <1>1 DEF Current, StoredInv, Planned, Snapshot
<1>3. Current' = Current
  BY DEF Current
<1>4. AcknowledgedKept' /\ Checked'
  BY DEF AcknowledgedKept, Checked, Open, Uploaded, Committing
<1>5. CommittedComplete'
  BY <1>2, <1>3 DEF StoredInv, CommittedComplete, Uploaded
<1>6. Planned'
  <2>1. \A h \in rows \cup pins : h[1] \in Uploads /\ uploads[h[1]].status # "unused"
    BY <1>1 DEF StoredInv, Planned, Holders
  <2>2. \A h \in rows' \cup pins' : uploads'[h[1]].status # "unused"
    BY <2>1 DEF Uploaded
  <2>3. \A u \in Uploads : commit'[u].pc # "idle" => uploads'[u].status # "unused"
    BY DEF Committing
  <2>4. \A p \in Current' : uploads'[snapshots'[p].upload].status # "unused"
    BY <1>2, <1>3 DEF Uploaded
  <2>5. admission' \in Uploads => uploads'[admission'].status # "unused"
    BY DEF StoredInv, Planned, Uploaded
  <2>6. QED
    BY <2>2, <2>3, <2>4, <2>5 DEF Planned
<1>7. SnapshotsSeen'
  <2>1. \A p \in Current : uploads'[snapshots[p].upload].files = uploads[snapshots[p].upload].files
    BY <1>2 DEF Uploaded
  <2>2. SnapshotRefs(snapshots)' = SnapshotRefs(snapshots)
    BY <2>1 DEF SnapshotRefs, Current
  <2>3. QED
    BY <2>2 DEF SnapshotsSeen, StoredInv
<1>8. SweepTimes'
  <2>1. \A c \in Collectors : sweep[c].now \in Nat /\ sweep[c].now <= clock
    BY <1>1 DEF StoredInv, SweepTimes, Sweep
  <2>2. QED
    BY <1>1, <2>1 DEF SweepTimes
<1>9. QED
  BY <1>4, <1>5, <1>6, <1>7, <1>8 DEF StoredInv

(* A step that leaves the uploads alone. *)
LEMMA SameUploads ==
    ASSUME StoredInv, uploads' = uploads, blobs \subseteq blobs'
    PROVE  Uploaded
BY DEF StoredInv, AcknowledgedKept, Open, Uploaded

(* Commits that do not move are still right about what they have checked. *)
LEMMA SameCommits ==
    ASSUME StoredInv, commit' = commit, blobs \subseteq blobs',
           \A u \in Uploads : /\ uploads'[u].status = "open" => uploads[u].status \in {"open", "unused"}
                              /\ uploads[u].status # "unused" => uploads'[u].files = uploads[u].files
                                                                 /\ uploads'[u].status # "unused"
    PROVE  Committing
<1>1. \A u \in Uploads : commit[u].pc # "idle" => uploads[u].status # "unused"
  BY DEF StoredInv, Planned
<1>2. QED
  BY <1>1 DEF StoredInv, Checked, Open, Committing

(* Plan lists as missing what is not on disk. *)
LEMMA PlanStored ==
    ASSUME StoredInv, NEW u \in Uploads, NEW p \in Projects, NEW F \in SUBSET Digests, Plan(u, p, F)
    PROVE  StoredInv'
<1> DEFINE new == [status |-> "open", project |-> p, files |-> F, missing |-> F \ blobs,
                   expires |-> clock + UploadLifetime, committing |-> FALSE]
<1>1. /\ uploads' = DropExpired(clock) \/ uploads' = [DropExpired(clock) EXCEPT ![u] = new]
      /\ uploads[u].status = "unused"
      /\ UNCHANGED <<clock, blobs, mtime, puts, commit, snapshots, pins, rows, admission, sweep, boot, restarts>>
  BY DEF Plan, storeVars, queueVars, bootVars
<1>2. BlobTypeOK /\ new \in Upload /\ new.status = "open" /\ new.files \ new.missing \subseteq blobs
  BY BlobStoreAssumption DEF StoredInv, BlobTypeOK, Upload
<1> HIDE DEF new
<1>3. uploads' \in [Uploads -> Upload]
  BY <1>1, <1>2, DropFacts
<1>4. \A w \in Uploads \ {u} : uploads'[w] = DropExpired(clock)[w]
  BY <1>1, <1>2, DropFacts
<1>5. uploads'[u] = DropExpired(clock)[u] \/ uploads'[u] = new
  BY <1>1, <1>2, DropFacts
<1>6. \A w \in Uploads : /\ uploads[w].status # "unused" =>
                               /\ uploads'[w].files = uploads[w].files /\ uploads'[w].missing = uploads[w].missing
                               /\ uploads'[w].status \in {uploads[w].status, "dropped"}
                         /\ uploads[w].status = "unused" => uploads'[w].status = "unused" \/ uploads'[w] = new
  BY <1>1, <1>2, <1>4, <1>5, DropFacts DEF Open
<1>7. Uploaded
  BY <1>1, <1>2, <1>6 DEF Uploaded, StoredInv, AcknowledgedKept, Open
<1>8. Committing
  BY <1>1, <1>2, <1>6, SameCommits
<1>9. BlobTypeOK'
  BY <1>1, <1>2, <1>3 DEF BlobTypeOK
<1>10. QED
  BY <1>1, <1>2, <1>7, <1>8, <1>9, StoredStep DEF BlobTypeOK

(* A request that finds its upload expired drops it. *)
LEMMA TouchStored ==
    ASSUME StoredInv, NEW u \in Uploads, TouchExpired(u)
    PROVE  StoredInv'
<1>1. /\ u \in Open /\ uploads' = [uploads EXCEPT ![u].status = "dropped"]
      /\ UNCHANGED <<clock, blobs, mtime, puts, commit, snapshots, pins, rows, admission, sweep, boot, restarts>>
  BY DEF TouchExpired, storeVars, queueVars, bootVars
<1>2. BlobTypeOK /\ uploads[u].status = "open"
  BY <1>1 DEF StoredInv, Open
<1>3. /\ uploads' \in [Uploads -> Upload]
      /\ \A w \in Uploads : /\ uploads'[w].files = uploads[w].files /\ uploads'[w].missing = uploads[w].missing
                            /\ uploads'[w].status = IF w = u THEN "dropped" ELSE uploads[w].status
  <2> DEFINE v == [uploads[u] EXCEPT !.status = "dropped"]
  <2>1. v \in Upload /\ v.files = uploads[u].files /\ v.missing = uploads[u].missing /\ v.status = "dropped"
    BY <1>2 DEF BlobTypeOK, Upload
  <2>2. uploads' = [uploads EXCEPT ![u] = v]
    BY <1>1, <1>2 DEF BlobTypeOK
  <2> HIDE DEF v
  <2>3. QED
    BY <1>2, <2>1, <2>2, StatusFacts
<1>4. Uploaded
  BY <1>1, <1>2, <1>3 DEF Uploaded, StoredInv, AcknowledgedKept, Open
<1>5. Committing
  BY <1>1, <1>2, <1>3, SameCommits
<1>6. BlobTypeOK'
  BY <1>1, <1>2, <1>3 DEF BlobTypeOK
<1>7. QED
  BY <1>1, <1>2, <1>4, <1>5, <1>6, StoredStep DEF BlobTypeOK

(* An acknowledgement is only given for what is stored. *)
LEMMA ReceivedStored ==
    ASSUME StoredInv, NEW u \in Uploads, NEW d \in blobs', uploads' = Received(u, d), blobs \subseteq blobs',
           UNCHANGED <<clock, commit, snapshots, pins, rows, admission, sweep, boot, restarts>>,
           puts' \subseteq Put, blobs' \subseteq Digests, mtime' \in [Digests -> Nat]
    PROVE  StoredInv'
<1>1. BlobTypeOK
  BY DEF StoredInv
<1>2. /\ uploads' \in [Uploads -> Upload]
      /\ \A w \in Uploads : /\ uploads'[w].files = uploads[w].files /\ uploads'[w].status = uploads[w].status
                            /\ uploads'[w].missing = IF w = u THEN uploads[w].missing \ {d} ELSE uploads[w].missing
  BY <1>1, ReceivedFacts
<1>3. Uploaded
  BY <1>2 DEF Uploaded, StoredInv, AcknowledgedKept, Open
<1>4. Committing
  BY <1>2, SameCommits
<1>5. BlobTypeOK'
  BY <1>1, <1>2 DEF BlobTypeOK
<1>6. QED
  BY <1>1, <1>3, <1>4, <1>5, StoredStep DEF BlobTypeOK

(* A PutBlob starts with nothing stored. *)
LEMMA BeginPutStored ==
    ASSUME StoredInv, NEW u \in Uploads, NEW d \in Digests, BeginPut(u, d)
    PROVE  StoredInv'
<1>1. /\ UNCHANGED <<clock, blobs, mtime, commit, snapshots, pins, rows, admission, sweep, boot, restarts>>
      /\ \/ d \in blobs /\ uploads' = Received(u, d) /\ puts' = puts
         \/ uploads' = uploads /\ puts' = puts \cup {[upload |-> u, digest |-> d, since |-> clock]}
  BY DEF BeginPut, storeVars, queueVars, bootVars
<1>2. BlobTypeOK /\ puts' \subseteq Put
  BY <1>1 DEF StoredInv, BlobTypeOK, Put
<1>3. CASE d \in blobs /\ uploads' = Received(u, d)
  BY <1>1, <1>2, <1>3, ReceivedStored DEF BlobTypeOK
<1>4. CASE uploads' = uploads
  <2>1. Uploaded /\ Committing
    BY <1>1, <1>4, SameUploads, SameCommits
  <2>2. BlobTypeOK'
    BY <1>1, <1>2, <1>4 DEF BlobTypeOK
  <2>3. QED
    BY <1>1, <1>2, <2>1, <2>2, StoredStep DEF BlobTypeOK
<1>5. QED
  BY <1>1, <1>3, <1>4

(* The blob is on disk before the upload stops missing it. *)
LEMMA EndPutStored ==
    ASSUME StoredInv, NEW b \in puts, EndPut(b)
    PROVE  StoredInv'
<1>1. BlobTypeOK /\ b.upload \in Uploads /\ b.digest \in Digests /\ b.since \in Nat
  BY DEF StoredInv, BlobTypeOK, Put
<1>2. /\ puts' = puts \ {b} /\ blobs' = blobs \cup {b.digest} /\ uploads' = Received(b.upload, b.digest)
      /\ UNCHANGED <<clock, commit, snapshots, pins, rows, admission, sweep, boot, restarts>>
  BY DEF EndPut, queueVars, bootVars
<1>3. PICK t \in b.since .. clock : mtime' = IF b.digest \in blobs THEN mtime ELSE [mtime EXCEPT ![b.digest] = t]
  BY DEF EndPut
<1>4. mtime' \in [Digests -> Nat]
  <2>1. t \in Nat /\ mtime \in [Digests -> Nat]
    BY <1>1 DEF BlobTypeOK
  <2>2. QED
    BY <1>1, <1>3, <2>1
<1>5. puts' \subseteq Put /\ blobs' \subseteq Digests
  BY <1>1, <1>2 DEF BlobTypeOK
<1>6. QED
  BY <1>1, <1>2, <1>4, <1>5, ReceivedStored

(* Commit starts with everything to check. *)
LEMMA CommitBeginStored ==
    ASSUME StoredInv, NEW u \in Uploads, CommitBegin(u)
    PROVE  StoredInv'
<1> DEFINE new == [pc |-> "checking", left |-> uploads[u].files]
<1>1. /\ u \in Open /\ uploads' = [uploads EXCEPT ![u].committing = TRUE] /\ commit' = [commit EXCEPT ![u] = new]
      /\ UNCHANGED <<clock, blobs, mtime, puts, snapshots, pins, rows, admission, sweep, boot, restarts>>
  BY DEF CommitBegin, storeVars, queueVars, bootVars
<1>2. BlobTypeOK /\ uploads[u].status = "open" /\ new \in CommitCall /\ new.left = uploads[u].files /\ uploads[u] \in Upload
  BY <1>1 DEF StoredInv, BlobTypeOK, Open, CommitCall, Upload
<1> HIDE DEF new
<1>3. /\ uploads' \in [Uploads -> Upload]
      /\ \A w \in Uploads : /\ uploads'[w].files = uploads[w].files /\ uploads'[w].missing = uploads[w].missing
                            /\ uploads'[w].status = uploads[w].status
  <2>1. uploads \in [Uploads -> Upload]
    BY <1>2 DEF BlobTypeOK
  <2>2. QED
    BY <1>1, <2>1 DEF Upload
<1>4. Uploaded
  BY <1>1, <1>3 DEF Uploaded, StoredInv, AcknowledgedKept, Open
<1>5. \A w \in Uploads : commit'[w] = IF w = u THEN new ELSE commit[w]
  BY <1>1, <1>2 DEF BlobTypeOK
<1>6. Committing
  BY <1>1, <1>2, <1>3, <1>5 DEF Committing, StoredInv, Planned, Checked, Open
<1>7. BlobTypeOK'
  BY <1>1, <1>2, <1>3 DEF BlobTypeOK
<1>8. QED
  BY <1>1, <1>2, <1>4, <1>6, <1>7, StoredStep DEF BlobTypeOK

(* Commit checks one digest. *)
LEMMA CommitCheckStored ==
    ASSUME StoredInv, NEW u \in Uploads, NEW d \in Digests, CommitCheck(u, d)
    PROVE  StoredInv'
<1>1. /\ commit[u].pc = "checking" /\ d \in commit[u].left
      /\ \/ /\ d \in blobs
            /\ commit' = [commit EXCEPT ![u].left = @ \ {d}] /\ uploads' = uploads
         \/ /\ commit' = [commit EXCEPT ![u] = NoCommit]
            /\ uploads' = [uploads EXCEPT ![u].committing = FALSE]
      /\ UNCHANGED <<clock, blobs, mtime, puts, snapshots, pins, rows, admission, sweep, boot, restarts>>
  BY DEF CommitCheck, storeVars, queueVars, bootVars
<1>2. BlobTypeOK /\ commit \in [Uploads -> CommitCall] /\ uploads \in [Uploads -> Upload]
  BY DEF StoredInv, BlobTypeOK
<1>3. /\ uploads' \in [Uploads -> Upload]
      /\ \A w \in Uploads : /\ uploads'[w].files = uploads[w].files /\ uploads'[w].missing = uploads[w].missing
                            /\ uploads'[w].status = uploads[w].status
  <2>1. CASE uploads' = uploads
    BY <1>2, <2>1
  <2>2. CASE uploads' = [uploads EXCEPT ![u].committing = FALSE]
    <3> DEFINE v == [uploads[u] EXCEPT !.committing = FALSE]
    <3>1. v \in Upload /\ v.files = uploads[u].files /\ v.missing = uploads[u].missing /\ v.status = uploads[u].status
      BY <1>2 DEF Upload
    <3>2. uploads' = [uploads EXCEPT ![u] = v]
      BY <1>2, <2>2
    <3> HIDE DEF v
    <3>3. QED
      BY <1>2, <3>1, <3>2, StatusFacts
  <2>3. QED
    BY <1>1, <2>1, <2>2
<1>4. /\ commit' \in [Uploads -> CommitCall]
      /\ \A w \in Uploads \ {u} : commit'[w] = commit[w]
      /\ commit'[u].pc = "idle" \/ (commit'[u].pc = "checking" /\ commit'[u].left = commit[u].left \ {d} /\ d \in blobs)
  <2>1. NoCommit \in CommitCall /\ NoCommit.pc = "idle"
    BY DEF NoCommit, CommitCall
  <2>2. CASE commit' = [commit EXCEPT ![u] = NoCommit]
    BY <1>2, <2>1, <2>2
  <2>3. CASE d \in blobs /\ commit' = [commit EXCEPT ![u].left = @ \ {d}]
    BY <1>1, <1>2, <2>3 DEF CommitCall
  <2>4. QED
    BY <1>1, <2>2, <2>3
<1>5. Uploaded
  BY <1>1, <1>3 DEF Uploaded, StoredInv, AcknowledgedKept, Open
<1>6. Committing
  BY <1>1, <1>3, <1>4 DEF Committing, StoredInv, Planned, Checked, Open
<1>7. BlobTypeOK'
  BY <1>1, <1>2, <1>3, <1>4 DEF BlobTypeOK
<1>8. QED
  BY <1>1, <1>2, <1>5, <1>6, <1>7, StoredStep DEF BlobTypeOK

(* Steps of the queue: rows, pins and the last part of a commit request.   *)
LEMMA QueueStored ==
    ASSUME StoredInv, UNCHANGED <<clock, blobs, mtime, puts, snapshots, sweep, restarts>>,
           commit' \in [Uploads -> CommitCall], rows' \subseteq Holders, pins' \subseteq Holders,
           \A u \in Uploads : commit'[u] = commit[u] \/ (commit[u].pc # "idle" /\ commit'[u].pc # "checking"),
           uploads' = uploads \/ (\E u \in Open : uploads' = [uploads EXCEPT ![u].status = "consumed"]),
           \A h \in rows' \cup pins' : h \in rows \cup pins \/ uploads[h[1]].status # "unused",
           admission' = admission \/ (admission # "cleanup" /\ admission' \in {"free"} \cup Open),
           boot' \in {"up", "sweep", "recover"}
    PROVE  StoredInv'
<1>1. BlobTypeOK
  BY DEF StoredInv
<1>2. /\ uploads' \in [Uploads -> Upload]
      /\ \A w \in Uploads : /\ uploads'[w].files = uploads[w].files /\ uploads'[w].missing = uploads[w].missing
                            /\ uploads'[w].status = uploads[w].status \/
                               (uploads[w].status = "open" /\ uploads'[w].status = "consumed")
  <2>1. CASE uploads' = uploads
    BY <1>1, <2>1 DEF BlobTypeOK
  <2>2. ASSUME NEW u \in Open, uploads' = [uploads EXCEPT ![u].status = "consumed"]
        PROVE  <1>2!1 /\ <1>2!2
    <3>1. u \in Uploads /\ uploads[u].status = "open"
      BY DEF Open
    <3>2. QED
      BY <1>1, <2>2, <3>1 DEF BlobTypeOK, Upload
  <2>3. QED
    BY <2>1, <2>2
<1>3. Uploaded
  BY <1>2 DEF Uploaded, StoredInv, AcknowledgedKept, Open
<1>4. Committing
  BY <1>2 DEF Committing, StoredInv, Planned, Checked, Open
<1>5. admission' \in {"free", "cleanup"} \cup Uploads /\ (admission' = "cleanup" <=> sweep["collect"].pc # "idle")
  BY <1>1, BlobStoreAssumption DEF BlobTypeOK, Open
<1>6. BlobTypeOK'
  BY <1>1, <1>2, <1>5 DEF BlobTypeOK
<1>7. \A h \in rows' \cup pins' : h \in rows \cup pins \/ uploads'[h[1]].status # "unused"
  BY <1>2 DEF Holders
<1>8. admission' \in Uploads => admission' = admission \/ uploads'[admission'].status # "unused"
  BY <1>2, BlobStoreAssumption DEF Open
<1>9. QED
  BY <1>1, <1>3, <1>4, <1>6, <1>7, <1>8, StoredStep DEF BlobTypeOK

(* A row or a pin is only added for an upload that Plan has filled in. *)
LEMMA HolderAdded ==
    ASSUME StoredInv, NEW u \in Uploads, uploads[u].status # "unused", NEW k \in {"commit", "revision"},
           rows' \subseteq rows \cup {<<u, k>>}, pins' \subseteq pins \cup {<<u, k>>}
    PROVE  /\ rows' \subseteq Holders /\ pins' \subseteq Holders
           /\ \A h \in rows' \cup pins' : h \in rows \cup pins \/ uploads[h[1]].status # "unused"
<1> DEFINE g == <<u, k>>
<1>1. g \in Holders /\ g[1] = u
  BY DEF Holders
<1>2. rows' \subseteq rows \cup {g} /\ pins' \subseteq pins \cup {g}
  OBVIOUS
<1> HIDE DEF g
<1>3. uploads[g[1]].status # "unused" /\ rows \subseteq Holders /\ pins \subseteq Holders
  BY <1>1 DEF StoredInv, BlobTypeOK
<1>4. QED
  BY <1>1, <1>2, <1>3

(* The queue changes rows and pins, never a blob. *)
LEMMA QueueStepsStored ==
    ASSUME StoredInv,
           \/ \E u \in Uploads : EnqueuePin(u) \/ EnqueueRefused(u) \/ \E o \in {"ok", "lost"} : EnqueueRow(u, o)
           \/ \E u \in Uploads : PrepareUpload(u) \/ \E o \in {"ok", "refused", "lost", "stuck"} : AdmitRevision(u, o)
           \/ \E h \in Holders : EndJob(h) \/ Unpin(h)
           \/ \E R \in SUBSET rows : \E P \in SUBSET R : Recover(P, R)
    PROVE  StoredInv'
<1>1. /\ commit \in [Uploads -> CommitCall] /\ rows \subseteq Holders /\ pins \subseteq Holders
      /\ boot \in {"up", "sweep", "recover"} /\ admission \in {"free", "cleanup"} \cup Uploads
      /\ Open \subseteq Uploads /\ \A u \in Open : uploads[u].status # "unused"
  BY DEF StoredInv, BlobTypeOK, Open
<1>2. NoCommit \in CommitCall /\ NoCommit.pc = "idle" /\ \A u \in Uploads : <<u, "commit">> \in Holders /\ <<u, "revision">> \in Holders
  BY DEF NoCommit, CommitCall, Holders
<1>3. ASSUME NEW u \in Uploads, EnqueuePin(u) PROVE StoredInv'
  <2>1. /\ UNCHANGED <<clock, blobs, mtime, uploads, puts, snapshots, sweep, restarts, rows, admission, boot>>
        /\ commit[u].pc = "saved" /\ commit' = [commit EXCEPT ![u].pc = "pinned"] /\ pins' = pins \cup {<<u, "commit">>}
    BY <1>3 DEF EnqueuePin, storeVars, bootVars
  <2>2. /\ commit' \in [Uploads -> CommitCall]
        /\ \A w \in Uploads : commit'[w] = commit[w] \/ (commit[w].pc # "idle" /\ commit'[w].pc # "checking")
    BY <1>1, <2>1 DEF CommitCall
  <2>3. uploads[u].status # "unused"
    BY <2>1 DEF StoredInv, Planned
  <2>4. /\ rows' \subseteq Holders /\ pins' \subseteq Holders
        /\ \A h \in rows' \cup pins' : h \in rows \cup pins \/ uploads[h[1]].status # "unused"
    BY <2>1, <2>3, HolderAdded
  <2>5. QED
    BY <1>1, <2>1, <2>2, <2>4, QueueStored
<1>4. ASSUME NEW u \in Uploads, EnqueueRefused(u) \/ \E o \in {"ok", "lost"} : EnqueueRow(u, o) PROVE StoredInv'
  <2>1. /\ UNCHANGED <<clock, blobs, mtime, uploads, puts, snapshots, sweep, restarts, admission, boot>>
        /\ commit[u].pc \in {"saved", "pinned"} /\ commit' = [commit EXCEPT ![u] = NoCommit]
        /\ rows' \subseteq rows \cup {<<u, "commit">>} /\ pins' \subseteq pins
    BY <1>4 DEF EnqueueRefused, EnqueueRow, storeVars, bootVars
  <2>2. /\ commit' \in [Uploads -> CommitCall]
        /\ \A w \in Uploads : commit'[w] = commit[w] \/ (commit[w].pc # "idle" /\ commit'[w].pc # "checking")
    BY <1>1, <1>2, <2>1
  <2>3. uploads[u].status # "unused"
    BY <2>1 DEF StoredInv, Planned
  <2>4. /\ rows' \subseteq Holders /\ pins' \subseteq Holders
        /\ \A h \in rows' \cup pins' : h \in rows \cup pins \/ uploads[h[1]].status # "unused"
    BY <2>1, <2>3, HolderAdded
  <2>5. QED
    BY <1>1, <2>1, <2>2, <2>4, QueueStored
<1>5. ASSUME NEW u \in Uploads, PrepareUpload(u) PROVE StoredInv'
  <2>1. /\ UNCHANGED <<clock, blobs, mtime, uploads, puts, snapshots, sweep, restarts, commit, rows, boot>>
        /\ u \in Open /\ admission = "free" /\ admission' = u /\ pins' = pins \cup {<<u, "revision">>}
    BY <1>5 DEF PrepareUpload, storeVars, bootVars
  <2>2. /\ rows' \subseteq Holders /\ pins' \subseteq Holders
        /\ \A h \in rows' \cup pins' : h \in rows \cup pins \/ uploads[h[1]].status # "unused"
    BY <1>1, <2>1, HolderAdded
  <2>3. admission # "cleanup" /\ admission' \in {"free"} \cup Open
    BY <2>1
  <2>4. QED
    BY <1>1, <2>1, <2>2, <2>3, QueueStored
<1>6. ASSUME NEW u \in Uploads, NEW o \in {"ok", "refused", "lost", "stuck"}, AdmitRevision(u, o) PROVE StoredInv'
  <2>1. /\ UNCHANGED <<clock, blobs, mtime, puts, snapshots, sweep, restarts, commit, boot>>
        /\ admission = u /\ admission' = "free" /\ pins' \subseteq pins /\ rows' \subseteq rows \cup {<<u, "revision">>}
        /\ uploads' = uploads \/ (u \in Open /\ uploads' = [uploads EXCEPT ![u].status = "consumed"])
    BY <1>6 DEF AdmitRevision, storeVars, bootVars
  <2>2. uploads[u].status # "unused" /\ admission # "cleanup"
    BY <2>1, BlobStoreAssumption DEF StoredInv, Planned
  <2>3. /\ rows' \subseteq Holders /\ pins' \subseteq Holders
        /\ \A h \in rows' \cup pins' : h \in rows \cup pins \/ uploads[h[1]].status # "unused"
    BY <2>1, <2>2, HolderAdded
  <2>4. uploads' = uploads \/ \E w \in Open : uploads' = [uploads EXCEPT ![w].status = "consumed"]
    BY <2>1
  <2>5. QED
    BY <1>1, <2>1, <2>2, <2>3, <2>4, QueueStored
<1>7. ASSUME NEW h \in Holders, EndJob(h) \/ Unpin(h) PROVE StoredInv'
  <2>1. /\ UNCHANGED <<clock, blobs, mtime, uploads, puts, snapshots, sweep, restarts, commit, admission, boot>>
        /\ rows' \subseteq rows /\ pins' \subseteq pins
    BY <1>7 DEF EndJob, Unpin, storeVars, bootVars
  <2>2. QED
    BY <1>1, <2>1, QueueStored
<1>8. ASSUME NEW R \in SUBSET rows, NEW P \in SUBSET R, Recover(P, R) PROVE StoredInv'
  <2>1. /\ UNCHANGED <<clock, blobs, mtime, uploads, puts, snapshots, sweep, restarts, commit, admission>>
        /\ rows' = R /\ pins' = P /\ boot' = "up"
    BY <1>8 DEF Recover, storeVars
  <2>2. QED
    BY <1>1, <2>1, QueueStored
<1>9. QED
  BY <1>3, <1>4, <1>5, <1>6, <1>7, <1>8

(* Time, failed writes and stuttering. *)
LEMMA TickStored ==
    ASSUME StoredInv, Tick \/ (\E b \in puts : FailPut(b)) \/ UNCHANGED vars
    PROVE  StoredInv'
<1>1. /\ UNCHANGED <<blobs, mtime, uploads, commit, snapshots, pins, rows, admission, sweep, boot, restarts>>
      /\ puts' \subseteq puts /\ clock' \in {clock, clock + 1}
  BY DEF Tick, FailPut, vars, storeVars, queueVars, bootVars
<1>2. BlobTypeOK /\ clock' >= clock /\ clock' \in Nat
  BY <1>1 DEF StoredInv, BlobTypeOK
<1>3. BlobTypeOK'
  BY <1>1, <1>2 DEF BlobTypeOK
<1>4. Uploaded /\ Committing
  BY <1>1, SameUploads, SameCommits
<1>5. QED
  BY <1>1, <1>2, <1>3, <1>4, StoredStep

-----------------------------------------------------------------------------
(* Saving a snapshot. *)

(* What saving a snapshot does, whatever the database answers. *)
LEMMA CommitSaveFacts ==
    ASSUME StoredInv, NEW u \in Uploads, NEW o \in {"ok", "fail", "lost"}, CommitSave(u, o)
    PROVE  /\ uploads' \in [Uploads -> Upload] /\ commit' \in [Uploads -> CommitCall] /\ snapshots' \in [Projects -> Snapshot]
           /\ \A w \in Uploads : /\ uploads'[w].files = uploads[w].files /\ uploads'[w].missing = uploads[w].missing
                                 /\ uploads'[w].status = IF w = u /\ o = "ok" /\ u \in Open THEN "committed" ELSE uploads[w].status
           /\ \A w \in Uploads \ {u} : commit'[w] = commit[w]
           /\ commit'[u].pc = IF o = "ok" THEN "saved" ELSE "idle"
           /\ \A p \in Projects : snapshots'[p] = snapshots[p] \/ snapshots'[p].upload = u
<1>1. /\ snapshots' = IF o = "fail" THEN snapshots ELSE SavedSnapshot(u)
      /\ commit' = [commit EXCEPT ![u] = IF o = "ok" THEN [NoCommit EXCEPT !.pc = "saved"] ELSE NoCommit]
      /\ uploads' = [uploads EXCEPT ![u].status = IF o = "ok" /\ u \in Open THEN "committed" ELSE @,
                                    ![u].committing = FALSE]
  BY DEF CommitSave
<1>2. /\ BlobTypeOK /\ uploads \in [Uploads -> Upload] /\ commit \in [Uploads -> CommitCall]
      /\ snapshots \in [Projects -> Snapshot] /\ clock \in Nat
  BY DEF StoredInv, BlobTypeOK
<1>3. /\ uploads' \in [Uploads -> Upload]
      /\ \A w \in Uploads : /\ uploads'[w].files = uploads[w].files /\ uploads'[w].missing = uploads[w].missing
                            /\ uploads'[w].status = IF w = u /\ o = "ok" /\ u \in Open THEN "committed" ELSE uploads[w].status
  <2> DEFINE s == IF o = "ok" /\ u \in Open THEN "committed" ELSE uploads[u].status
             b == [uploads[u] EXCEPT !.status = s]
             v == [b EXCEPT !.committing = FALSE]
  <2>1. uploads[u] \in Upload /\ s \in {"unused", "open", "committed", "consumed", "dropped"}
    BY <1>2 DEF Upload
  <2>2. uploads' = [uploads EXCEPT ![u] = v]
    BY <1>1, <1>2
  <2> HIDE DEF s
  <2>3. b \in Upload /\ b.files = uploads[u].files /\ b.missing = uploads[u].missing /\ b.status = s
    BY <2>1 DEF Upload
  <2> HIDE DEF b
  <2>4. v \in Upload /\ v.files = b.files /\ v.missing = b.missing /\ v.status = b.status
    BY <2>3 DEF Upload
  <2> HIDE DEF v
  <2>5. v.files = uploads[u].files /\ v.missing = uploads[u].missing /\ v.status = s
    BY <2>3, <2>4
  <2>6. /\ uploads' \in [Uploads -> Upload]
        /\ \A w \in Uploads : /\ uploads'[w].files = uploads[w].files /\ uploads'[w].missing = uploads[w].missing
                              /\ uploads'[w].status = IF w = u THEN v.status ELSE uploads[w].status
    BY <1>2, <2>2, <2>4, <2>5, StatusFacts
  <2>7. QED
    BY <2>5, <2>6 DEF s
<1>4. /\ commit' \in [Uploads -> CommitCall] /\ \A w \in Uploads \ {u} : commit'[w] = commit[w]
      /\ commit'[u].pc = IF o = "ok" THEN "saved" ELSE "idle"
  <2> DEFINE n == IF o = "ok" THEN [NoCommit EXCEPT !.pc = "saved"] ELSE NoCommit
  <2>1. n \in CommitCall /\ n.pc = IF o = "ok" THEN "saved" ELSE "idle"
    BY DEF NoCommit, CommitCall
  <2>2. commit' = [commit EXCEPT ![u] = n]
    BY <1>1
  <2> HIDE DEF n
  <2>3. QED
    BY <1>2, <2>1, <2>2
<1>5. /\ snapshots' \in [Projects -> Snapshot]
      /\ \A p \in Projects : snapshots'[p] = snapshots[p] \/ snapshots'[p].upload = u
  <2> DEFINE n == [upload |-> u, updated |-> clock]
  <2>1. n \in Snapshot /\ n.upload = u /\ uploads[u].project \in Projects
    BY <1>2 DEF Snapshot, Upload
  <2>2. snapshots' = snapshots \/ snapshots' = [snapshots EXCEPT ![uploads[u].project] = n]
    BY <1>1 DEF SavedSnapshot
  <2> HIDE DEF n
  <2>3. QED
    BY <1>2, <2>1, <2>2
<1>6. QED
  BY <1>3, <1>4, <1>5

(* A snapshot is saved only with all its blobs checked under snapshotMu. *)
LEMMA CommitSaveStored ==
    ASSUME StoredInv, NEW u \in Uploads, NEW o \in {"ok", "fail", "lost"}, CommitSave(u, o)
    PROVE  StoredInv'
<1>1. /\ commit[u].pc = "checking" /\ commit[u].left = {} /\ SnapshotMuFree
      /\ UNCHANGED <<clock, blobs, mtime, puts, pins, rows, admission, sweep, boot, restarts>>
  BY DEF CommitSave, storeVars, queueVars, bootVars
<1>2. /\ uploads' \in [Uploads -> Upload] /\ commit' \in [Uploads -> CommitCall] /\ snapshots' \in [Projects -> Snapshot]
      /\ \A w \in Uploads : /\ uploads'[w].files = uploads[w].files /\ uploads'[w].missing = uploads[w].missing
                            /\ uploads'[w].status = IF w = u /\ o = "ok" /\ u \in Open THEN "committed" ELSE uploads[w].status
      /\ \A w \in Uploads \ {u} : commit'[w] = commit[w]
      /\ commit'[u].pc = IF o = "ok" THEN "saved" ELSE "idle"
      /\ \A p \in Projects : snapshots'[p] = snapshots[p] \/ snapshots'[p].upload = u
  BY CommitSaveFacts
<1>3. BlobTypeOK'
  BY <1>1, <1>2 DEF StoredInv, BlobTypeOK
<1>4. /\ uploads[u].status # "unused" /\ uploads[u].status # "committed"
      /\ uploads[u].status = "open" => uploads[u].files \subseteq blobs
  BY <1>1 DEF StoredInv, Planned, Checked, Open
<1>5. AcknowledgedKept' /\ Checked'
  BY <1>1, <1>2 DEF StoredInv, AcknowledgedKept, Checked, Open
<1>6. \A p \in Current : snapshots[p].upload \in Uploads /\ uploads[snapshots[p].upload].status # "unused"
  BY DEF Current, StoredInv, BlobTypeOK, Planned, Snapshot
<1>7. \A p \in Current' : snapshots'[p].upload = u \/ (p \in Current /\ snapshots'[p] = snapshots[p] /\ snapshots[p].upload # u)
  BY <1>2 DEF Current
<1>8. CommittedComplete'
  <2>1. uploads'[u].status = "committed" => uploads'[u].files \subseteq blobs'
    BY <1>1, <1>2, <1>4 DEF Open
  <2>2. \A w \in Uploads \ {u} : uploads'[w].status = uploads[w].status
    BY <1>2
  <2>3. QED
    BY <1>1, <1>2, <1>6, <1>7, <2>1, <2>2 DEF StoredInv, CommittedComplete
<1>9. Planned'
  <2>1. \A w \in Uploads : uploads[w].status # "unused" => uploads'[w].status # "unused"
    BY <1>2
  <2>2. \A h \in rows \cup pins : h[1] \in Uploads /\ uploads[h[1]].status # "unused"
    BY DEF StoredInv, Planned, BlobTypeOK, Holders
  <2>3. \A w \in Uploads : commit'[w].pc # "idle" => uploads[w].status # "unused"
    BY <1>1, <1>2, <1>4 DEF StoredInv, Planned
  <2>4. admission \in Uploads => uploads[admission].status # "unused"
    BY DEF StoredInv, Planned
  <2>5. QED
    BY <1>1, <1>4, <1>6, <1>7, <2>1, <2>2, <2>3, <2>4 DEF Planned
<1>10. SnapshotsSeen' /\ SweepTimes'
  BY <1>1 DEF SnapshotsSeen, SnapshotMuFree, SweepTimes, StoredInv
<1>11. QED
  BY <1>3, <1>5, <1>8, <1>9, <1>10 DEF StoredInv

-----------------------------------------------------------------------------
(* The collectors and a restart. *)

(* Uploads only leave the map, and no upload is saved or filled in. *)
Leaving ==
    \A u \in Uploads : /\ uploads'[u].files = uploads[u].files /\ uploads'[u].missing = uploads[u].missing
                       /\ uploads'[u].status = uploads[u].status \/
                          (uploads[u].status = "open" /\ uploads'[u].status = "dropped")

(* A step of a collector, from what it may take away. *)
LEMMA CollectorStored ==
    ASSUME StoredInv, BlobTypeOK', Leaving, clock' = clock,
           \A u \in Uploads : commit'[u] = commit[u] \/ commit'[u].pc = "idle",
           rows' \cup pins' \subseteq rows \cup pins, admission' = admission \/ admission' \notin Uploads,
           \A p \in Projects : snapshots'[p] = snapshots[p] \/ snapshots'[p].upload = NoUpload,
           \A u \in Uploads : uploads'[u].status = "open" => uploads[u].files \cap blobs \subseteq blobs',
           \A p \in Current' : uploads[snapshots[p].upload].files \cap blobs \subseteq blobs',
           SnapshotsSeen', SweepTimes'
    PROVE  StoredInv'
<1>1. AcknowledgedKept' /\ Checked'
  BY DEF StoredInv, AcknowledgedKept, Checked, Open, Leaving
<1>2. \A p \in Current' : /\ p \in Current /\ snapshots'[p] = snapshots[p] /\ snapshots[p].upload \in Uploads
                          /\ uploads[snapshots[p].upload].status # "unused"
  BY DEF Current, StoredInv, BlobTypeOK, Snapshot, Planned
<1>3. CommittedComplete'
  BY <1>2 DEF StoredInv, CommittedComplete, Leaving
<1>4. Planned'
  <2>1. \A h \in rows \cup pins : h[1] \in Uploads /\ uploads[h[1]].status # "unused"
    BY DEF StoredInv, Planned, BlobTypeOK, Holders
  <2>2. \A u \in Uploads : commit'[u].pc # "idle" => uploads[u].status # "unused"
    BY DEF StoredInv, Planned
  <2>3. admission \in Uploads => uploads[admission].status # "unused"
    BY DEF StoredInv, Planned
  <2>4. \A u \in Uploads : uploads[u].status # "unused" => uploads'[u].status # "unused"
    BY DEF Leaving
  <2>5. QED
    BY <1>2, <2>1, <2>2, <2>3, <2>4 DEF Planned
<1>5. QED
  BY <1>1, <1>3, <1>4 DEF StoredInv

(* Uploads that leave the map do not change what snapshots refer to. *)
LEMMA SameSnapshotRefs ==
    ASSUME BlobTypeOK, Leaving, snapshots' = snapshots
    PROVE  SnapshotRefs(snapshots)' = SnapshotRefs(snapshots)
<1>1. \A p \in Projects : snapshots[p].upload # NoUpload => snapshots[p].upload \in Uploads
  BY DEF BlobTypeOK, Snapshot
<1>2. \A p \in Projects : snapshots[p].upload # NoUpload => uploads'[snapshots[p].upload].files = uploads[snapshots[p].upload].files
  BY <1>1 DEF Leaving
<1>3. QED
  BY <1>2 DEF SnapshotRefs

(* A blob of a current snapshot is among the snapshots' references. *)
LEMMA SnapshotRefsContain ==
    ASSUME NEW p \in Current
    PROVE  uploads[snapshots[p].upload].files \subseteq SnapshotRefs(snapshots)
BY DEF Current, SnapshotRefs

(* Dropping expired uploads only closes them. *)
LEMMA DropLeaves ==
    ASSUME BlobTypeOK, NEW now, uploads' = uploads \/ uploads' = DropExpired(now)
    PROVE  Leaving /\ uploads' \in [Uploads -> Upload]
<1>1. CASE uploads' = uploads
  BY <1>1 DEF Leaving, BlobTypeOK
<1>2. CASE uploads' = DropExpired(now)
  BY <1>2, DropFacts DEF Leaving, Open
<1>3. QED
  BY <1>1, <1>2

(* Project cleanup deletes the snapshot and begins to collect. *)
LEMMA CleanupStored ==
    ASSUME StoredInv, NEW p \in Projects, CleanupProject(p)
    PROVE  StoredInv'
<1>1. /\ SnapshotMuFree /\ admission = "free" /\ admission' = "cleanup" /\ snapshots' = [snapshots EXCEPT ![p] = NoCurrent]
      /\ sweep' = [sweep EXCEPT !["collect"].pc = "begin"]
      /\ UNCHANGED <<clock, blobs, mtime, uploads, puts, commit, pins, rows, boot, restarts>>
  BY DEF CleanupProject, DeleteSnapshot, storeVars, bootVars
<1>2. /\ BlobTypeOK /\ sweep \in [Collectors -> Sweep] /\ snapshots \in [Projects -> Snapshot] /\ "collect" \in Collectors
  BY DEF StoredInv, BlobTypeOK, Collectors
<1>3. /\ sweep' \in [Collectors -> Sweep] /\ sweep'["collect"].pc = "begin"
      /\ \A c \in Collectors : sweep'[c].now = sweep[c].now /\ sweep'[c].pc \in {sweep[c].pc, "begin"}
  BY <1>1, <1>2 DEF Sweep
<1>4. /\ snapshots' \in [Projects -> Snapshot]
      /\ \A r \in Projects : snapshots'[r] = snapshots[r] \/ snapshots'[r].upload = NoUpload
  <2>1. NoCurrent \in Snapshot /\ NoCurrent.upload = NoUpload
    BY DEF NoCurrent, Snapshot
  <2>2. QED
    BY <1>1, <1>2, <2>1
<1>5. BlobTypeOK'
  BY <1>1, <1>2, <1>3, <1>4 DEF BlobTypeOK
<1>6. SnapshotsSeen' /\ SweepTimes'
  BY <1>1, <1>3 DEF SnapshotsSeen, SnapshotMuFree, SweepTimes, StoredInv
<1>7. Leaving
  BY <1>1 DEF Leaving
<1>8. admission' \notin Uploads
  BY <1>1, BlobStoreAssumption
<1>9. QED
  BY <1>1, <1>4, <1>5, <1>6, <1>7, <1>8, CollectorStored

(* A collector's record changes; the other one's does not. *)
LEMMA BeginSweepStored ==
    ASSUME StoredInv, NEW c \in Collectors, BeginSweep(c)
    PROVE  StoredInv'
<1> DEFINE new == [pc |-> "snapshots", now |-> clock, refs |-> HeldRefs(c, clock)]
<1>1. /\ sweep' = [sweep EXCEPT ![c] = new] /\ (uploads' = uploads \/ uploads' = DropExpired(clock))
      /\ c = "collect" => sweep[c].pc = "begin"
      /\ UNCHANGED <<clock, blobs, mtime, puts, commit, snapshots, pins, rows, admission, boot, restarts>>
  BY DEF BeginSweep, storeVars, queueVars, bootVars
<1>2. BlobTypeOK /\ clock \in Nat /\ sweep \in [Collectors -> Sweep]
  BY DEF StoredInv, BlobTypeOK
<1>3. HeldRefs(c, clock) \subseteq Digests
  <2>1. \A u \in Uploads : uploads[u].files \subseteq Digests
    BY <1>2 DEF BlobTypeOK, Upload
  <2>2. Kept(c, clock) \subseteq Uploads
    BY DEF Kept, Open
  <2>3. \A h \in pins : h[1] \in Uploads
    BY <1>2 DEF BlobTypeOK, Holders
  <2>4. QED
    BY <2>1, <2>2, <2>3 DEF HeldRefs, UploadRefs, FilesOf
<1>4. new \in Sweep /\ new.pc = "snapshots" /\ new.now = clock
  BY <1>2, <1>3 DEF Sweep
<1> HIDE DEF new
<1>5. sweep' \in [Collectors -> Sweep] /\ \A e \in Collectors : sweep'[e] = IF e = c THEN new ELSE sweep[e]
  BY <1>1, <1>2, <1>4
<1>6. Leaving /\ uploads' \in [Uploads -> Upload]
  BY <1>1, <1>2, DropLeaves
<1>7. sweep'["collect"].pc # "idle" <=> sweep["collect"].pc # "idle"
  BY <1>1, <1>4, <1>5 DEF Collectors
<1>8. BlobTypeOK'
  BY <1>1, <1>2, <1>5, <1>6, <1>7 DEF BlobTypeOK
<1>9. SnapshotsSeen'
  BY <1>1, <1>2, <1>4, <1>5, <1>6, SameSnapshotRefs DEF SnapshotsSeen, StoredInv
<1>10. SweepTimes'
  BY <1>1, <1>2, <1>4, <1>5 DEF SweepTimes, StoredInv
<1>11. QED
  BY <1>1, <1>6, <1>8, <1>9, <1>10, CollectorStored

(* A collector reads the snapshots. *)
LEMMA SweepSnapshotsStored ==
    ASSUME StoredInv, NEW c \in Collectors, SweepSnapshots(c)
    PROVE  StoredInv'
<1> DEFINE R == Retained(c)
<1>1. /\ sweep[c].pc = "snapshots" /\ SnapshotMuFree /\ snapshots' = R
      /\ sweep' = [sweep EXCEPT ![c].pc = IF Durable THEN "rows" ELSE "remove", ![c].refs = @ \cup SnapshotRefs(R)]
      /\ UNCHANGED <<clock, blobs, mtime, uploads, puts, commit, pins, rows, admission, boot, restarts>>
  BY DEF SweepSnapshots, storeVars, queueVars, bootVars
<1>2. BlobTypeOK /\ sweep \in [Collectors -> Sweep] /\ snapshots \in [Projects -> Snapshot]
  BY DEF StoredInv, BlobTypeOK
<1>3. R \in [Projects -> Snapshot] /\ \A p \in Projects : R[p] = snapshots[p] \/ R[p].upload = NoUpload
  <2>1. NoCurrent \in Snapshot /\ NoCurrent.upload = NoUpload
    BY DEF NoCurrent, Snapshot
  <2>2. QED
    BY <1>2, <2>1 DEF Retained
<1> HIDE DEF R
<1>4. SnapshotRefs(R) \subseteq Digests
  <2>1. \A p \in Projects : R[p].upload # NoUpload => R[p].upload \in Uploads
    BY <1>3 DEF Snapshot
  <2>2. \A u \in Uploads : uploads[u].files \subseteq Digests
    BY <1>2 DEF BlobTypeOK, Upload
  <2>3. QED
    BY <2>1, <2>2 DEF SnapshotRefs
<1>5. /\ sweep' \in [Collectors -> Sweep] /\ \A e \in Collectors \ {c} : sweep'[e] = sweep[e]
      /\ sweep'[c].pc \in {"rows", "remove"} /\ sweep'[c].now = sweep[c].now /\ sweep'[c].refs = sweep[c].refs \cup SnapshotRefs(R)
  <2> DEFINE n == IF Durable THEN "rows" ELSE "remove"
             m == sweep[c].refs \cup SnapshotRefs(R)
             v == [sweep[c] EXCEPT !.pc = n, !.refs = m]
  <2>1. n \in {"rows", "remove"} /\ m \subseteq Digests
    BY <1>2, <1>4 DEF Sweep
  <2>2. sweep' = [sweep EXCEPT ![c] = v]
    BY <1>1, <1>2
  <2> HIDE DEF n, m
  <2>3. v \in Sweep /\ v.pc = n /\ v.now = sweep[c].now /\ v.refs = m
    BY <1>2, <2>1 DEF Sweep
  <2> HIDE DEF v
  <2>4. QED
    BY <1>2, <2>1, <2>2, <2>3 DEF m
<1>6. sweep'["collect"].pc # "idle" <=> sweep["collect"].pc # "idle"
  BY <1>1, <1>5 DEF Collectors
<1>7. BlobTypeOK'
  BY <1>1, <1>2, <1>3, <1>5, <1>6 DEF BlobTypeOK
<1>8. SnapshotsSeen'
  <2>1. SnapshotRefs(snapshots)' = SnapshotRefs(R)
    BY <1>1 DEF SnapshotRefs
  <2>2. QED
    BY <1>1, <1>5, <2>1 DEF SnapshotsSeen, SnapshotMuFree
<1>9. SweepTimes' /\ Leaving
  BY <1>1, <1>5 DEF SweepTimes, StoredInv, Leaving
<1>10. QED
  BY <1>1, <1>3, <1>7, <1>8, <1>9, CollectorStored

(* A collector reads the rows and pins. *)
LEMMA SweepRowsStored ==
    ASSUME StoredInv, NEW c \in Collectors, SweepRows(c)
    PROVE  StoredInv'
<1>1. /\ sweep[c].pc = "rows" /\ sweep' = [sweep EXCEPT ![c].pc = "remove", ![c].refs = @ \cup RowRefs]
      /\ UNCHANGED <<clock, blobs, mtime, uploads, puts, commit, snapshots, pins, rows, admission, boot, restarts>>
  BY DEF SweepRows, storeVars, queueVars, bootVars
<1>2. BlobTypeOK /\ sweep \in [Collectors -> Sweep]
  BY DEF StoredInv, BlobTypeOK
<1>3. RowRefs \subseteq Digests
  <2>1. \A h \in rows : h[1] \in Uploads
    BY <1>2 DEF BlobTypeOK, Holders
  <2>2. \A u \in Uploads : uploads[u].files \subseteq Digests
    BY <1>2 DEF BlobTypeOK, Upload
  <2>3. QED
    BY <2>1, <2>2 DEF RowRefs, FilesOf
<1>4. /\ sweep' \in [Collectors -> Sweep] /\ \A e \in Collectors \ {c} : sweep'[e] = sweep[e]
      /\ sweep'[c].pc = "remove" /\ sweep'[c].now = sweep[c].now /\ sweep'[c].refs = sweep[c].refs \cup RowRefs
  <2> DEFINE m == sweep[c].refs \cup RowRefs
             v == [sweep[c] EXCEPT !.pc = "remove", !.refs = m]
  <2>1. m \subseteq Digests
    BY <1>2, <1>3 DEF Sweep
  <2>2. sweep' = [sweep EXCEPT ![c] = v]
    BY <1>1, <1>2
  <2> HIDE DEF m
  <2>3. v \in Sweep /\ v.pc = "remove" /\ v.now = sweep[c].now /\ v.refs = m
    BY <1>2, <2>1 DEF Sweep
  <2> HIDE DEF v
  <2>4. QED
    BY <1>2, <2>1, <2>2, <2>3 DEF m
<1>5. sweep'["collect"].pc # "idle" <=> sweep["collect"].pc # "idle"
  BY <1>1, <1>4 DEF Collectors
<1>6. BlobTypeOK'
  BY <1>1, <1>2, <1>4, <1>5 DEF BlobTypeOK
<1>7. Leaving
  BY <1>1 DEF Leaving
<1>8. SnapshotsSeen' /\ SweepTimes'
  BY <1>1, <1>2, <1>4, <1>7, SameSnapshotRefs DEF SnapshotsSeen, StoredInv, SweepTimes
<1>9. QED
  BY <1>1, <1>6, <1>7, <1>8, CollectorStored

(* What the end of a collection resets. *)
LEMMA EndSweepFacts ==
    ASSUME BlobTypeOK, NEW c \in Collectors, sweep[c].pc # "idle", EndSweep(c)
    PROVE  /\ sweep' \in [Collectors -> Sweep] /\ \A e \in Collectors \ {c} : sweep'[e] = sweep[e]
           /\ sweep'[c].pc = "idle" /\ sweep'[c].now = 0
           /\ boot' \in {"up", "sweep", "recover"} /\ admission' \in {"free", "cleanup"} \cup Uploads
           /\ admission' = admission \/ admission' = "free"
           /\ admission' = "cleanup" <=> sweep'["collect"].pc # "idle"
<1>1. /\ sweep' = [sweep EXCEPT ![c] = NoSweep] /\ boot' \in {boot, "recover"}
      /\ admission' = IF c = "collect" THEN "free" ELSE admission
  BY DEF EndSweep
<1>2. NoSweep \in Sweep /\ NoSweep.pc = "idle" /\ NoSweep.now = 0
  BY DEF NoSweep, Sweep
<1>3. /\ sweep \in [Collectors -> Sweep] /\ boot \in {"up", "sweep", "recover"}
      /\ admission \in {"free", "cleanup"} \cup Uploads /\ (admission = "cleanup" <=> sweep["collect"].pc # "idle")
  BY DEF BlobTypeOK
<1>4. /\ sweep' \in [Collectors -> Sweep] /\ \A e \in Collectors \ {c} : sweep'[e] = sweep[e]
      /\ sweep'[c].pc = "idle" /\ sweep'[c].now = 0
  BY <1>1, <1>2, <1>3
<1>5. admission' = "cleanup" <=> sweep'["collect"].pc # "idle"
  BY <1>1, <1>3, <1>4 DEF Collectors
<1>6. QED
  BY <1>1, <1>3, <1>4, <1>5

(* What a collector removes is in no upload that stays, and in no current  *)
(* snapshot.                                                               *)
LEMMA GarbageFacts ==
    ASSUME BlobTypeOK, NEW c \in Collectors
    PROVE  /\ Garbage(c) \subseteq blobs
           /\ \A u \in Open : c = "collect" \/ ~Expired(u, sweep[c].now) => uploads[u].files \cap Garbage(c) = {}
           /\ \A h \in pins : uploads[h[1]].files \cap Garbage(c) = {}
           /\ sweep[c].refs \cap Garbage(c) = {}
<1>1. \A d \in Garbage(c) : d \in blobs /\ d \notin sweep[c].refs /\ d \notin HeldRefs(c, sweep[c].now)
  BY DEF Garbage, FinalRefs
<1>2. \A u \in Open : c = "collect" \/ ~Expired(u, sweep[c].now) => uploads[u].files \subseteq HeldRefs(c, sweep[c].now)
  <2>1. \A u \in Open : c = "collect" \/ ~Expired(u, sweep[c].now) => u \in Kept(c, sweep[c].now)
    BY DEF Kept, Collectors
  <2>2. QED
    BY <2>1 DEF HeldRefs, UploadRefs
<1>3. \A h \in pins : uploads[h[1]].files \subseteq HeldRefs(c, sweep[c].now)
  BY DEF HeldRefs, FilesOf
<1>4. QED
  BY <1>1, <1>2, <1>3

(* A collector removes only what no upload in the map may need. *)
LEMMA SweepRemoveStored ==
    ASSUME StoredInv, NEW c \in Collectors, SweepRemove(c)
    PROVE  StoredInv'
<1>1. /\ sweep[c].pc = "remove" /\ blobs' = blobs \ Garbage(c) /\ EndSweep(c)
      /\ uploads' = IF c = "prune" THEN DropExpired(sweep[c].now) ELSE uploads
      /\ mtime' = [d \in Digests |-> IF d \in Garbage(c) THEN 0 ELSE mtime[d]]
      /\ UNCHANGED <<clock, puts, commit, snapshots, pins, rows, restarts>>
  BY DEF SweepRemove
<1>2. BlobTypeOK
  BY DEF StoredInv
<1>3. Leaving /\ uploads' \in [Uploads -> Upload]
  BY <1>1, <1>2, DropLeaves
<1>4. /\ sweep' \in [Collectors -> Sweep] /\ \A e \in Collectors \ {c} : sweep'[e] = sweep[e]
      /\ sweep'[c].pc = "idle" /\ sweep'[c].now = 0
      /\ boot' \in {"up", "sweep", "recover"} /\ admission' \in {"free", "cleanup"} \cup Uploads
      /\ admission' = admission \/ admission' = "free"
      /\ admission' = "cleanup" <=> sweep'["collect"].pc # "idle"
  BY <1>1, <1>2, EndSweepFacts
<1>5. blobs' \subseteq Digests /\ mtime' \in [Digests -> Nat]
  BY <1>1, <1>2 DEF BlobTypeOK
<1>6. BlobTypeOK'
  BY <1>1, <1>2, <1>3, <1>4, <1>5 DEF BlobTypeOK
<1>7. \A u \in Uploads : uploads'[u].status = "open" => uploads[u].files \cap blobs \subseteq blobs'
  <2>1. \A u \in Uploads : uploads'[u].status = "open" => u \in Open /\ (c = "collect" \/ ~Expired(u, sweep[c].now))
    BY <1>1, <1>2, <1>3, DropFacts DEF Leaving, Open, Collectors
  <2>2. QED
    BY <1>1, <1>2, <2>1, GarbageFacts
<1>8. \A p \in Current' : uploads[snapshots[p].upload].files \cap blobs \subseteq blobs'
  <2>1. \A p \in Current' : uploads[snapshots[p].upload].files \subseteq sweep[c].refs
    BY <1>1, SnapshotRefsContain DEF Current, StoredInv, SnapshotsSeen
  <2>2. QED
    BY <1>1, <1>2, <2>1, GarbageFacts
<1>9. SnapshotsSeen'
  BY <1>1, <1>2, <1>3, <1>4, SameSnapshotRefs DEF SnapshotsSeen, StoredInv
<1>10. SweepTimes'
  BY <1>1, <1>2, <1>4 DEF SweepTimes, StoredInv, BlobTypeOK
<1>11. admission' = admission \/ admission' \notin Uploads
  BY <1>4, BlobStoreAssumption
<1>12. QED
  BY <1>1, <1>3, <1>6, <1>7, <1>8, <1>9, <1>10, <1>11, CollectorStored

(* A collection that fails removes nothing. *)
LEMMA AbortSweepStored ==
    ASSUME StoredInv, NEW c \in Collectors, AbortSweep(c)
    PROVE  StoredInv'
<1>1. /\ sweep[c].pc \in {"snapshots", "rows"} /\ EndSweep(c)
      /\ UNCHANGED <<clock, blobs, mtime, uploads, puts, commit, snapshots, pins, rows, restarts>>
  BY DEF AbortSweep, storeVars
<1>2. BlobTypeOK
  BY DEF StoredInv
<1>3. /\ sweep' \in [Collectors -> Sweep] /\ \A e \in Collectors \ {c} : sweep'[e] = sweep[e]
      /\ sweep'[c].pc = "idle" /\ sweep'[c].now = 0
      /\ boot' \in {"up", "sweep", "recover"} /\ admission' \in {"free", "cleanup"} \cup Uploads
      /\ admission' = admission \/ admission' = "free"
      /\ admission' = "cleanup" <=> sweep'["collect"].pc # "idle"
  BY <1>1, <1>2, EndSweepFacts
<1>4. BlobTypeOK'
  BY <1>1, <1>2, <1>3 DEF BlobTypeOK
<1>5. Leaving
  BY <1>1 DEF Leaving
<1>6. SnapshotsSeen'
  BY <1>1, <1>2, <1>3, <1>5, SameSnapshotRefs DEF SnapshotsSeen, StoredInv
<1>7. SweepTimes'
  BY <1>1, <1>2, <1>3 DEF SweepTimes, StoredInv, BlobTypeOK
<1>8. admission' = admission \/ admission' \notin Uploads
  BY <1>3, BlobStoreAssumption
<1>9. QED
  BY <1>1, <1>4, <1>5, <1>6, <1>7, <1>8, CollectorStored

(* What a restart forgets. *)
LEMMA RestartFacts ==
    ASSUME BlobTypeOK, Restart
    PROVE  /\ uploads' \in [Uploads -> Upload] /\ Leaving /\ \A u \in Uploads : uploads'[u].status # "open"
           /\ commit' \in [Uploads -> CommitCall] /\ \A u \in Uploads : commit'[u].pc = "idle"
           /\ sweep' \in [Collectors -> Sweep] /\ \A c \in Collectors : sweep'[c].pc = "idle" /\ sweep'[c].now = 0
           /\ snapshots' \in [Projects -> Snapshot]
           /\ \A p \in Projects : snapshots'[p] = snapshots[p] \/ snapshots'[p].upload = NoUpload
<1>1. /\ uploads' = [u \in Uploads |-> [uploads[u] EXCEPT
                      !.status = IF @ = "open" THEN "dropped" ELSE @, !.committing = FALSE]]
      /\ commit' = [u \in Uploads |-> NoCommit] /\ sweep' = [c \in Collectors |-> NoSweep]
      /\ snapshots' = IF Durable THEN snapshots ELSE [p \in Projects |-> NoCurrent]
  BY DEF Restart
<1>2. uploads \in [Uploads -> Upload] /\ snapshots \in [Projects -> Snapshot]
  BY DEF BlobTypeOK
<1>3. ASSUME NEW u \in Uploads
      PROVE  /\ uploads'[u] \in Upload /\ uploads'[u].files = uploads[u].files /\ uploads'[u].missing = uploads[u].missing
             /\ uploads'[u].status = IF uploads[u].status = "open" THEN "dropped" ELSE uploads[u].status
  <2> DEFINE s == IF uploads[u].status = "open" THEN "dropped" ELSE uploads[u].status
             b == [uploads[u] EXCEPT !.status = s]
             v == [b EXCEPT !.committing = FALSE]
  <2>1. uploads[u] \in Upload /\ s \in {"unused", "open", "committed", "consumed", "dropped"}
    BY <1>2 DEF Upload
  <2>2. uploads'[u] = v
    BY <1>1
  <2> HIDE DEF s
  <2>3. b \in Upload /\ b.files = uploads[u].files /\ b.missing = uploads[u].missing /\ b.status = s
    BY <2>1 DEF Upload
  <2> HIDE DEF b
  <2>4. v \in Upload /\ v.files = b.files /\ v.missing = b.missing /\ v.status = b.status
    BY <2>3 DEF Upload
  <2> HIDE DEF v
  <2>5. QED
    BY <2>2, <2>3, <2>4 DEF s
<1>4. uploads' \in [Uploads -> Upload]
  <2>1. uploads' = [u \in Uploads |-> uploads'[u]]
    BY <1>1
  <2>2. QED
    BY <1>3, <2>1
<1>5. Leaving /\ \A u \in Uploads : uploads'[u].status # "open"
  BY <1>3 DEF Leaving
<1>6. commit' \in [Uploads -> CommitCall] /\ \A u \in Uploads : commit'[u].pc = "idle"
  <2>1. NoCommit \in CommitCall /\ NoCommit.pc = "idle"
    BY DEF NoCommit, CommitCall
  <2>2. QED
    BY <1>1, <2>1
<1>7. sweep' \in [Collectors -> Sweep] /\ \A c \in Collectors : sweep'[c].pc = "idle" /\ sweep'[c].now = 0
  <2>1. NoSweep \in Sweep /\ NoSweep.pc = "idle" /\ NoSweep.now = 0
    BY DEF NoSweep, Sweep
  <2>2. QED
    BY <1>1, <2>1
<1>8. /\ snapshots' \in [Projects -> Snapshot]
      /\ \A p \in Projects : snapshots'[p] = snapshots[p] \/ snapshots'[p].upload = NoUpload
  <2>1. NoCurrent \in Snapshot /\ NoCurrent.upload = NoUpload
    BY DEF NoCurrent, Snapshot
  <2>2. QED
    BY <1>1, <1>2, <2>1
<1>9. QED
  BY <1>4, <1>5, <1>6, <1>7, <1>8

(* A restart closes the uploads and keeps the disk and the database. *)
LEMMA RestartStored ==
    ASSUME StoredInv, Restart
    PROVE  StoredInv'
<1>1. /\ restarts' = restarts + 1 /\ boot' = "sweep" /\ puts' = {} /\ pins' = {} /\ admission' = "free"
      /\ rows' \subseteq rows /\ UNCHANGED <<clock, blobs, mtime>>
  BY DEF Restart, storeVars
<1>2. BlobTypeOK
  BY DEF StoredInv
<1>3. /\ uploads' \in [Uploads -> Upload] /\ Leaving /\ \A u \in Uploads : uploads'[u].status # "open"
      /\ commit' \in [Uploads -> CommitCall] /\ \A u \in Uploads : commit'[u].pc = "idle"
      /\ sweep' \in [Collectors -> Sweep] /\ \A c \in Collectors : sweep'[c].pc = "idle" /\ sweep'[c].now = 0
      /\ snapshots' \in [Projects -> Snapshot]
      /\ \A p \in Projects : snapshots'[p] = snapshots[p] \/ snapshots'[p].upload = NoUpload
  BY <1>2, RestartFacts
<1>4. BlobTypeOK'
  BY <1>1, <1>2, <1>3 DEF BlobTypeOK, Collectors
<1>5. SnapshotsSeen' /\ SweepTimes'
  BY <1>1, <1>2, <1>3 DEF SnapshotsSeen, SweepTimes, BlobTypeOK
<1>6. admission' \notin Uploads /\ rows' \cup pins' \subseteq rows \cup pins
  BY <1>1, BlobStoreAssumption
<1>7. QED
  BY <1>1, <1>3, <1>4, <1>5, <1>6, CollectorStored

-----------------------------------------------------------------------------
(* The invariant of every execution. *)

(* An empty store. *)
LEMMA InitStored ==
    ASSUME Init
    PROVE  StoredInv
<1>1. Unused \in Upload /\ Unused.status = "unused"
  BY BlobStoreAssumption DEF Unused, Upload
<1>2. NoCommit \in CommitCall /\ NoCommit.pc = "idle"
  BY DEF NoCommit, CommitCall
<1>3. NoCurrent \in Snapshot /\ NoCurrent.upload = NoUpload
  BY DEF NoCurrent, Snapshot
<1>4. NoSweep \in Sweep /\ NoSweep.pc = "idle" /\ NoSweep.now = 0
  BY DEF NoSweep, Sweep
<1>5. BlobTypeOK
  BY <1>1, <1>2, <1>3, <1>4 DEF Init, BlobTypeOK, Collectors
<1>6. Open = {} /\ Current = {}
  BY <1>1, <1>3 DEF Init, Open, Current
<1>7. AcknowledgedKept /\ CommittedComplete
  BY <1>6 DEF AcknowledgedKept, CommittedComplete
<1>8. Planned /\ Checked
  BY <1>2, <1>6, BlobStoreAssumption DEF Init, Planned, Checked
<1>9. SnapshotsSeen /\ SweepTimes
  BY <1>4 DEF Init, SnapshotsSeen, SweepTimes
<1>10. QED
  BY <1>5, <1>7, <1>8, <1>9 DEF StoredInv

(* One case per action. *)
LEMMA NextStored ==
    ASSUME StoredInv, [Next]_vars
    PROVE  StoredInv'
BY PlanStored, TouchStored, BeginPutStored, EndPutStored, CommitBeginStored, CommitCheckStored, CommitSaveStored,
   QueueStepsStored, CleanupStored, BeginSweepStored, SweepSnapshotsStored, SweepRowsStored, SweepRemoveStored,
   AbortSweepStored, TickStored, RestartStored
   DEF Next

(* What is acknowledged is stored, always. *)
LEMMA StoredAlways == Spec => []StoredInv
BY InitStored, NextStored, PTL DEF Spec

(* The source store keeps its types, whatever the database does. *)
THEOREM BlobTypeCorrect == Spec => []BlobTypeOK
<1>1. StoredInv => BlobTypeOK
  BY DEF StoredInv
<1>2. QED
  BY <1>1, StoredAlways, PTL

(* No collector removes a digest Plan or PutBlob has acknowledged for as   *)
(* long as its upload is in the map.                                       *)
THEOREM AcknowledgedAlwaysKept == Spec => []AcknowledgedKept
<1>1. StoredInv => AcknowledgedKept
  BY DEF StoredInv
<1>2. QED
  BY <1>1, StoredAlways, PTL

(* The snapshot of an upload that Commit took from the map is complete     *)
(* until it is replaced or deleted.                                        *)
THEOREM CommittedAlwaysComplete == Spec => []CommittedComplete
<1>1. StoredInv => CommittedComplete
  BY DEF StoredInv
<1>2. QED
  BY <1>1, StoredAlways, PTL

-----------------------------------------------------------------------------
(* What refers to a blob keeps it.  From here on no database call that     *)
(* took effect reports an error: a row whose insert is "lost" has no pin   *)
(* and may appear after a collector has visited the rows.                  *)

NoneLost == "lost" \notin FaultKinds

(* The parts of the invariant about rows, pins and requests in progress. *)
LEMMA ReferredParts ==
    ASSUME ReferredInv
    PROVE  /\ StoredInv /\ BlobTypeOK /\ RevisionSources /\ CommittedOnce /\ Prepared /\ UnpinnedSeen /\ StartsEmpty
           /\ rows \subseteq Holders /\ pins \subseteq Holders
           /\ \A h \in rows \cup pins : h[1] \in Uploads /\ uploads[h[1]].status # "unused"
<1>1. StoredInv /\ RevisionSources /\ CommittedOnce /\ Prepared /\ UnpinnedSeen /\ StartsEmpty
  BY DEF ReferredInv
<1>2. BlobTypeOK /\ Planned
  BY <1>1 DEF StoredInv
<1>3. rows \subseteq Holders /\ pins \subseteq Holders
  BY <1>2 DEF BlobTypeOK
<1>4. QED
  BY <1>1, <1>2, <1>3 DEF Planned, Holders

(* Steps that leave the queue and the collectors alone. *)
LEMMA UploadReferred ==
    ASSUME ReferredInv, StoredInv', UNCHANGED <<rows, pins, admission, sweep, boot>>, blobs \subseteq blobs',
           \A u \in Uploads : /\ uploads[u].status # "unused" => uploads'[u].files = uploads[u].files
                              /\ uploads'[u].status = "open" => uploads[u].status \in {"open", "unused"},
           \A u \in Uploads : \/ commit'[u] = commit[u] \/ commit'[u].pc = "idle"
                              \/ commit'[u].pc = "checking" /\ commit[u].pc = "checking"
                              \/ commit'[u].pc = "checking" /\ boot = "up" /\ u \in Open
                              \/ commit'[u].pc = "saved" /\ commit[u].pc = "checking" /\ uploads'[u].status # "open"
    PROVE  ReferredInv'
<1>1. /\ StoredInv /\ RevisionSources /\ CommittedOnce /\ Prepared /\ UnpinnedSeen /\ StartsEmpty
      /\ \A h \in rows \cup pins : h[1] \in Uploads /\ uploads[h[1]].status # "unused"
  BY ReferredParts
<1>2. RevisionSources'
  BY <1>1 DEF RevisionSources
<1>3. CommittedOnce'
  <2> SUFFICES ASSUME NEW u \in Uploads
               PROVE  /\ <<u, "commit">> \in rows => u \notin Open' /\ commit'[u].pc = "idle"
                      /\ commit'[u].pc \in {"saved", "pinned"} => u \notin Open'
                      /\ commit'[u].pc = "pinned" => <<u, "commit">> \in pins
    BY DEF CommittedOnce
  <2>1. /\ <<u, "commit">> \in rows => u \notin Open /\ commit[u].pc = "idle"
        /\ commit[u].pc \in {"saved", "pinned"} => u \notin Open
        /\ commit[u].pc = "pinned" => <<u, "commit">> \in pins
    BY <1>1 DEF CommittedOnce
  <2>2. commit[u].pc # "idle" => uploads[u].status # "unused"
    BY <1>1 DEF StoredInv, Planned
  <2>3. <<u, "commit">> \in rows => uploads[u].status # "unused"
    <3> DEFINE g == <<u, "commit">>
    <3>1. g[1] = u
      OBVIOUS
    <3> HIDE DEF g
    <3>2. g \in rows => uploads[u].status # "unused"
      BY <1>1, <3>1
    <3>3. QED
      BY <3>2 DEF g
  <2>4. QED
    BY <2>1, <2>2, <2>3 DEF Open
<1>4. Prepared'
  BY <1>1 DEF Prepared
<1>5. UnpinnedSeen'
  BY <1>1 DEF UnpinnedSeen
<1>6. StartsEmpty'
  BY <1>1 DEF StartsEmpty
<1>7. QED
  BY <1>2, <1>3, <1>4, <1>5, <1>6 DEF ReferredInv

(* Uploads and commits add blobs and references together. *)
LEMMA UploadStepsReferred ==
    ASSUME ReferredInv, StoredInv',
           \/ \E u \in Uploads, p \in Projects, F \in SUBSET Digests \ {{}} : Plan(u, p, F)
           \/ \E u \in Uploads : TouchExpired(u) \/ CommitBegin(u)
           \/ \E u \in Uploads, d \in Digests : BeginPut(u, d) \/ CommitCheck(u, d)
           \/ \E b \in puts : EndPut(b) \/ FailPut(b)
           \/ \E u \in Uploads, o \in {"ok", "fail", "lost"} : CommitSave(u, o)
           \/ Tick \/ UNCHANGED vars
    PROVE  ReferredInv' /\ blobs \subseteq blobs'
<1>1. StoredInv /\ BlobTypeOK /\ uploads \in [Uploads -> Upload] /\ commit \in [Uploads -> CommitCall]
  BY ReferredParts DEF BlobTypeOK
<1>2. ASSUME NEW u \in Uploads, NEW p \in Projects, NEW F \in SUBSET Digests, Plan(u, p, F)
      PROVE  ReferredInv' /\ blobs \subseteq blobs'
  <2> DEFINE new == [status |-> "open", project |-> p, files |-> F, missing |-> F \ blobs,
                     expires |-> clock + UploadLifetime, committing |-> FALSE]
  <2>1. /\ uploads' = DropExpired(clock) \/ uploads' = [DropExpired(clock) EXCEPT ![u] = new]
        /\ uploads[u].status = "unused" /\ UNCHANGED <<blobs, commit, pins, rows, admission, sweep, boot>>
    BY <1>2 DEF Plan, storeVars, queueVars, bootVars
  <2> HIDE DEF new
  <2>2. \A w \in Uploads : uploads[w].status # "unused" =>
            uploads'[w].files = uploads[w].files /\ uploads'[w].status \in {uploads[w].status, "dropped"}
    BY <1>1, <2>1, DropFacts
  <2>3. QED
    BY <2>1, <2>2, UploadReferred
<1>3. ASSUME NEW u \in Uploads, TouchExpired(u)
      PROVE  ReferredInv' /\ blobs \subseteq blobs'
  <2>1. /\ u \in Open /\ uploads' = [uploads EXCEPT ![u].status = "dropped"]
        /\ UNCHANGED <<blobs, commit, pins, rows, admission, sweep, boot>>
    BY <1>3 DEF TouchExpired, storeVars, queueVars, bootVars
  <2>2. \A w \in Uploads : uploads'[w].files = uploads[w].files /\ uploads'[w].status \in {uploads[w].status, "dropped"}
    BY <1>1, <2>1 DEF Upload
  <2>3. QED
    BY <2>1, <2>2, UploadReferred
<1>4. ASSUME NEW u \in Uploads, CommitBegin(u)
      PROVE  ReferredInv' /\ blobs \subseteq blobs'
  <2>1. /\ boot = "up" /\ u \in Open /\ uploads' = [uploads EXCEPT ![u].committing = TRUE]
        /\ commit' = [commit EXCEPT ![u] = [pc |-> "checking", left |-> uploads[u].files]]
        /\ UNCHANGED <<blobs, pins, rows, admission, sweep, boot>>
    BY <1>4 DEF CommitBegin, Up, storeVars, queueVars, bootVars
  <2>2. \A w \in Uploads : uploads'[w].files = uploads[w].files /\ uploads'[w].status = uploads[w].status
    BY <1>1, <2>1 DEF Upload
  <2>3. \A w \in Uploads : commit'[w] = commit[w] \/ (w = u /\ commit'[w].pc = "checking")
    BY <1>1, <2>1
  <2>4. QED
    BY <2>1, <2>2, <2>3, UploadReferred
<1>5. ASSUME NEW u \in Uploads, NEW d \in Digests, BeginPut(u, d)
      PROVE  ReferredInv' /\ blobs \subseteq blobs'
  <2>1. /\ uploads' = uploads \/ uploads' = Received(u, d)
        /\ UNCHANGED <<blobs, commit, pins, rows, admission, sweep, boot>>
    BY <1>5 DEF BeginPut, storeVars, queueVars, bootVars
  <2>2. \A w \in Uploads : uploads'[w].files = uploads[w].files /\ uploads'[w].status = uploads[w].status
    <3>1. \A w \in Uploads : Received(u, d)[w].files = uploads[w].files /\ Received(u, d)[w].status = uploads[w].status
      BY <1>1 DEF Received, Upload
    <3>2. QED
      BY <2>1, <3>1
  <2>3. QED
    BY <2>1, <2>2, UploadReferred
<1>6. ASSUME NEW u \in Uploads, NEW d \in Digests, CommitCheck(u, d)
      PROVE  ReferredInv' /\ blobs \subseteq blobs'
  <2>1. /\ commit[u].pc = "checking"
        /\ commit' = [commit EXCEPT ![u].left = @ \ {d}] \/ commit' = [commit EXCEPT ![u] = NoCommit]
        /\ uploads' = uploads \/ uploads' = [uploads EXCEPT ![u].committing = FALSE]
        /\ UNCHANGED <<blobs, pins, rows, admission, sweep, boot>>
    BY <1>6 DEF CommitCheck, storeVars, queueVars, bootVars
  <2>2. \A w \in Uploads : uploads'[w].files = uploads[w].files /\ uploads'[w].status = uploads[w].status
    BY <1>1, <2>1 DEF Upload
  <2>3. \A w \in Uploads : commit'[w] = commit[w] \/ commit'[w].pc = "idle" \/ (commit'[w].pc = "checking" /\ commit[w].pc = "checking")
    BY <1>1, <2>1 DEF CommitCall, NoCommit
  <2>4. QED
    BY <2>1, <2>2, <2>3, UploadReferred
<1>7. ASSUME NEW b \in puts, EndPut(b) \/ FailPut(b)
      PROVE  ReferredInv' /\ blobs \subseteq blobs'
  <2>1. /\ uploads' = uploads \/ uploads' = Received(b.upload, b.digest)
        /\ blobs \subseteq blobs' /\ UNCHANGED <<commit, pins, rows, admission, sweep, boot>>
    BY <1>7 DEF EndPut, FailPut, storeVars, queueVars, bootVars
  <2>2. b.upload \in Uploads
    BY <1>1 DEF BlobTypeOK, Put
  <2>3. \A w \in Uploads : uploads'[w].files = uploads[w].files /\ uploads'[w].status = uploads[w].status
    <3> DEFINE m == Received(b.upload, b.digest)
    <3>1. \A w \in Uploads : m[w].files = uploads[w].files /\ m[w].status = uploads[w].status
      BY <1>1, <2>2 DEF Received, Upload
    <3>2. uploads' = uploads \/ uploads' = m
      BY <2>1
    <3> HIDE DEF m
    <3>3. QED
      BY <3>1, <3>2
  <2>4. QED
    BY <2>1, <2>3, UploadReferred
<1>8. ASSUME NEW u \in Uploads, NEW o \in {"ok", "fail", "lost"}, CommitSave(u, o)
      PROVE  ReferredInv' /\ blobs \subseteq blobs'
  <2>1. commit[u].pc = "checking" /\ UNCHANGED <<blobs, pins, rows, admission, sweep, boot>>
    BY <1>8 DEF CommitSave, storeVars, queueVars, bootVars
  <2>2. /\ \A w \in Uploads : uploads'[w].files = uploads[w].files /\ uploads'[w].status \in {uploads[w].status, "committed"}
        /\ commit'[u].pc = "saved" => uploads'[u].status # "open"
        /\ commit'[u].pc \in {"saved", "idle"} /\ \A w \in Uploads \ {u} : commit'[w] = commit[w]
    BY <1>1, <1>8, CommitSaveFacts DEF Open
  <2>3. QED
    BY <2>1, <2>2, UploadReferred
<1>9. CASE Tick \/ UNCHANGED vars
  <2>1. UNCHANGED <<blobs, uploads, commit, pins, rows, admission, sweep, boot>>
    BY <1>9 DEF Tick, vars, storeVars, queueVars, bootVars
  <2>2. QED
    BY <2>1, UploadReferred
<1>10. QED
  BY <1>2, <1>3, <1>4, <1>5, <1>6, <1>7, <1>8, <1>9

(* Steps of the queue: every row that is left without a pin was so before. *)
LEMMA QueueReferred ==
    ASSUME ReferredInv, StoredInv', UNCHANGED <<blobs, sweep>>,
           \A u \in Uploads : uploads'[u].files = uploads[u].files,
           rows' \subseteq Holders, pins' \subseteq Holders, rows' \ pins' \subseteq rows \ pins,
           \A h \in rows' \cup pins' : h[2] = "revision" => h \in rows \cup pins \/ uploads[h[1]].files \subseteq blobs,
           CommittedOnce', Prepared', StartsEmpty'
    PROVE  ReferredInv'
<1>1. RevisionSources /\ UnpinnedSeen
  BY ReferredParts
<1>2. \A h \in Holders : h[1] \in Uploads
  BY DEF Holders
<1>3. RevisionSources'
  BY <1>1, <1>2 DEF RevisionSources
<1>4. UnpinnedSeen'
  BY <1>1, <1>2 DEF UnpinnedSeen
<1>5. QED
  BY <1>3, <1>4 DEF ReferredInv

(* The request of one upload: the other uploads' rows and pins stay. *)
LEMMA CommittedOnceStep ==
    ASSUME CommittedOnce, NEW u \in Uploads,
           \A w \in Uploads : w \in Open' => w \in Open,
           \A w \in Uploads \ {u} : /\ commit'[w] = commit[w]
                                    /\ <<w, "commit">> \in rows' => <<w, "commit">> \in rows
                                    /\ <<w, "commit">> \in pins => <<w, "commit">> \in pins',
           <<u, "commit">> \in rows' => u \notin Open' /\ commit'[u].pc = "idle",
           commit'[u].pc \in {"saved", "pinned"} => u \notin Open',
           commit'[u].pc = "pinned" => <<u, "commit">> \in pins'
    PROVE  CommittedOnce'
BY DEF CommittedOnce

(* Holders of different kinds or uploads differ. *)
LEMMA Unequal ==
    /\ \A u, w : <<u, "commit">> # <<w, "revision">>
    /\ \A u, w, k : <<u, k>> = <<w, k>> => u = w
    /\ \A u, k : <<u, k>>[1] = u /\ <<u, k>>[2] = k
OBVIOUS

(* Enqueue pins before it writes the row, and unpins only when there is    *)
(* none.                                                                   *)
LEMMA CommitRequestReferred ==
    ASSUME NoneLost, ReferredInv, StoredInv', NEW u \in Uploads,
           EnqueuePin(u) \/ EnqueueRefused(u) \/ \E o \in {"ok", "lost"} : EnqueueRow(u, o)
    PROVE  ReferredInv' /\ blobs \subseteq blobs'
<1> DEFINE g == <<u, "commit">>
<1>1. /\ StoredInv /\ CommittedOnce /\ Prepared /\ StartsEmpty /\ rows \subseteq Holders /\ pins \subseteq Holders
      /\ commit \in [Uploads -> CommitCall]
  BY ReferredParts DEF BlobTypeOK
<1>2. /\ g \in Holders /\ g[2] = "commit" /\ \A w \in Uploads \ {u} : <<w, "commit">> # g
      /\ \A w : <<w, "revision">> # g
  BY Unequal DEF Holders
<1>3. /\ UNCHANGED <<blobs, uploads, sweep, admission, boot>> /\ commit[u].pc \in {"saved", "pinned"}
      /\ \/ rows' = rows /\ pins' = pins \cup {g} /\ commit' = [commit EXCEPT ![u].pc = "pinned"]
         \/ rows' = rows /\ pins' = pins \ {g} /\ commit' = [commit EXCEPT ![u] = NoCommit]
         \/ commit[u].pc = "pinned" /\ rows' = rows \cup {g} /\ pins' = pins /\ commit' = [commit EXCEPT ![u] = NoCommit]
  BY DEF EnqueuePin, EnqueueRefused, EnqueueRow, DbCall, NoneLost, storeVars, bootVars
<1>4. /\ \A w \in Uploads \ {u} : commit'[w] = commit[w]
      /\ \/ rows' = rows /\ pins' = pins \cup {g} /\ commit'[u].pc = "pinned"
         \/ rows' = rows /\ pins' = pins \ {g} /\ commit'[u].pc = "idle"
         \/ commit[u].pc = "pinned" /\ rows' = rows \cup {g} /\ pins' = pins /\ commit'[u].pc = "idle"
  BY <1>1, <1>3 DEF NoCommit, CommitCall
<1>5. u \notin Open /\ g \notin rows /\ (commit[u].pc = "pinned" => g \in pins)
  BY <1>1, <1>3 DEF CommittedOnce
<1>6. boot = "up"
  BY <1>1, <1>3 DEF StartsEmpty
<1>7. Open' = Open
  BY <1>3 DEF Open
<1> HIDE DEF g
<1>8. /\ rows' \subseteq Holders /\ pins' \subseteq Holders /\ rows' \ pins' \subseteq rows \ pins
      /\ \A h \in rows' \cup pins' : h \in rows \cup pins \/ h = g
  BY <1>1, <1>2, <1>4, <1>5
<1>9. CommittedOnce'
  <2>1. \A w \in Uploads \ {u} : /\ <<w, "commit">> \in rows' => <<w, "commit">> \in rows
                                 /\ <<w, "commit">> \in pins => <<w, "commit">> \in pins'
    BY <1>2, <1>4
  <2>2. /\ g \in rows' => u \notin Open' /\ commit'[u].pc = "idle"
        /\ commit'[u].pc \in {"saved", "pinned"} => u \notin Open'
        /\ commit'[u].pc = "pinned" => g \in pins'
    BY <1>4, <1>5, <1>7
  <2>3. QED
    BY <1>1, <1>4, <1>7, <2>1, <2>2, CommittedOnceStep DEF g
<1>10. Prepared'
  BY <1>1, <1>2, <1>3, <1>4 DEF Prepared
<1>11. StartsEmpty'
  BY <1>3, <1>6 DEF StartsEmpty
<1>12. QED
  BY <1>2, <1>3, <1>8, <1>9, <1>10, <1>11, QueueReferred

(* A revision is pinned before its row is written, under admissionMu. *)
LEMMA PrepareReferred ==
    ASSUME ReferredInv, StoredInv', NEW u \in Uploads, PrepareUpload(u)
    PROVE  ReferredInv' /\ blobs \subseteq blobs'
<1> DEFINE g == <<u, "revision">>
<1>1. CommittedOnce /\ StartsEmpty /\ rows \subseteq Holders /\ pins \subseteq Holders
  BY ReferredParts
<1>2. g \in Holders /\ g[1] = u
  BY DEF Holders
<1>3. /\ UNCHANGED <<blobs, uploads, commit, rows, sweep, boot>> /\ boot = "up"
      /\ g \notin rows /\ uploads[u].files \subseteq blobs /\ admission' = u /\ pins' = pins \cup {g}
  BY DEF PrepareUpload, Up, Ready, storeVars, bootVars
<1>4. Open' = Open
  BY <1>3 DEF Open
<1>5. Prepared'
  BY <1>3 DEF Prepared
<1> HIDE DEF g
<1>6. /\ rows' \subseteq Holders /\ pins' \subseteq Holders /\ rows' \ pins' \subseteq rows \ pins
      /\ \A h \in rows' \cup pins' : h \in rows \cup pins \/ uploads[h[1]].files \subseteq blobs
  BY <1>1, <1>2, <1>3
<1>7. CommittedOnce' /\ StartsEmpty'
  BY <1>1, <1>3, <1>4 DEF CommittedOnce, StartsEmpty
<1>8. QED
  BY <1>3, <1>5, <1>6, <1>7, QueueReferred

(* An admitted revision keeps its pin. *)
LEMMA AdmitReferred ==
    ASSUME NoneLost, ReferredInv, StoredInv', NEW u \in Uploads,
           NEW o \in {"ok", "refused", "lost", "stuck"}, AdmitRevision(u, o)
    PROVE  ReferredInv' /\ blobs \subseteq blobs'
<1> DEFINE g == <<u, "revision">>
<1>1. /\ BlobTypeOK /\ CommittedOnce /\ Prepared /\ StartsEmpty /\ rows \subseteq Holders /\ pins \subseteq Holders
      /\ uploads \in [Uploads -> Upload]
  BY ReferredParts DEF BlobTypeOK
<1>2. g \in Holders /\ \A w : <<w, "commit">> # g
  BY Unequal DEF Holders
<1>3. /\ UNCHANGED <<blobs, commit, sweep, boot>> /\ admission = u /\ admission' = "free"
      /\ (rows' = rows /\ pins' = pins \ {g}) \/ (rows' = rows \cup {g} /\ pins' = pins)
      /\ uploads' = uploads \/ uploads' = [uploads EXCEPT ![u].status = "consumed"]
  BY DEF AdmitRevision, DbCall, NoneLost, storeVars, bootVars
<1>4. g \in pins /\ g \notin rows
  BY <1>1, <1>3 DEF Prepared
<1>5. \A w \in Uploads : /\ uploads'[w].files = uploads[w].files
                         /\ uploads'[w].status \in {uploads[w].status, "consumed"}
  BY <1>1, <1>3 DEF Upload
<1>6. \A w \in Uploads : w \in Open' => w \in Open
  BY <1>5 DEF Open
<1> HIDE DEF g
<1>7. /\ rows' \subseteq Holders /\ pins' \subseteq Holders /\ rows' \ pins' \subseteq rows \ pins
      /\ rows' \cup pins' \subseteq rows \cup pins
  BY <1>1, <1>2, <1>3, <1>4
<1>8. CommittedOnce'
  <2>1. \A w \in Uploads : /\ <<w, "commit">> \in rows' => <<w, "commit">> \in rows
                           /\ <<w, "commit">> \in pins => <<w, "commit">> \in pins'
    BY <1>2, <1>3
  <2>2. commit' = commit
    BY <1>3
  <2>3. QED
    BY <1>1, <1>6, <2>1, <2>2 DEF CommittedOnce
<1>9. Prepared'
  BY <1>3, BlobStoreAssumption DEF Prepared
<1>10. StartsEmpty'
  <2>1. boot = "up"
    BY <1>1, <1>4 DEF StartsEmpty
  <2>2. QED
    BY <1>3, <2>1 DEF StartsEmpty
<1>11. QED
  BY <1>3, <1>5, <1>7, <1>8, <1>9, <1>10, QueueReferred

(* Ended jobs and returned pins refer to nothing; recovery keeps a row or  *)
(* drops it.                                                               *)
LEMMA LettingGoReferred ==
    ASSUME ReferredInv, StoredInv',
           \/ \E h \in Holders : EndJob(h) \/ Unpin(h)
           \/ \E R \in SUBSET rows : \E P \in SUBSET R : Recover(P, R)
    PROVE  ReferredInv' /\ blobs \subseteq blobs'
<1>1. CommittedOnce /\ Prepared /\ StartsEmpty /\ rows \subseteq Holders /\ pins \subseteq Holders
  BY ReferredParts
<1>2. ASSUME NEW h \in Holders, EndJob(h)
      PROVE  ReferredInv' /\ blobs \subseteq blobs'
  <2>1. UNCHANGED <<blobs, uploads, commit, pins, admission, sweep, boot>> /\ rows' = rows \ {h}
    BY <1>2 DEF EndJob, storeVars, bootVars
  <2>2. CommittedOnce'
    BY <1>1, <2>1 DEF CommittedOnce, Open
  <2>3. Prepared' /\ StartsEmpty'
    BY <1>1, <2>1 DEF Prepared, StartsEmpty
  <2>4. /\ rows' \subseteq Holders /\ pins' \subseteq Holders /\ rows' \ pins' \subseteq rows \ pins
        /\ rows' \cup pins' \subseteq rows \cup pins
    BY <1>1, <2>1
  <2>5. QED
    BY <2>1, <2>2, <2>3, <2>4, QueueReferred
<1>3. ASSUME NEW h \in Holders, Unpin(h)
      PROVE  ReferredInv' /\ blobs \subseteq blobs'
  <2>1. /\ UNCHANGED <<blobs, uploads, commit, rows, admission, sweep, boot>> /\ pins' = pins \ {h} /\ h \notin rows
        /\ h[2] = "commit" => commit[h[1]].pc # "pinned"
        /\ h[2] = "revision" => admission # h[1]
    BY <1>3 DEF Unpin, storeVars, bootVars
  <2>2. CommittedOnce'
    <3>1. \A w \in Uploads : h = <<w, "commit">> => commit[w].pc # "pinned"
      BY <2>1, Unequal
    <3>2. QED
      BY <1>1, <2>1, <3>1 DEF CommittedOnce, Open
  <2>3. Prepared'
    <3>1. \A w \in Uploads : h = <<w, "revision">> => admission # w
      BY <2>1, Unequal
    <3>2. QED
      BY <1>1, <2>1, <3>1 DEF Prepared
  <2>4. StartsEmpty'
    BY <1>1, <2>1 DEF StartsEmpty
  <2>5. /\ rows' \subseteq Holders /\ pins' \subseteq Holders /\ rows' \ pins' \subseteq rows \ pins
        /\ rows' \cup pins' \subseteq rows \cup pins
    BY <1>1, <2>1
  <2>6. QED
    BY <2>1, <2>2, <2>3, <2>4, <2>5, QueueReferred
<1>4. ASSUME NEW R \in SUBSET rows, NEW P \in SUBSET R, Recover(P, R)
      PROVE  ReferredInv' /\ blobs \subseteq blobs'
  <2>1. /\ UNCHANGED <<blobs, uploads, commit, admission, sweep>> /\ rows' = R /\ pins' = P
        /\ boot = "recover" /\ boot' = "up"
    BY <1>4 DEF Recover, storeVars
  <2>2. pins = {} /\ \A u \in Uploads : commit[u].pc = "idle"
    BY <1>1, <2>1 DEF StartsEmpty
  <2>3. CommittedOnce'
    BY <1>1, <2>1, <2>2 DEF CommittedOnce, Open
  <2>4. Prepared' /\ StartsEmpty'
    BY <1>1, <2>1, <2>2 DEF Prepared, StartsEmpty
  <2>5. /\ rows' \subseteq Holders /\ pins' \subseteq Holders /\ rows' \ pins' \subseteq rows \ pins
        /\ rows' \cup pins' \subseteq rows \cup pins
    BY <1>1, <2>1, <2>2
  <2>6. QED
    BY <2>1, <2>3, <2>4, <2>5, QueueReferred
<1>5. QED
  BY <1>2, <1>3, <1>4

(* The collectors. *)
LEMMA CollectorReferred ==
    ASSUME ReferredInv, StoredInv', Leaving, UNCHANGED <<commit, rows, pins>>,
           admission' = admission \/ admission' \notin Uploads, boot' = boot \/ boot # "up",
           \A h \in rows \cup pins : uploads[h[1]].files \cap blobs \subseteq blobs',
           \A c \in Collectors : sweep'[c].pc = "remove" =>
               \A h \in rows \ pins : uploads[h[1]].files \subseteq sweep'[c].refs
    PROVE  ReferredInv'
<1>1. /\ RevisionSources /\ CommittedOnce /\ Prepared /\ UnpinnedSeen /\ StartsEmpty
      /\ \A h \in rows \cup pins : h[1] \in Uploads
  BY ReferredParts
<1>2. \A h \in rows \cup pins : uploads'[h[1]].files = uploads[h[1]].files
  BY <1>1 DEF Leaving
<1>3. RevisionSources'
  BY <1>1, <1>2 DEF RevisionSources
<1>4. CommittedOnce'
  <2>1. \A w \in Uploads : w \in Open' => w \in Open
    BY DEF Leaving, Open
  <2>2. QED
    BY <1>1, <2>1 DEF CommittedOnce
<1>5. Prepared' /\ StartsEmpty'
  BY <1>1 DEF Prepared, StartsEmpty
<1>6. UnpinnedSeen'
  BY <1>1, <1>2 DEF UnpinnedSeen
<1>7. QED
  BY <1>3, <1>4, <1>5, <1>6 DEF ReferredInv

(* What a collector has gathered stays a superset of what is referred to. *)
LEMMA SweepStepsReferred ==
    ASSUME ReferredInv, StoredInv', NEW c \in Collectors, BeginSweep(c) \/ SweepSnapshots(c) \/ SweepRows(c) \/ AbortSweep(c)
    PROVE  ReferredInv' /\ blobs \subseteq blobs'
<1>1. /\ StoredInv /\ BlobTypeOK /\ UnpinnedSeen /\ sweep \in [Collectors -> Sweep]
      /\ \A e \in Collectors : sweep[e].pc = "remove" => \A h \in rows \ pins : uploads[h[1]].files \subseteq sweep[e].refs
  BY ReferredParts DEF BlobTypeOK, UnpinnedSeen
<1>2. CASE BeginSweep(c)
  <2> DEFINE new == [pc |-> "snapshots", now |-> clock, refs |-> HeldRefs(c, clock)]
  <2>1. /\ sweep' = [sweep EXCEPT ![c] = new] /\ (uploads' = uploads \/ uploads' = DropExpired(clock))
        /\ UNCHANGED <<blobs, commit, pins, rows, admission, boot>>
    BY <1>2 DEF BeginSweep, storeVars, queueVars, bootVars
  <2>2. new.pc # "remove"
    OBVIOUS
  <2> HIDE DEF new
  <2>3. \A e \in Collectors : sweep'[e] = IF e = c THEN new ELSE sweep[e]
    BY <1>1, <2>1
  <2>4. Leaving
    BY <1>1, <2>1, DropLeaves
  <2>5. QED
    BY <1>1, <2>1, <2>2, <2>3, <2>4, CollectorReferred
<1>3. CASE SweepSnapshots(c)
  <2> DEFINE m == sweep[c].refs \cup SnapshotRefs(Retained(c))
             n == IF Durable THEN "rows" ELSE "remove"
             v == [sweep[c] EXCEPT !.pc = n, !.refs = m]
  <2>1. sweep' = [sweep EXCEPT ![c] = v] /\ UNCHANGED <<blobs, uploads, commit, pins, rows, admission, boot>>
    BY <1>1, <1>3 DEF SweepSnapshots, storeVars, queueVars, bootVars
  <2>2. v.pc = n
    BY <1>1 DEF Sweep
  <2>3. n = "remove" => rows \subseteq pins
    BY <1>1 DEF UnpinnedSeen
  <2> HIDE DEF m, n, v
  <2>4. \A e \in Collectors : sweep'[e] = IF e = c THEN v ELSE sweep[e]
    BY <1>1, <2>1
  <2>5. Leaving
    BY <2>1 DEF Leaving
  <2>6. \A e \in Collectors : sweep'[e].pc = "remove" => \A h \in rows \ pins : uploads[h[1]].files \subseteq sweep'[e].refs
    BY <1>1, <2>2, <2>3, <2>4
  <2>7. QED
    BY <2>1, <2>5, <2>6, CollectorReferred
<1>4. CASE SweepRows(c)
  <2> DEFINE m == sweep[c].refs \cup RowRefs
             v == [sweep[c] EXCEPT !.pc = "remove", !.refs = m]
  <2>1. sweep' = [sweep EXCEPT ![c] = v] /\ UNCHANGED <<blobs, uploads, commit, pins, rows, admission, boot>>
    BY <1>1, <1>4 DEF SweepRows, storeVars, queueVars, bootVars
  <2>2. v.refs = m
    BY <1>1 DEF Sweep
  <2>3. \A h \in rows : uploads[h[1]].files \subseteq m
    BY DEF RowRefs, FilesOf
  <2> HIDE DEF m, v
  <2>4. \A e \in Collectors : sweep'[e] = IF e = c THEN v ELSE sweep[e]
    BY <1>1, <2>1
  <2>5. Leaving
    BY <2>1 DEF Leaving
  <2>6. \A e \in Collectors : sweep'[e].pc = "remove" => \A h \in rows \ pins : uploads[h[1]].files \subseteq sweep'[e].refs
    BY <1>1, <2>2, <2>3, <2>4
  <2>7. QED
    BY <2>1, <2>5, <2>6, CollectorReferred
<1>5. CASE AbortSweep(c)
  <2>1. /\ sweep[c].pc \in {"snapshots", "rows"} /\ EndSweep(c)
        /\ UNCHANGED <<blobs, uploads, commit, pins, rows>>
    BY <1>5 DEF AbortSweep, storeVars
  <2>2. /\ \A e \in Collectors \ {c} : sweep'[e] = sweep[e]
        /\ sweep'[c].pc = "idle" /\ (admission' = admission \/ admission' \notin Uploads)
    BY <1>1, <2>1, EndSweepFacts, BlobStoreAssumption
  <2>3. boot' = boot \/ boot # "up"
    BY <2>1 DEF EndSweep
  <2>4. Leaving
    BY <2>1 DEF Leaving
  <2>5. QED
    BY <1>1, <2>1, <2>2, <2>3, <2>4, CollectorReferred
<1>6. QED
  BY <1>2, <1>3, <1>4, <1>5

(* Cleanup deletes the snapshot of a project only when no row or pinned    *)
(* revision is of that project.                                            *)
LEMMA CleanupReferred ==
    ASSUME ReferredInv, StoredInv', NEW p \in Projects, CleanupProject(p)
    PROVE  ReferredInv' /\ blobs \subseteq blobs'
<1>1. /\ admission' = "cleanup" /\ sweep' = [sweep EXCEPT !["collect"].pc = "begin"]
      /\ UNCHANGED <<blobs, uploads, commit, pins, rows, boot>>
  BY DEF CleanupProject, storeVars, bootVars
<1>2. /\ sweep \in [Collectors -> Sweep] /\ "collect" \in Collectors
      /\ \A e \in Collectors : sweep[e].pc = "remove" => \A h \in rows \ pins : uploads[h[1]].files \subseteq sweep[e].refs
  BY ReferredParts DEF BlobTypeOK, UnpinnedSeen, Collectors
<1>3. \A e \in Collectors : sweep'[e].refs = sweep[e].refs /\ sweep'[e].pc \in {sweep[e].pc, "begin"}
  BY <1>1, <1>2 DEF Sweep
<1>4. Leaving /\ admission' \notin Uploads
  BY <1>1, BlobStoreAssumption DEF Leaving
<1>5. QED
  BY <1>1, <1>2, <1>3, <1>4, CollectorReferred

(* What a collector removes at its end is referred to by nothing: not by   *)
(* an upload in the map, a current snapshot, a row or a pin.               *)
LEMMA GarbageUnreferenced ==
    ASSUME ReferredInv, NEW c \in Collectors, sweep[c].pc = "remove"
    PROVE  /\ \A u \in Open : ~Expired(u, clock) => uploads[u].files \cap Garbage(c) = {}
           /\ SnapshotRefs(snapshots) \cap Garbage(c) = {}
           /\ \A h \in rows \cup pins : uploads[h[1]].files \cap Garbage(c) = {}
<1>1. /\ BlobTypeOK /\ SnapshotsSeen /\ SweepTimes
      /\ \A h \in rows \ pins : uploads[h[1]].files \subseteq sweep[c].refs
  BY ReferredParts DEF StoredInv, UnpinnedSeen
<1>2. \A u \in Open : ~Expired(u, clock) => ~Expired(u, sweep[c].now)
  <2>1. sweep[c].now \in Nat /\ clock \in Nat /\ sweep[c].now <= clock
    BY <1>1 DEF BlobTypeOK, SweepTimes, Sweep
  <2>2. \A u \in Open : uploads[u].expires \in Nat
    BY <1>1 DEF BlobTypeOK, Upload, Open
  <2>3. QED
    BY <2>1, <2>2 DEF Expired
<1>3. SnapshotRefs(snapshots) \subseteq sweep[c].refs
  BY <1>1 DEF SnapshotsSeen
<1>4. QED
  BY <1>1, <1>2, <1>3, GarbageFacts

(* What a collector removes, nothing refers to. *)
LEMMA SweepRemoveReferred ==
    ASSUME ReferredInv, StoredInv', NEW c \in Collectors, SweepRemove(c)
    PROVE  ReferredInv'
<1>1. /\ sweep[c].pc = "remove" /\ blobs' = blobs \ Garbage(c) /\ EndSweep(c)
      /\ uploads' = uploads \/ uploads' = DropExpired(sweep[c].now)
      /\ UNCHANGED <<commit, pins, rows>>
  BY DEF SweepRemove
<1>2. /\ BlobTypeOK
      /\ \A e \in Collectors : sweep[e].pc = "remove" => \A h \in rows \ pins : uploads[h[1]].files \subseteq sweep[e].refs
  BY ReferredParts DEF UnpinnedSeen
<1>3. Leaving
  BY <1>1, <1>2, DropLeaves
<1>4. /\ \A e \in Collectors \ {c} : sweep'[e] = sweep[e]
      /\ sweep'[c].pc = "idle" /\ (admission' = admission \/ admission' \notin Uploads)
  BY <1>1, <1>2, EndSweepFacts, BlobStoreAssumption
<1>5. boot' = boot \/ boot # "up"
  BY <1>1 DEF EndSweep
<1>6. \A h \in rows \cup pins : uploads[h[1]].files \cap blobs \subseteq blobs'
  BY <1>1, GarbageUnreferenced
<1>7. QED
  BY <1>1, <1>2, <1>3, <1>4, <1>5, <1>6, CollectorReferred

(* A restart forgets the pins; the rows still refer to their blobs. *)
LEMMA RestartReferred ==
    ASSUME ReferredInv, StoredInv', Restart
    PROVE  ReferredInv' /\ blobs \subseteq blobs'
<1>1. /\ boot' = "sweep" /\ pins' = {} /\ admission' = "free"
      /\ rows' = (IF Durable THEN rows ELSE {}) /\ blobs' = blobs
  BY DEF Restart, storeVars
<1>2. BlobTypeOK /\ RevisionSources /\ \A h \in rows \cup pins : h[1] \in Uploads
  BY ReferredParts
<1>3. /\ \A u \in Uploads : uploads'[u].files = uploads[u].files /\ uploads'[u].status # "open"
      /\ \A u \in Uploads : commit'[u].pc = "idle"
      /\ \A c \in Collectors : sweep'[c].pc = "idle"
  BY <1>2, RestartFacts DEF Leaving
<1>4. RevisionSources'
  BY <1>1, <1>2, <1>3 DEF RevisionSources
<1>5. CommittedOnce' /\ Prepared' /\ StartsEmpty'
  BY <1>1, <1>3, BlobStoreAssumption DEF CommittedOnce, Prepared, StartsEmpty, Open
<1>6. UnpinnedSeen'
  BY <1>1, <1>3 DEF UnpinnedSeen
<1>7. QED
  BY <1>1, <1>4, <1>5, <1>6 DEF ReferredInv

(* Nothing is referred to at the start. *)
LEMMA InitReferred ==
    ASSUME Init
    PROVE  ReferredInv
<1>1. StoredInv
  BY InitStored
<1>2. NoCommit.pc = "idle" /\ NoSweep.pc = "idle"
  BY DEF NoCommit, NoSweep
<1>3. rows = {} /\ pins = {} /\ admission = "free" /\ boot = "up"
  BY DEF Init
<1>4. (\A u \in Uploads : commit[u].pc = "idle") /\ \A c \in Collectors : sweep[c].pc = "idle"
  BY <1>2 DEF Init
<1>5. QED
  BY <1>1, <1>3, <1>4, BlobStoreAssumption DEF ReferredInv, RevisionSources, CommittedOnce, Prepared, UnpinnedSeen, StartsEmpty

(* Only the last section of a collector removes blobs. *)
LEMMA NextReferred ==
    ASSUME NoneLost, ReferredInv, [Next]_vars
    PROVE  ReferredInv' /\ (blobs \subseteq blobs' \/ \E c \in Collectors : SweepRemove(c))
<1>1. StoredInv'
  BY NextStored, ReferredParts
<1>2. QED
  BY <1>1, UploadStepsReferred, CommitRequestReferred, PrepareReferred, AdmitReferred, LettingGoReferred,
     SweepStepsReferred, CleanupReferred, SweepRemoveReferred, RestartReferred
     DEF Next

(* Referred blobs are stored, always, unless an answer is lost. *)
LEMMA ReferredAlways ==
    ASSUME NoneLost
    PROVE  Spec => []ReferredInv
<1>1. Init => ReferredInv
  BY InitReferred
<1>2. ReferredInv /\ [Next]_vars => ReferredInv'
  BY NextReferred
<1>3. QED
  BY <1>1, <1>2, PTL DEF Spec

(* The sources of a realtime revision stay on disk from PrepareUpload to   *)
(* the end of its job and of its pin, whatever the collectors, an upload's *)
(* expiry and restarts do meanwhile.                                       *)
THEOREM RevisionSourcesAlways ==
    ASSUME NoneLost
    PROVE  Spec => []RevisionSources
<1>1. ReferredInv => RevisionSources
  BY DEF ReferredInv
<1>2. QED
  BY <1>1, ReferredAlways, PTL

(* "It never removes data referenced by a live upload, current project     *)
(* snapshot, or queued/running job snapshot or realtime session."          *)
THEOREM ReferencedAlwaysKept ==
    ASSUME NoneLost
    PROVE  Spec => ReferencedKept
<1> DEFINE Removed == (blobs \ blobs') \cap (UploadRefs({u \in Open : ~Expired(u, clock)}) \cup SnapshotRefs(snapshots)
                                             \cup FilesOf(rows \cup pins))
<1>1. ASSUME ReferredInv, [Next]_vars PROVE Removed = {}
  <2>1. CASE blobs \subseteq blobs'
    BY <2>1
  <2>2. ASSUME NEW c \in Collectors, SweepRemove(c) PROVE Removed = {}
    <3>1. sweep[c].pc = "remove" /\ blobs' = blobs \ Garbage(c)
      BY <2>2 DEF SweepRemove
    <3>2. UploadRefs({u \in Open : ~Expired(u, clock)}) \cap Garbage(c) = {}
      BY <1>1, <3>1, GarbageUnreferenced DEF UploadRefs
    <3>3. SnapshotRefs(snapshots) \cap Garbage(c) = {}
      BY <1>1, <3>1, GarbageUnreferenced
    <3>4. FilesOf(rows \cup pins) \cap Garbage(c) = {}
      BY <1>1, <3>1, GarbageUnreferenced DEF FilesOf
    <3>5. QED
      BY <3>1, <3>2, <3>3, <3>4
  <2>3. QED
    BY <1>1, <2>1, <2>2, NextReferred
<1>2. ReferredInv /\ [Next]_vars => [Removed = {}]_vars
  BY <1>1
<1>3. QED
  BY <1>2, ReferredAlways, PTL DEF Spec, ReferencedKept
=============================================================================
