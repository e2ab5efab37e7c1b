----------------------------- MODULE StateStore -----------------------------
(***************************************************************************)
(* The state volume of the server (packages/server/internal/project):      *)
(* result archives, the portable compile cache, session checkpoints and    *)
(* source blobs share one directory and one hard quota. Two counters keep  *)
(* it: stateBytes for the files published and pendingBytes for the files   *)
(* being staged beside them. Encoding and syncing happen outside m.mu, so  *)
(* a writer reserves its bytes, writes a private sibling, and publishes it *)
(* by a rename or discards it; sweeps replace stateBytes by a measurement  *)
(* of the directory while such writers are under way.                      *)
(*                                                                         *)
(* This module has the operations on the volume; who calls them, and when, *)
(* is AttemptExecution's. Every operation is a section under m.mu. A size  *)
(* is a small number; a file is its kind with the job, session or upload   *)
(* that names it.                                                          *)
(***************************************************************************)
EXTENDS Integers, FiniteSetsExt

CONSTANTS
    Jobs,           \* job identifiers, ordered by submission
    Sessions,       \* realtime sessions
    Uploads,        \* blob uploads, each of a digest of its own
    Nobody,         \* no job
    MaxStateBytes,  \* cfg.MaxStateBytes
    ResultBytes,    \* a result archive with its auxiliary entries
    AuxiliaryBytes, \* what expiring the auxiliary entries frees
    StagedBytes     \* a compile cache, a checkpoint or a blob

ASSUME StateStoreAssumption ==
    /\ Jobs \subseteq Nat /\ IsFiniteSet(Jobs) /\ Nobody \notin Jobs
    /\ IsFiniteSet(Sessions) /\ IsFiniteSet(Uploads) /\ Jobs \cap Uploads = {}
    /\ MaxStateBytes \in Nat /\ ResultBytes \in Nat /\ StagedBytes \in Nat \ {0}
    /\ AuxiliaryBytes \in 1..(ResultBytes - 1)

VARIABLES
    disk,         \* the published files
    pub,          \* the StatePublication of each writer
    stateBytes,   \* m.stateBytes
    pendingBytes, \* m.pendingBytes
    litter        \* siblings left on the volume that nobody reserves room for

storeVars == <<disk, pub, stateBytes, pendingBytes, litter>>

Writers == Jobs \cup Uploads
Result(j) == <<"result", j>>
LiveCache(s) == <<"live", s>>
Blob(u) == <<"blob", u>>
CompileCache == <<"cache", "portable">>   \* one project and one cache key
Results == {Result(j) : j \in Jobs}
LiveCaches == {LiveCache(s) : s \in Sessions}
Blobs == {Blob(u) : u \in Uploads}
Files == Results \cup LiveCaches \cup Blobs \cup {CompileCache}

(* A file by its size, 0 when absent, the job it came from, and, for the   *)
(* compile cache, whether it has passed its retention or recorded expiry.  *)
File == [size: 0..MaxStateBytes, by: Jobs \cup {Nobody}, aged: BOOLEAN]
NoFile == [size |-> 0, by |-> Nobody, aged |-> FALSE]
Publication == [phase: {"none", "reserved", "staged", "stuck"}, file: Files]
NoPublication == [phase |-> "none", file |-> CompileCache]

StoreTypeOK ==
    /\ disk \in [Files -> File]
    /\ pub \in [Writers -> Publication]
    /\ {stateBytes, pendingBytes} \subseteq 0..MaxStateBytes
    /\ litter \in Nat

StoreInit ==
    /\ disk = [f \in Files |-> NoFile]
    /\ pub = [w \in Writers |-> NoPublication]
    /\ stateBytes = 0
    /\ pendingBytes = 0
    /\ litter = 0

Present(f) == disk[f].size > 0
Reserving == {w \in Writers : pub[w].phase # "none"}
(* The size of a set of files: their bytes, one by one.                    *)
Bytes(fs) == Cardinality({x \in fs \X (1..MaxStateBytes) : x[2] <= disk[x[1]].size})
directorySize == Bytes(Files)
Available == MaxStateBytes - stateBytes - pendingBytes
-----------------------------------------------------------------------------
(* stageState: the reservation precedes the write.                         *)
ReserveForgettingPending(w, f) ==
    /\ StagedBytes <= MaxStateBytes - stateBytes
    /\ pub[w].phase = "none"
    /\ pendingBytes' = pendingBytes + StagedBytes
    /\ pub' = [pub EXCEPT ![w] = [phase |-> "reserved", file |-> f]]
    /\ UNCHANGED <<disk, stateBytes, litter>>

Reserve(w, f) ==
    /\ StagedBytes <= Available
    /\ pub[w].phase = "none"
    /\ pendingBytes' = pendingBytes + StagedBytes
    /\ pub' = [pub EXCEPT ![w] = [phase |-> "reserved", file |-> f]]
    /\ UNCHANGED <<disk, stateBytes, litter>>

Refused == StagedBytes > Available

(* The sibling is complete and synced. *)
Stage(w) ==
    /\ pub[w].phase = "reserved"
    /\ pub' = [pub EXCEPT ![w].phase = "staged"]
    /\ UNCHANGED <<disk, stateBytes, pendingBytes, litter>>

(* Close after a failed write, a lost race or a failed rename. *)
Discard(w) ==
    /\ pub[w].phase \in {"reserved", "staged"}
    /\ pub' = [pub EXCEPT ![w] = NoPublication]
    /\ pendingBytes' = pendingBytes - StagedBytes
    /\ UNCHANGED <<disk, stateBytes, litter>>

(* A write fails and so does the removal of what was written. Stage then   *)
(* returns no Pending, and Close gives the reservation back although the   *)
(* sibling is still there.                                                 *)
StageLeaves(w) ==
    /\ pub[w].phase = "reserved"
    /\ pub' = [pub EXCEPT ![w] = NoPublication]
    /\ pendingBytes' = pendingBytes - StagedBytes
    /\ litter' = litter + 1
    /\ UNCHANGED <<disk, stateBytes>>

(* Close cannot remove a complete sibling: it keeps the reservation.       *)
(* Nobody calls it again, so only a restart gives the bytes back.          *)
DiscardFails(w) ==
    /\ pub[w].phase = "staged"
    /\ pub' = [pub EXCEPT ![w].phase = "stuck"]
    /\ UNCHANGED <<disk, stateBytes, pendingBytes, litter>>

(* commitLocked: the rename, which replaces an earlier generation.         *)
CommitLocked(w, by) ==
    LET f == pub[w].file IN
    /\ pub[w].phase = "staged"
    /\ stateBytes + pendingBytes <= MaxStateBytes
    /\ disk' = [disk EXCEPT ![f] = [size |-> StagedBytes, by |-> by, aged |-> FALSE]]
    /\ stateBytes' = stateBytes + StagedBytes - disk[f].size
    /\ pendingBytes' = pendingBytes - StagedBytes
    /\ pub' = [pub EXCEPT ![w] = NoPublication]
    /\ UNCHANGED litter

-----------------------------------------------------------------------------
(* WriteResult holds m.mu while it encodes, limited by what is available.  *)
WriteResult(j) ==
    /\ ResultBytes <= Available
    /\ disk' = [disk EXCEPT ![Result(j)] = [size |-> ResultBytes, by |-> j, aged |-> FALSE]]
    /\ stateBytes' = stateBytes + ResultBytes - disk[Result(j)].size
    /\ UNCHANGED <<pub, pendingBytes, litter>>

(* Rewriting an archive without its expired auxiliary entries needs room   *)
(* for both generations.                                                   *)
Strippable(j) == disk[Result(j)].size = ResultBytes
StripFits(state) == ResultBytes - AuxiliaryBytes <= MaxStateBytes - state - pendingBytes
Stripped(d, js) == [f \in Files |-> IF \E j \in js : f = Result(j)
                                    THEN [d[f] EXCEPT !.size = ResultBytes - AuxiliaryBytes]
                                    ELSE d[f]]

PruneResultAuxiliary(j) ==
    /\ Strippable(j)
    /\ StripFits(stateBytes)
    /\ disk' = Stripped(disk, {j})
    /\ stateBytes' = stateBytes - AuxiliaryBytes
    /\ UNCHANGED <<pub, pendingBytes, litter>>

Without(fs) == [f \in Files |-> IF f \in fs THEN NoFile ELSE disk[f]]

DeleteResult(j) ==
    /\ disk' = Without({Result(j)})
    /\ stateBytes' = Max({0, stateBytes - disk[Result(j)].size})
    /\ UNCHANGED <<pub, pendingBytes, litter>>

DeleteCompileCaches ==
    /\ disk' = Without({CompileCache})
    /\ stateBytes' = stateBytes - disk[CompileCache].size
    /\ UNCHANGED <<pub, pendingBytes, litter>>

DeleteLiveCache(s) ==
    /\ disk' = Without({LiveCache(s)})
    /\ stateBytes' = stateBytes - disk[LiveCache(s)].size
    /\ UNCHANGED <<pub, pendingBytes, litter>>

(* The tail of Prune, under m.mu: the expired files fs go (results, caches *)
(* and unreferenced blobs), the directory is measured, and then the        *)
(* results js are stripped of their expired auxiliary entries.             *)
Expirable == {f \in Files \ LiveCaches : Present(f) /\ (f = CompileCache => disk[f].aged)}

Prune(fs, js) ==
    LET measured == directorySize - Bytes(fs) IN
    /\ js \subseteq {j \in Jobs : Strippable(j) /\ Result(j) \notin fs}
    /\ js # {} => StripFits(measured)
    /\ disk' = Stripped(Without(fs), js)
    /\ stateBytes' = measured - AuxiliaryBytes * Cardinality(js)
    /\ UNCHANGED <<pub, pendingBytes, litter>>

(* A sweep that stops at an error returns without measuring.               *)
PruneFails ==
    \E fs \in SUBSET Expirable :
        /\ fs # {}
        /\ disk' = Without(fs)
        /\ UNCHANGED <<pub, stateBytes, pendingBytes, litter>>

(* CollectUnreferencedBlobs removes blobs of any age and measures.         *)
CollectUnreferencedBlobs ==
    /\ disk' = Without(Blobs)
    /\ stateBytes' = directorySize - Bytes(Blobs)
    /\ UNCHANGED <<pub, pendingBytes, litter>>

(* New: checkpoints and staged siblings of the last process are removed    *)
(* and what is left is measured.                                           *)
NewStore ==
    /\ Bytes(Files \ LiveCaches) <= MaxStateBytes
    /\ disk' = Without(LiveCaches)
    /\ pub' = [w \in Writers |-> NoPublication]
    /\ stateBytes' = Bytes(Files \ LiveCaches)
    /\ pendingBytes' = 0
    /\ litter' = 0

(* Time passes. *)
Age(f) ==
    /\ Present(f) /\ ~disk[f].aged
    /\ disk' = [disk EXCEPT ![f].aged = TRUE]
    /\ UNCHANGED <<pub, stateBytes, pendingBytes, litter>>
-----------------------------------------------------------------------------
(* The quota is hard: published files and staged siblings together never   *)
(* exceed it, because stateBytes never counts less than the directory      *)
(* holds and pendingBytes is exactly what the open publications reserve,   *)
(* however sweeps, failed sweeps, deletions and commits interleave. Only   *)
(* the litter of StageLeaves is outside it.                                *)
QuotaHeld ==
    /\ directorySize <= stateBytes
    /\ pendingBytes = StagedBytes * Cardinality(Reserving)
    /\ stateBytes + pendingBytes <= MaxStateBytes
=============================================================================
