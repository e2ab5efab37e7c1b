---------------------------- MODULE ExportHistory ----------------------------
(***************************************************************************)
(* Builds of the CLI that export a PDF into the project                    *)
(* (packages/cli/cmd/latexmk: main.go, targets.go and naming.go,           *)
(* internal/client, internal/exporthistory, shared/safefs). An invocation  *)
(* reserves its destination, has the project compiled, stores the verified *)
(* result in the output directory and publishes the PDF: under a process   *)
(* lock it stages the group's history, replaces the destination, records   *)
(* it and then removes what retention no longer keeps. Invocations run     *)
(* beside one another and beside an editor that saves and deletes the same *)
(* files, and may die between any two steps.                               *)
(*                                                                         *)
(* A file is its content, and its identity (the inode) its path and its    *)
(* content. The server is external: a build ends with some PDF or without  *)
(* one, and two builds may produce the same bytes.                         *)
(***************************************************************************)
EXTENDS Integers, FiniteSets, SequencesExt

CONSTANTS
    Invocations,  \* CLI processes
    Groups,       \* export groups: entry, target and engine
    Paths,        \* destinations inside the project
    KeepLast,     \* pdfRetention.keepLast
    Nobody,       \* no process
    Contents,     \* bound: how many different PDFs the builds produce
    MaxBuilds,    \* bound: builds started
    MaxSaves,     \* bound: saves of the editor
    MaxDeletes,   \* bound: deletions by the user
    MaxFaults     \* bound: crashes and failures of the file system

ASSUME ExportAssumption ==
    /\ IsFiniteSet(Invocations) /\ IsFiniteSet(Groups) /\ IsFiniteSet(Paths)
    /\ KeepLast \in Nat \ {0} /\ Contents \in Nat \ {0}
    /\ {MaxBuilds, MaxSaves, MaxDeletes, MaxFaults} \subseteq Nat
    /\ Nobody \notin Invocations

VARIABLES
    file,        \* the files at the destinations
    quarantine,  \* private siblings that hold a file on its way out
    history,     \* the manifest of each group
    lock,        \* who holds .latexmk-cache/exports/.lock
    output,      \* the PDF in the output directory
    inv,         \* each invocation's place and locals
    replaced,    \* contents that a user or a later export has overwritten or deleted
    interrupted, \* destinations replaced by a publication that never recorded them
    exporters,   \* the groups that have exported to a destination
    builds, saves, deletes, faults

vars == <<file, quarantine, history, lock, output, inv, replaced, interrupted, exporters,
          builds, saves, deletes, faults>>
ghostVars == <<replaced, interrupted, exporters>>
boundVars == <<builds, saves, deletes>>

Absent == 0
Exports == 1..Contents
Saves == {0 - n : n \in 1..MaxSaves}
Content == Exports \cup Saves
Entry == [path: Paths, content: Exports]

(* content: what the build returned. rest: entries still to remove, of     *)
(* which the first is being removed. protect: the files no removal may     *)
(* touch. moved: what the quarantine received.                             *)
Invocation == [pc: {"idle", "building", "built", "locked", "staged", "written", "recorded",
                    "pruning", "verified", "moved"},
               group: Groups, path: Paths, content: Exports,
               rest: UNION {[1..n -> Entry] : n \in 0..MaxBuilds},
               protect: SUBSET (Paths \X Content), moved: Content]

(* The types, and that every manifest is one that read accepts: no path    *)
(* twice, although publications replace one another's destinations.        *)
ExportTypeOK ==
    /\ file \in [Paths -> Content \cup {Absent}]
    /\ quarantine \subseteq Paths \X Content
    /\ \A g \in Groups : /\ Len(history[g]) <= MaxBuilds
                       /\ ToSet(history[g]) \subseteq Entry
                       /\ IsInjective([n \in DOMAIN history[g] |-> history[g][n].path])
    /\ lock \in Invocations \cup {Nobody}
    /\ output \in Exports \cup {Absent}
    /\ inv \in [Invocations -> Invocation]
    /\ replaced \subseteq Paths \X Content
    /\ interrupted \subseteq Paths
    /\ exporters \in [Paths -> SUBSET Groups]
    /\ builds \in 0..MaxBuilds /\ saves \in 0..MaxSaves /\ deletes \in 0..MaxDeletes
    /\ faults \in 0..MaxFaults

Idle == [pc |-> "idle", group |-> CHOOSE g \in Groups : TRUE, path |-> CHOOSE p \in Paths : TRUE,
         content |-> 1, rest |-> <<>>, protect |-> {}, moved |-> 1]

Init ==
    /\ file = [p \in Paths |-> Absent]
    /\ quarantine = {}
    /\ history = [g \in Groups |-> <<>>]
    /\ lock = Nobody
    /\ output = Absent
    /\ inv = [i \in Invocations |-> Idle]
    /\ replaced = {}
    /\ interrupted = {}
    /\ exporters = [p \in Paths |-> {}]
    /\ builds = 0 /\ saves = 0 /\ deletes = 0 /\ faults = 0

-----------------------------------------------------------------------------
At(i, place) == inv[i].pc = place
Goto(i, place) == inv' = [inv EXCEPT ![i].pc = place]
Fault == faults < MaxFaults /\ faults' = faults + 1
(* The invocation ends and with it its reservation and its lock. *)
Return(i) ==
    /\ inv' = [inv EXCEPT ![i] = Idle]
    /\ lock' = IF lock = i THEN Nobody ELSE lock

PathsOf(s) == {e.path : e \in ToSet(s)}
Recorded == UNION {PathsOf(history[g]) : g \in Groups}
Reserved(i) == IF At(i, "idle") THEN {} ELSE {inv[i].path}
(* generatedFiles: what file selection leaves out for an invocation.       *)
Generated(i) == Recorded \cup Reserved(i)

(* What was at a destination is gone by right. *)
Replaced(p, new) == (replaced \cup ({<<p, file[p]>>} \cap (Paths \X Content))) \ {<<p, new>>}

-----------------------------------------------------------------------------
(* compileWithTimeout: prepareBuildNaming, then Compile. *)
Begin(i) ==
    /\ At(i, "idle")
    /\ builds < MaxBuilds
    /\ builds' = builds + 1
    /\ \E g \in Groups, p \in Paths :
           inv' = [inv EXCEPT ![i] = [Idle EXCEPT !.pc = "building", !.group = g, !.path = p]]
    /\ UNCHANGED <<file, quarantine, history, lock, output, ghostVars, saves, deletes, faults>>

(* The result archive is verified and stored, over that of other builds.   *)
Download(i) ==
    /\ At(i, "building")
    /\ \E c \in Exports :
        /\ output' = c
        /\ inv' = [inv EXCEPT ![i].pc = "built", ![i].content = c]
    /\ UNCHANGED <<file, quarantine, history, lock, ghostVars, boundVars, faults>>

(* The request, the wait or the compile itself fails: nothing is exported. *)
BuildFails(i) ==
    /\ At(i, "building")
    /\ Return(i)
    /\ UNCHANGED <<file, quarantine, history, output, ghostVars, boundVars, faults>>

-----------------------------------------------------------------------------
(* Publish. TryLock does not wait. *)
LockFreeAlways == TRUE
LockFree == lock = Nobody

TryLock(i) ==
    /\ At(i, "built")
    /\ IF LockFree
       THEN lock' = i /\ Goto(i, "locked")
       ELSE Return(i)
    /\ UNCHANGED <<file, quarantine, history, output, ghostVars, boundVars, faults>>

(* The new manifest is written beside the old one before anything changes. *)
StageHistory(i) ==
    /\ At(i, "locked")
    /\ Goto(i, "staged")
    /\ UNCHANGED <<file, quarantine, history, lock, output, ghostVars, boundVars, faults>>

StageFails(i) ==
    /\ At(i, "locked")
    /\ Fault
    /\ Return(i)
    /\ UNCHANGED <<file, quarantine, history, output, ghostVars, boundVars>>

(* ExportArtifact copies from the output directory and checks the digest.  *)
CopyVerified(i) == output = inv[i].content

Write(i) ==
    LET p == inv[i].path IN
    /\ At(i, "staged")
    /\ CopyVerified(i)
    /\ file' = [file EXCEPT ![p] = output]
    /\ replaced' = Replaced(p, output)
    /\ exporters' = [exporters EXCEPT ![p] = @ \cup {inv[i].group}]
    /\ Goto(i, "written")
    /\ UNCHANGED <<quarantine, history, lock, output, interrupted, boundVars, faults>>

WriteRefused(i) ==
    /\ At(i, "staged")
    /\ ~CopyVerified(i)
    /\ Return(i)
    /\ UNCHANGED <<file, quarantine, history, output, ghostVars, boundVars, faults>>

(* The loop of Publish over the earlier entries. *)
Without(s, p) ==
    LET kept[n \in 0..Len(s)] ==
            IF n = 0 THEN <<>> ELSE IF s[n].path # p THEN Append(kept[n - 1], s[n]) ELSE kept[n - 1]
    IN  kept[Len(s)]
Appended(i) ==
    Append(Without(history[inv[i].group], inv[i].path), [path |-> inv[i].path, content |-> inv[i].content])

Record(i) ==
    /\ At(i, "written")
    /\ history' = [history EXCEPT ![inv[i].group] = Appended(i)]
    /\ interrupted' = interrupted \ {inv[i].path}
    /\ Goto(i, "recorded")
    /\ UNCHANGED <<file, quarantine, lock, output, replaced, exporters, boundVars, faults>>

RecordFails(i) ==
    /\ At(i, "written")
    /\ Fault
    /\ interrupted' = interrupted \cup {inv[i].path}
    /\ Return(i)
    /\ UNCHANGED <<file, quarantine, history, output, replaced, exporters, boundVars>>

-----------------------------------------------------------------------------
(* Retention: the newest export is verified first, and everything that is  *)
(* kept, here or by another group, is protected by identity.               *)
Excess(i) == Len(history[inv[i].group]) - KeepLast
Kept(i) == SubSeq(history[inv[i].group], Excess(i) + 1, Len(history[inv[i].group]))
OtherGroupPathsNone(i) == {}
OtherGroupPaths(i) == UNION {PathsOf(history[g]) : g \in Groups \ {inv[i].group}}
Protected(i) ==
    {<<p, file[p]>> : p \in PathsOf(Kept(i)) \cup OtherGroupPaths(i)} \cap (Paths \X Content)

Retain(i) ==
    LET g == inv[i].group IN
    /\ At(i, "recorded")
    /\ IF Excess(i) > 0 /\ file[inv[i].path] = inv[i].content
       THEN /\ inv' = [inv EXCEPT ![i].pc = "pruning", ![i].protect = Protected(i),
                                  ![i].rest = SubSeq(history[g], 1, Excess(i))]
            /\ UNCHANGED lock
       ELSE Return(i)
    /\ UNCHANGED <<file, quarantine, history, output, ghostVars, boundVars, faults>>

(* RemoveVerified: a file that is missing, protected or edited stays.      *)
Victim(i) == Head(inv[i].rest)
NextVictim(i) == [inv EXCEPT ![i].pc = "pruning", ![i].rest = Tail(@)]

Removable(i) ==
    /\ file[Victim(i).path] = Victim(i).content
    /\ <<Victim(i).path, file[Victim(i).path]>> \notin inv[i].protect

VerifyOld(i) ==
    /\ At(i, "pruning") /\ inv[i].rest # <<>>
    /\ inv' = IF Removable(i) THEN [inv EXCEPT ![i].pc = "verified"] ELSE NextVictim(i)
    /\ UNCHANGED <<file, quarantine, history, lock, output, ghostVars, boundVars, faults>>

(* The rename takes whatever is there by then. *)
Quarantine(i) ==
    LET p == Victim(i).path IN
    /\ At(i, "verified")
    /\ IF file[p] = Absent
       THEN inv' = NextVictim(i) /\ UNCHANGED <<file, quarantine>>
       ELSE /\ quarantine' = quarantine \cup {<<p, file[p]>>}
            /\ file' = [file EXCEPT ![p] = Absent]
            /\ inv' = [inv EXCEPT ![i].pc = "moved", ![i].moved = file[p]]
    /\ UNCHANGED <<history, lock, output, ghostVars, boundVars, faults>>

(* removeQuarantined: only the verified file goes. A replacement is linked *)
(* back, or kept aside when its name is taken again.                       *)
MovedIsVictimAlways(i) == TRUE
MovedIsVictim(i) == inv[i].moved = Victim(i).content

RemoveQuarantined(i) ==
    LET p == Victim(i).path
        aside == <<p, inv[i].moved>> IN
    /\ At(i, "moved")
    /\ \/ /\ MovedIsVictim(i)
          /\ quarantine' = quarantine \ {aside}
          /\ inv' = NextVictim(i)
          /\ UNCHANGED <<file, lock>>
       \/ /\ ~MovedIsVictim(i) /\ file[p] = Absent
          /\ file' = [file EXCEPT ![p] = inv[i].moved]
          /\ quarantine' = quarantine \ {aside}
          /\ inv' = NextVictim(i)
          /\ UNCHANGED lock
       \/ /\ ~MovedIsVictim(i) /\ file[p] # Absent
          /\ Return(i)
          /\ UNCHANGED <<file, quarantine>>
    /\ UNCHANGED <<history, output, ghostVars, boundVars, faults>>

SaveHistory(i) ==
    /\ At(i, "pruning") /\ inv[i].rest = <<>>
    /\ history' = [history EXCEPT ![inv[i].group] = Kept(i)]
    /\ Return(i)
    /\ UNCHANGED <<file, quarantine, output, ghostVars, boundVars, faults>>

(* The process dies, or a rename, a removal or the last save fails, which  *)
(* ends Publish and leaves the same state behind.                          *)
Crash(i) ==
    /\ ~At(i, "idle")
    /\ Fault
    /\ interrupted' = IF At(i, "written") THEN interrupted \cup {inv[i].path} ELSE interrupted
    /\ Return(i)
    /\ UNCHANGED <<file, quarantine, history, output, replaced, exporters, boundVars>>

-----------------------------------------------------------------------------
(* The user's editor, at any moment. *)
UserSave(p) ==
    /\ saves < MaxSaves
    /\ saves' = saves + 1
    /\ file' = [file EXCEPT ![p] = 0 - (saves + 1)]
    /\ replaced' = Replaced(p, 0 - (saves + 1))
    /\ UNCHANGED <<quarantine, history, lock, output, inv, interrupted, exporters, builds, deletes, faults>>

UserDelete(p) ==
    /\ deletes < MaxDeletes
    /\ file[p] # Absent
    /\ deletes' = deletes + 1
    /\ file' = [file EXCEPT ![p] = Absent]
    /\ replaced' = Replaced(p, Absent)
    /\ UNCHANGED <<quarantine, history, lock, output, inv, interrupted, exporters, builds, saves, faults>>

Next ==
    \/ \E i \in Invocations :
        \/ Begin(i) \/ Download(i) \/ BuildFails(i) \/ TryLock(i)
        \/ StageHistory(i) \/ StageFails(i) \/ Write(i) \/ WriteRefused(i)
        \/ Record(i) \/ RecordFails(i) \/ Retain(i)
        \/ VerifyOld(i) \/ Quarantine(i) \/ RemoveQuarantined(i) \/ SaveHistory(i)
        \/ Crash(i)
    \/ \E p \in Paths : UserSave(p) \/ UserDelete(p)

Spec == Init /\ [][Next]_vars
-----------------------------------------------------------------------------
(* Retention never destroys the user's work: whatever an editor saved is   *)
(* at its place or in a private sibling until the user or an export writes *)
(* that destination again, although RemoveVerified looks at the file long  *)
(* before it unlinks it and a crash may come in between.                   *)
EditsKept ==
    \A n \in 1..saves : \E p \in Paths :
        <<p, 0 - n>> \in replaced \cup quarantine \/ file[p] = 0 - n

(* The newest export a group has recorded is on disk with the bytes the    *)
(* history says, until it is overwritten or deleted by right: no retention *)
(* of any group removes it, and no other build of the same output          *)
(* directory slips its PDF into it.                                        *)
LatestKept ==
    \A g \in Groups : history[g] # <<>> =>
        LET e == Last(history[g]) IN
        file[e.path] = e.content \/ <<e.path, e.content>> \in replaced

(* Destinations whose new export no manifest names yet: its publication,   *)
(* which holds the lock, stands between its two renames.                   *)
Unrecorded == {inv[k].path : k \in {x \in Invocations : At(x, "written") /\ lock = x}}

(* generatedFiles of any invocation, the publishing one or another, names  *)
(* every export in the project, so that none becomes a source of a build;  *)
(* except that, from the time an export replaces its destination until the *)
(* manifest is renamed, only the publisher's own reservation names it, and *)
(* after a publication cut off there nothing does.                         *)
ExportsKnown ==
    \A i \in Invocations, p \in Paths :
        file[p] \in Exports /\ Cardinality(exporters[p]) = 1
            => p \in Generated(i) \cup Unrecorded \cup interrupted
=============================================================================
