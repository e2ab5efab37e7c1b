------------------------------ MODULE WatchLoop ------------------------------
(***************************************************************************)
(* The two loops of the CLI that follow edits (packages/cli/cmd/latexmk):  *)
(* runWatch, which submits an independent job for every change, with the   *)
(* one-shot client underneath (internal/client: select, capture, upload,   *)
(* wait for the job, and retry once more files are known to be needed),    *)
(* and observeLive, which announces changes to a realtime session.         *)
(*                                                                         *)
(* The user saves and removes sources and the ignore file at any moment.   *)
(* The server is external: a job ends in success or in a TeX error, and    *)
(* one whose snapshot lacks a dependency asks for it. What a realtime      *)
(* session does with an announcement is RealtimeClient's.                  *)
(***************************************************************************)
EXTENDS ChangeTracker

CONSTANTS
    Main,       \* the entry
    Deps,       \* inputs that only a run of TeX reveals
    Ignore,     \* .latexmkignore
    MaxRounds,  \* maxNeedsFileRounds
    MaxFaults   \* bound: failing requests, caches and watchers

ASSUME WatchAssumption ==
    /\ Files = {Main, Ignore} \cup Deps /\ Main # Ignore /\ {Main, Ignore} \cap Deps = {}
    /\ MaxRounds \in Nat /\ MaxFaults \in Nat

VARIABLES
    mode,     \* which of the two loops runs
    denies,   \* the ignore file names the dependencies
    cached,   \* the dependency cache: inputs of the last success
    pc,       \* where the loop is
    known,    \* runWatch's files: the last manifest, with hashes
    before,   \* the manifest the running compile is compared with
    snap,     \* the snapshot being captured or compiled
    chosen,   \* its selection
    extra,    \* files added by the missing-file recovery
    rounds,   \* its rounds
    handled,  \* what the last compile was of, or was announced
    failed,   \* the last compile ended with an error of the client
    missed,   \* an edit fell into one of the two gaps of runWatch
    edits, faults

buildVars == <<known, before, snap, chosen, extra, rounds>>
ghostVars == <<handled, failed, missed>>
diskVars == <<file, hints, denies, edits>>
vars == <<diskVars, tracker, mode, cached, pc, buildVars, ghostVars, faults>>

Sources == Files \ {Ignore}
Manifest == [Sources -> Version]
Nothing == [f \in Sources |-> 0]

WatchTypeOK ==
    /\ file \in [Files -> Version] /\ hints \subseteq Files /\ tracker \in Tracker
    /\ mode \in {"watch", "realtime"}
    /\ {denies, failed, missed} \subseteq BOOLEAN
    /\ {cached, chosen, extra} \subseteq SUBSET Sources
    /\ pc \in {"before", "select", "capture", "upload", "job", "recover", "after", "track",
               "begin", "wait", "ended"}
    /\ {known, before, snap, handled} \subseteq Manifest
    /\ rounds \in 0..MaxRounds /\ edits \in 0..MaxEdits /\ faults \in 0..MaxFaults
    (* Recovery state ends with its compile. *)
    /\ pc \in {"track", "begin", "wait"} => extra = {} /\ rounds = 0

Init ==
    /\ file = [f \in Files |-> IF f = Ignore THEN 0 ELSE MaxEdits + 1]
    /\ hints = {} /\ tracker = NoTracker
    /\ mode \in {"watch", "realtime"}
    /\ denies = FALSE /\ cached = {}
    /\ pc = IF mode = "watch" THEN "before" ELSE "track"
    /\ known = [f \in Sources |-> IF f = Main THEN file[f] ELSE 0] /\ before = known
    /\ snap = Nothing /\ chosen = {} /\ extra = {} /\ rounds = 0
    /\ handled = Nothing /\ failed = FALSE /\ missed = FALSE
    /\ edits = 0 /\ faults = 0

-----------------------------------------------------------------------------
(* policyManifest and selectFiles. Additions of the recovery are exact     *)
(* patterns that must match; cached inputs may have gone.                  *)
Candidates == {f \in Sources : file[f] # 0 /\ ~(denies /\ f \in Deps)}
Selectable(more) == Main \in Candidates /\ more \subseteq Candidates
CachedInputs == cached \cap Candidates
Selection(more) == {Main} \cup more \cup CachedInputs
Hashes(sel) == [f \in Sources |-> IF f \in sel THEN file[f] ELSE 0]
Fault == faults < MaxFaults /\ faults' = faults + 1

(* The top of runWatch's loop: a manifest that cannot be read is kept.     *)
Before ==
    /\ pc = "before"
    /\ known' = IF Selectable({}) THEN Hashes(Selection({})) ELSE known
    /\ before' = known'
    /\ pc' = "select"
    /\ UNCHANGED <<diskVars, tracker, mode, cached, snap, chosen, extra, rounds, ghostVars, faults>>

-----------------------------------------------------------------------------
(* Compile. An error before the first result ends it with that error; in   *)
(* a retry it is only a warning, and the result before it stands.          *)
GiveUp ==
    /\ pc' = "after"
    /\ failed' = (rounds = 0)
    /\ snap' = Nothing /\ chosen' = {} /\ extra' = {} /\ rounds' = 0
    /\ UNCHANGED <<known, before, handled, missed>>

Select ==
    /\ pc = "select"
    /\ IF Selectable(extra)
       THEN /\ pc' = "capture" /\ chosen' = Selection(extra) /\ snap' = Nothing
            /\ UNCHANGED <<known, before, extra, rounds, ghostVars>>
       ELSE GiveUp
    /\ UNCHANGED <<diskVars, tracker, mode, cached, faults>>

(* Freeze copies one file after another. *)
Capture(f) ==
    /\ pc = "capture" /\ f \in chosen /\ snap[f] = 0
    /\ IF file[f] # 0
       THEN snap' = [snap EXCEPT ![f] = file[f]] /\ UNCHANGED <<pc, known, before, chosen, extra, rounds, ghostVars>>
       ELSE GiveUp
    /\ UNCHANGED <<diskVars, tracker, mode, cached, faults>>

(* The selection is evaluated again once everything is captured.           *)
Recheck ==
    /\ pc = "capture" /\ \A f \in chosen : snap[f] # 0
    /\ IF Selectable(extra) /\ Selection(extra) = chosen
       THEN pc' = "upload" /\ UNCHANGED <<buildVars, ghostVars>>
       ELSE GiveUp
    /\ UNCHANGED <<diskVars, tracker, mode, cached, faults>>

Upload ==
    /\ pc = "upload"
    /\ pc' = "job"
    /\ UNCHANGED <<diskVars, tracker, mode, cached, buildVars, ghostVars, faults>>

(* A request fails, the job is cancelled, or the timeout ends the wait.    *)
RequestFails ==
    /\ pc \in {"upload", "job"}
    /\ Fault
    /\ pc' = "after"
    /\ failed' = TRUE
    /\ snap' = Nothing /\ chosen' = {} /\ extra' = {} /\ rounds' = 0
    /\ UNCHANGED <<diskVars, tracker, mode, cached, known, before, handled, missed>>

Returned == handled' = snap /\ failed' = FALSE /\ UNCHANGED missed
Finish == pc' = "after" /\ snap' = Nothing /\ chosen' = {} /\ extra' = {} /\ rounds' = 0

(* The inputs the compiler reports as missing from the snapshot.           *)
MissingFiles == Deps \ chosen

JobSucceeds ==
    /\ pc = "job" /\ MissingFiles = {}
    /\ Returned /\ Finish
    /\ \/ cached' = chosen /\ UNCHANGED faults
       \/ Fault /\ UNCHANGED cached
    /\ UNCHANGED <<diskVars, tracker, mode, known, before>>

JobFails ==
    /\ pc = "job"
    /\ Returned /\ Finish
    /\ UNCHANGED <<diskVars, tracker, mode, cached, known, before, faults>>

JobNeedsFiles ==
    /\ pc = "job" /\ MissingFiles # {}
    /\ Returned
    /\ pc' = "recover"
    /\ UNCHANGED <<diskVars, tracker, mode, cached, buildVars, faults>>

(* ResolveMissingFiles: every file asked for must be a candidate.          *)
Resolvable == rounds < MaxRounds /\ MissingFiles \subseteq Candidates
Recover ==
    /\ pc = "recover"
    /\ IF Resolvable
       THEN /\ extra' = extra \cup MissingFiles
            /\ rounds' = rounds + 1
            /\ pc' = "select"
            /\ UNCHANGED <<known, before, snap, chosen>>
       ELSE Finish /\ UNCHANGED <<known, before>>
    /\ UNCHANGED <<diskVars, tracker, mode, cached, ghostVars, faults>>

-----------------------------------------------------------------------------
(* selectedFilesChanged compares what was there before with what is now.   *)
SelectedFilesChangedNever(after) == FALSE
SelectedFilesChanged(after) == before # after

After ==
    LET after == IF Selectable({}) THEN Hashes(Selection({})) ELSE before IN
    /\ pc = "after"
    /\ known' = after
    /\ pc' = IF SelectedFilesChanged(after) THEN "before" ELSE "track"
    /\ missed' = (before = after /\ \E f \in Sources : before[f] \notin {0, handled[f]})
    /\ UNCHANGED <<diskVars, tracker, mode, cached, before, snap, chosen, extra, rounds, handled, failed, faults>>

(* newSourceTracker: the baseline is what the files are by now. *)
Targets(sel) == sel \cup {Ignore}
Track ==
    /\ pc = "track" /\ mode = "watch"
    /\ tracker' = New(Targets({f \in Sources : known[f] # 0}))
    /\ missed' = (missed \/ \E f \in Sources : known[f] \notin {0, file[f]})
    /\ pc' = "begin"
    /\ UNCHANGED <<diskVars, mode, cached, buildVars, handled, failed, faults>>

(* observeLive: the first revision is submitted from this state or later.  *)
Observe ==
    /\ pc = "track" /\ mode = "realtime"
    /\ Selectable({})
    /\ tracker' = New(Targets(Selection({})))
    /\ handled' = Hashes(Selection({}))
    /\ pc' = "begin"
    /\ UNCHANGED <<diskVars, mode, cached, buildVars, failed, missed, faults>>

-----------------------------------------------------------------------------
(* Refresh of the two loops: a failing selection ends runWatch, while the  *)
(* observer keeps the targets it has.                                      *)
RefreshFails == mode = "watch" /\ ~Selectable({})
Members == IF Selectable({}) THEN Targets(Selection({})) ELSE tracker.targets

(* Between two refreshes the observer only stats.                          *)
RefreshMembers == IF mode = "watch" THEN {Members} ELSE {Members, tracker.targets}

Handle(next) ==
    /\ IF RefreshFails
       THEN pc' = "ended" /\ UNCHANGED tracker
       ELSE tracker' = next /\ pc' = "wait"
    /\ UNCHANGED <<mode, cached, buildVars, ghostVars>>

BeginWait ==
    /\ pc = "begin"
    /\ \E m \in RefreshMembers : Handle(Begun(tracker, m))
    /\ UNCHANGED <<diskVars, faults>>

Event(f) ==
    /\ pc = "wait" /\ f \in hints
    /\ hints' = hints \ {f}
    /\ IF mode = "watch"
       THEN Handle(Noticed(tracker, {f}, Members))
       ELSE tracker' = Hinted(tracker, f) /\ UNCHANGED <<pc, mode, cached, buildVars, ghostVars>>
    /\ UNCHANGED <<file, denies, edits, faults>>

WatcherError ==
    /\ pc = "wait"
    /\ Fault
    /\ Handle(Overflowed(tracker, Members))
    /\ UNCHANGED diskVars

Tick(m) ==
    /\ pc = "wait"
    /\ m \in RefreshMembers
    /\ Handle(Noticed(tracker, {}, m))
    /\ UNCHANGED <<diskVars, faults>>

(* The settle timer has run out. *)
SettledIn(t) ==
    IF t.pending = {} THEN tracker' = Quiet(t) /\ UNCHANGED <<pc, handled>>
    ELSE /\ tracker' = [Quiet(t) EXCEPT !.pending = {}]
         /\ pc' = CASE mode = "watch" -> "before"
                    [] Ignore \in t.pending -> "track"
                    [] OTHER -> "begin"
         /\ handled' = IF mode = "watch" THEN handled
                       ELSE [f \in Sources |-> Seen(t, f)]

Settle ==
    /\ pc = "wait" /\ tracker.settle = 0
    /\ SettledIn(IF mode = "watch" THEN tracker ELSE Reconciled(tracker, {}, Members))
    /\ UNCHANGED <<diskVars, mode, cached, buildVars, failed, missed, faults>>

(* Time passes, but not beyond a timer that has run out. *)
Pass ==
    /\ pc = "wait" /\ tracker.settle > 0
    /\ tracker' = [tracker EXCEPT !.settle = @ - 1, !.age = @ + 1]
    /\ UNCHANGED <<diskVars, mode, cached, pc, buildVars, ghostVars, faults>>

-----------------------------------------------------------------------------
(* The user. An edit may leave a hint behind or not. *)
Edit(f, version) ==
    /\ pc # "ended" /\ edits < MaxEdits
    /\ edits' = edits + 1
    /\ file' = [file EXCEPT ![f] = version]
    /\ hints' \in {hints, hints \cup {f}}
    /\ denies' \in (IF f = Ignore /\ version # 0 THEN BOOLEAN
                    ELSE IF f = Ignore THEN {FALSE} ELSE {denies})
    /\ UNCHANGED <<tracker, mode, cached, pc, buildVars, ghostVars, faults>>

Save(f) == Edit(f, edits + 1)
Remove(f) == file[f] # 0 /\ Edit(f, 0)

(* Writes of output files are hints too. *)
Noise ==
    /\ pc = "wait" /\ mode = "realtime" /\ tracker.pending = {}
    /\ tracker' = Armed(tracker)
    /\ UNCHANGED <<diskVars, mode, cached, pc, buildVars, ghostVars, faults>>

BuildStep ==
    \/ Before \/ Select \/ Recheck \/ Upload \/ JobSucceeds \/ JobFails \/ JobNeedsFiles
    \/ Recover \/ After \/ Track \/ Observe \/ BeginWait
    \/ \E f \in Sources : Capture(f)
Refresh == Tick(Members)

Next ==
    \/ BuildStep \/ RequestFails
    \/ \E f \in Files : Event(f) \/ Save(f) \/ Remove(f)
    \/ WatcherError \/ Settle \/ Pass \/ Noise
    \/ \E m \in RefreshMembers : Tick(m)

Spec == Init /\ [][Next]_vars

(* The process runs, its ticker ticks and its timers expire. *)
FairSpec == Spec /\ WF_vars(BuildStep) /\ WF_vars(Refresh) /\ WF_vars(Settle) /\ WF_vars(Pass)
-----------------------------------------------------------------------------
(* Nothing saved is forgotten: once the edits pause, every selected file   *)
(* has been compiled (or announced) as it is now, whatever was edited      *)
(* while a compile was selecting, capturing, waiting or recovering, and    *)
(* whichever notifications were lost. Excused are a process that ended, a  *)
(* compile that ended in an error, an entry that does not exist, and the   *)
(* two gaps of runWatch: a file that changed between the last manifest and *)
(* the tracker's baseline, and one that changed while it was compiled and  *)
(* was back before the next manifest.                                      *)
UpToDate == \A f \in Selection({}) : handled[f] = file[f]
EditsCompiled == <>[](pc = "ended" \/ failed \/ missed \/ file[Main] = 0 \/ UpToDate)
=============================================================================
