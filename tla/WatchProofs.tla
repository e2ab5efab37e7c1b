----------------------------- MODULE WatchProofs -----------------------------
(***************************************************************************)
(* Proofs about WatchLoop and its ChangeTracker for every set of files,    *)
(* every debounce time and maximum wait, and every number of edits, faults *)
(* and recovery rounds.                                                    *)
(***************************************************************************)
EXTENDS WatchLoop, TLAPS

(* The larger and the smaller of two numbers. *)
LEMMA MaxOfTwo ==
    ASSUME NEW a \in Int, NEW b \in Int
    PROVE  Max({a, b}) = IF a >= b THEN a ELSE b
<1> DEFINE m == IF a >= b THEN a ELSE b
<1>1. m \in {a, b} /\ \A y \in {a, b} : m >= y
  OBVIOUS
<1>2. \A x \in {a, b} : (\A y \in {a, b} : x >= y) => x = m
  OBVIOUS
<1>3. QED
  BY <1>1, <1>2 DEF Max

(* The smaller of two numbers. *)
LEMMA MinOfTwo ==
    ASSUME NEW a \in Int, NEW b \in Int
    PROVE  Min({a, b}) = IF a <= b THEN a ELSE b
<1> DEFINE m == IF a <= b THEN a ELSE b
<1>1. m \in {a, b} /\ \A y \in {a, b} : m <= y
  OBVIOUS
<1>2. \A x \in {a, b} : (\A y \in {a, b} : x <= y) => x = m
  OBVIOUS
<1>3. QED
  BY <1>1, <1>2 DEF Min

-----------------------------------------------------------------------------
(* A tracker that reports in time. ReportedInTime says it of the Tracker.  *)
Timely(t) ==
    /\ t.pending # {} => t.settle # Off
    /\ t.settle # Off => t.age + t.settle <= MaxWait

Sound(t) == t \in Tracker /\ Timely(t)

(* Recovery state ends with its compile: in between, there is none.        *)
NoRecovery == pc \in {"before", "after", "track", "begin", "wait"} => extra = {} /\ rounds = 0

WatchInv == WatchTypeOK /\ NoRecovery /\ Timely(tracker)

(* The bounds, as numbers. *)
LEMMA Numbers ==
    /\ Debounce \in Nat /\ MaxWait \in Nat \ {0} /\ MaxEdits \in Nat /\ MaxFaults \in Nat
    /\ MaxRounds \in Nat
    /\ Version \subseteq Nat /\ 0 \in Version /\ Off \in Int /\ Off < 0 /\ Unknown \in Int
BY TrackerAssumption, WatchAssumption DEF Version, Off, Unknown

(* arm keeps the timer within the maximum wait of the first change.        *)
LEMMA ArmedSound ==
    ASSUME NEW t \in Tracker
    PROVE  Sound(Armed(t)) /\ Armed(t).pending = t.pending /\ Armed(t).targets = t.targets
<1> DEFINE age == Max({t.age, 0})
           settle == Min({Debounce, Max({0, MaxWait - age})})
<1>1. t.age \in {Off} \cup 0..MaxWait
  BY DEF Tracker
<1>2. age \in 0..MaxWait
  BY <1>1, Numbers, MaxOfTwo
<1> HIDE DEF age
<1>3. MaxWait - age \in Nat /\ Max({0, MaxWait - age}) = MaxWait - age
  BY <1>2, Numbers, MaxOfTwo
<1>4. settle \in 0..Debounce /\ age + settle <= MaxWait
  <2>1. settle = IF Debounce <= MaxWait - age THEN Debounce ELSE MaxWait - age
    <3>1. Min({Debounce, MaxWait - age}) = IF Debounce <= MaxWait - age THEN Debounce ELSE MaxWait - age
      BY <1>3, Numbers, MinOfTwo
    <3>2. QED
      BY <1>3, <3>1
  <2> HIDE DEF settle
  <2>2. QED
    BY <1>2, <1>3, <2>1, Numbers
<1>5. Armed(t) = [t EXCEPT !.age = age, !.settle = settle]
  BY DEF Armed, age
<1> HIDE DEF settle
<1>6. /\ Armed(t) \in Tracker /\ Armed(t).age = age /\ Armed(t).settle = settle
      /\ Armed(t).pending = t.pending /\ Armed(t).targets = t.targets
  BY <1>2, <1>4, <1>5 DEF Tracker
<1>7. settle # Off
  BY <1>4, Numbers
<1>8. QED
  BY <1>4, <1>6, <1>7 DEF Sound, Timely

(* reconcile leaves the timer alone.                                       *)
LEMMA ReconciledType ==
    ASSUME file \in [Files -> Version], NEW t \in Tracker, NEW hinted, NEW members \in SUBSET Files
    PROVE  LET r == Reconciled(t, hinted, members) IN
           /\ r \in Tracker /\ r.settle = t.settle /\ r.age = t.age /\ r.targets = members
           /\ r.pending = t.pending \cup Changed(t, hinted, members)
<1>1. Changed(t, hinted, members) \subseteq Files
  BY DEF Changed, Joined, Left, Differs, Tracker
<1> DEFINE states == [f \in Files |->
                        IF f \in Differs(t, hinted, members) THEN file[f]
                        ELSE IF f \in Left(t, members) THEN Unknown ELSE t.states[f]]
<1>2. states \in [Files -> Version \cup {Unknown}]
  BY DEF Tracker
<1>3. Reconciled(t, hinted, members) =
        [t EXCEPT !.targets = members, !.pending = t.pending \cup Changed(t, hinted, members),
                  !.states = states]
  BY DEF Reconciled, Tracker
<1> HIDE DEF states
<1>4. QED
  BY <1>1, <1>2, <1>3 DEF Tracker

(* What was last seen of a file is a version of it.                        *)
LEMMA SeenType ==
    ASSUME NEW t \in Tracker, NEW f \in Files
    PROVE  Seen(t, f) \in Version
<1>1. t.states[f] \in Version \cup {Unknown}
  BY DEF Tracker
<1>2. QED
  <2>1. t.states[f] \in Int /\ (t.states[f] >= 0 => t.states[f] \in Version)
    <3>1. \A v \in Version \cup {Unknown} : v \in Int /\ (v >= 0 => v \in Version)
      BY TrackerAssumption DEF Unknown, Version
    <3>2. QED
      BY <1>1, <3>1
  <2>2. Seen(t, f) = IF t.states[f] >= 0 THEN t.states[f] ELSE 0
    BY <2>1, MaxOfTwo DEF Seen
  <2>3. QED
    BY <2>1, <2>2, Numbers

(* Every handler of Wait returns a tracker that reports in time.           *)
LEMMA NoticedSound ==
    ASSUME file \in [Files -> Version], NEW t, Sound(t), NEW hinted, NEW members \in SUBSET Files
    PROVE  Sound(Noticed(t, hinted, members))
<1> DEFINE r == Reconciled(t, hinted, members)
<1>1. /\ r \in Tracker /\ r.settle = t.settle /\ r.age = t.age
      /\ r.pending = t.pending \cup Changed(t, hinted, members)
  BY ReconciledType DEF Sound
<1>2. Noticed(t, hinted, members) = IF Changed(t, hinted, members) = {} THEN r ELSE Armed(r)
  BY DEF Noticed
<1> HIDE DEF r
<1>3. QED
  BY <1>1, <1>2, ArmedSound DEF Sound, Timely

(* The entry of Wait forgets the timer of the last one.                    *)
LEMMA BegunSound ==
    ASSUME file \in [Files -> Version], NEW t \in Tracker, NEW members \in SUBSET Files
    PROVE  Sound(Begun(t, members))
<1> DEFINE fresh == [t EXCEPT !.pending = {}, !.settle = Off, !.age = Off]
<1>1. fresh \in Tracker /\ fresh.pending = {} /\ fresh.settle = Off
  BY DEF Tracker
<1> HIDE DEF fresh
<1>2. Sound(fresh)
  BY <1>1 DEF Sound, Timely
<1>3. QED
  BY <1>2, NoticedSound DEF Begun, fresh

(* A watcher error reports every target, in time.                          *)
LEMMA OverflowedSound ==
    ASSUME file \in [Files -> Version], NEW t, Sound(t), NEW members \in SUBSET Files
    PROVE  Sound(Overflowed(t, members))
<1> DEFINE r == Reconciled(t, {}, members)
           all == [r EXCEPT !.pending = @ \cup members]
<1>1. r \in Tracker /\ r.settle = t.settle /\ r.age = t.age
  BY ReconciledType DEF Sound
<1>2. Overflowed(t, members) = IF all.pending = {} THEN all ELSE Armed(all)
  BY DEF Overflowed
<1> HIDE DEF r
<1>3. all \in Tracker /\ all.settle = t.settle /\ all.age = t.age
  BY <1>1 DEF Tracker
<1> HIDE DEF all
<1>4. QED
  BY <1>2, <1>3, ArmedSound DEF Sound, Timely

(* A hint alone restarts the timer, or finds one running.                  *)
LEMMA HintedSound ==
    ASSUME file \in [Files -> Version], NEW t, Sound(t), NEW f \in Files
    PROVE  Sound(Hinted(t, f))
<1> DEFINE u == [t EXCEPT !.states[f] = file[f], !.pending = @ \cup {f}]
<1>1. u \in Tracker
  <2>1. [t.states EXCEPT ![f] = file[f]] \in [Files -> Version \cup {Unknown}]
    BY DEF Sound, Tracker
  <2>2. u = [t EXCEPT !.states = [t.states EXCEPT ![f] = file[f]], !.pending = t.pending \cup {f}]
    BY DEF Sound, Tracker
  <2>3. QED
    BY <2>1, <2>2 DEF Sound, Tracker
<1>2. Hinted(t, f) = IF f \in t.targets THEN Armed(u) ELSE IF t.pending = {} THEN Armed(t) ELSE t
  BY DEF Hinted
<1> HIDE DEF u
<1>3. QED
  BY <1>1, <1>2, ArmedSound DEF Sound

(* A tracker without a timer has nothing pending.                          *)
LEMMA NewSound ==
    ASSUME file \in [Files -> Version], NEW targets \in SUBSET Files
    PROVE  Sound(NoTracker) /\ Sound(New(targets))
<1>1. NoTracker \in Tracker /\ NoTracker.pending = {} /\ NoTracker.settle = Off
  BY DEF NoTracker, Tracker
<1> DEFINE states == [f \in Files |-> IF f \in targets THEN file[f] ELSE Unknown]
<1>2. states \in [Files -> Version \cup {Unknown}]
  OBVIOUS
<1> HIDE DEF states
<1>3. New(targets) = [NoTracker EXCEPT !.targets = targets, !.states = states]
  BY DEF New, states
<1>4. New(targets) \in Tracker /\ New(targets).pending = {} /\ New(targets).settle = Off
  BY <1>1, <1>2, <1>3 DEF Tracker
<1>5. QED
  BY <1>1, <1>4 DEF Sound, Timely

(* Wait returns with the timer off and nothing pending.                    *)
LEMMA QuietSound ==
    ASSUME NEW t \in Tracker
    PROVE  /\ t.pending = {} => Sound(Quiet(t))
           /\ Sound([Quiet(t) EXCEPT !.pending = {}])
<1>1. /\ Quiet(t) \in Tracker /\ Quiet(t).settle = Off /\ Quiet(t).pending = t.pending
      /\ [Quiet(t) EXCEPT !.pending = {}] \in Tracker
      /\ [Quiet(t) EXCEPT !.pending = {}].settle = Off
      /\ [Quiet(t) EXCEPT !.pending = {}].pending = {}
  BY DEF Quiet, Tracker
<1>2. QED
  BY <1>1 DEF Sound, Timely

-----------------------------------------------------------------------------
(* What the loops select is sources, and what they hash is a manifest.     *)
LEMMA SelectionType ==
    ASSUME WatchTypeOK, NEW more \in SUBSET Sources
    PROVE  /\ Selection(more) \in SUBSET Sources
           /\ \A sel : Hashes(sel) \in Manifest
           /\ \A sel \in SUBSET Sources : Targets(sel) \in SUBSET Files
           /\ Members \in SUBSET Files /\ RefreshMembers \subseteq SUBSET Files
<1>1. Main \in Sources /\ Ignore \in Files /\ Sources \subseteq Files
  BY WatchAssumption DEF Sources
<1>2. \A m \in SUBSET Sources : Selection(m) \in SUBSET Sources
  BY <1>1 DEF Selection, CachedInputs, Candidates
<1>3. \A sel : Hashes(sel) \in Manifest
  BY <1>1, Numbers DEF Hashes, Manifest, WatchTypeOK
<1>4. \A sel \in SUBSET Sources : Targets(sel) \in SUBSET Files
  BY <1>1 DEF Targets
<1>5. tracker.targets \in SUBSET Files
  BY DEF WatchTypeOK, Tracker
<1>6. Members \in SUBSET Files
  BY <1>2, <1>4, <1>5 DEF Members
<1>7. QED
  BY <1>2, <1>3, <1>4, <1>5, <1>6 DEF RefreshMembers

(* Initially nothing is tracked. *)
LEMMA WatchInitially == Init => WatchInv
<1> SUFFICES ASSUME Init PROVE WatchInv
  OBVIOUS
<1>1. MaxEdits + 1 \in Version /\ 0 \in Version /\ Sources \subseteq Files
  BY Numbers DEF Version, Sources
<1>2. file \in [Files -> Version]
  BY <1>1 DEF Init
<1>3. tracker \in Tracker /\ Timely(tracker)
  BY <1>2, NewSound DEF Init, Sound
<1>4. known \in Manifest /\ before = known /\ snap \in Manifest /\ handled \in Manifest
  BY <1>1, <1>2 DEF Init, Manifest, Nothing
<1>5. {denies, failed, missed} \subseteq BOOLEAN
  BY DEF Init
<1>6. /\ rounds \in 0..MaxRounds /\ edits \in 0..MaxEdits /\ faults \in 0..MaxFaults
      /\ extra = {} /\ rounds = 0
  BY Numbers DEF Init
<1>7. /\ mode \in {"watch", "realtime"} /\ hints \subseteq Files /\ pc \in {"before", "track"}
      /\ cached = {} /\ chosen = {}
  BY DEF Init
<1>8. WatchTypeOK
  BY <1>2, <1>3, <1>4, <1>5, <1>6, <1>7 DEF WatchTypeOK
<1>9. QED
  BY <1>3, <1>6, <1>8 DEF WatchInv, NoRecovery

(* The parts of the type of a state, by name, for the steps that follow.   *)
LEMMA Parts ==
    ASSUME WatchInv
    PROVE  /\ WatchTypeOK /\ Sound(tracker) /\ file \in [Files -> Version] /\ hints \subseteq Files
           /\ mode \in {"watch", "realtime"}
           /\ denies \in BOOLEAN /\ failed \in BOOLEAN /\ missed \in BOOLEAN
           /\ cached \in SUBSET Sources /\ chosen \in SUBSET Sources /\ extra \in SUBSET Sources
           /\ known \in Manifest /\ before \in Manifest /\ snap \in Manifest /\ handled \in Manifest
           /\ rounds \in 0..MaxRounds /\ edits \in 0..MaxEdits /\ faults \in 0..MaxFaults
           /\ pc \in {"before", "after", "track", "begin", "wait"} => extra = {} /\ rounds = 0
           /\ pc \in {"before", "select", "capture", "upload", "job", "recover", "after", "track",
                      "begin", "wait", "ended"}
BY DEF WatchInv, WatchTypeOK, NoRecovery, Sound

(* And the same of the next state. *)
LEMMA Assembled ==
    ASSUME file' \in [Files -> Version], hints' \subseteq Files, Sound(tracker'),
           mode' \in {"watch", "realtime"},
           denies' \in BOOLEAN, failed' \in BOOLEAN, missed' \in BOOLEAN,
           cached' \in SUBSET Sources, chosen' \in SUBSET Sources, extra' \in SUBSET Sources,
           known' \in Manifest, before' \in Manifest, snap' \in Manifest, handled' \in Manifest,
           rounds' \in 0..MaxRounds, edits' \in 0..MaxEdits, faults' \in 0..MaxFaults,
           pc' \in {"before", "after", "track", "begin", "wait"} => extra' = {} /\ rounds' = 0,
           pc' \in {"before", "select", "capture", "upload", "job", "recover", "after", "track",
                   "begin", "wait", "ended"}
    PROVE  WatchInv'
<1>1. WatchTypeOK'
  BY DEF WatchTypeOK, Sound
<1>2. QED
  BY <1>1 DEF WatchInv, NoRecovery, Sound

-----------------------------------------------------------------------------
(* The compile of runWatch: none of its steps touches the tracker.         *)
LEMMA BuildKeeps ==
    ASSUME WatchInv,
           \/ Before \/ Select \/ Recheck \/ Upload \/ RequestFails \/ JobSucceeds \/ JobFails
           \/ JobNeedsFiles \/ Recover \/ After \/ \E f \in Sources : Capture(f)
    PROVE  WatchInv'
<1> USE Parts, Numbers
<1>1. /\ Nothing \in Manifest /\ {} \in SUBSET Sources /\ 0 \in 0..MaxRounds
      /\ TRUE \in BOOLEAN /\ FALSE \in BOOLEAN /\ (rounds = 0) \in BOOLEAN
      /\ \A m \in SUBSET Sources : Selection(m) \in SUBSET Sources /\ Hashes(Selection(m)) \in Manifest
  BY SelectionType DEF Nothing, Manifest
<1>2. ASSUME UNCHANGED <<diskVars, tracker, mode, cached, faults>>, GiveUp PROVE WatchInv'
  BY <1>1, <1>2, Assembled DEF GiveUp, diskVars
<1>3. CASE Before
  <2>1. known' \in Manifest /\ before' = known' /\ pc' = "select"
    BY <1>1, <1>3 DEF Before
  <2>2. UNCHANGED <<diskVars, tracker, mode, cached, snap, chosen, extra, rounds, ghostVars, faults>>
    BY <1>3 DEF Before
  <2>3. QED
    BY <2>1, <2>2, Assembled DEF diskVars, ghostVars
<1>4. CASE Select
  <2>1. CASE Selectable(extra)
    <3>1. /\ pc' = "capture" /\ chosen' \in SUBSET Sources /\ snap' = Nothing
          /\ UNCHANGED <<diskVars, tracker, mode, cached, faults, known, before, extra, rounds, ghostVars>>
      BY <1>1, <1>4, <2>1 DEF Select
    <3>2. QED
      BY <1>1, <3>1, Assembled DEF diskVars, ghostVars
  <2>2. QED
    BY <1>2, <1>4, <2>1 DEF Select
<1>5. CASE Recheck
  <2>1. CASE Selectable(extra) /\ Selection(extra) = chosen
    BY <1>5, <2>1, Assembled DEF Recheck, buildVars, ghostVars, diskVars
  <2>2. QED
    BY <1>2, <1>5, <2>1 DEF Recheck
<1>6. CASE Upload
  BY <1>6, Assembled DEF Upload, buildVars, ghostVars, diskVars
<1>7. faults < MaxFaults => faults + 1 \in 0..MaxFaults
  OBVIOUS
<1>8. CASE RequestFails
  <2>1. /\ pc' = "after" /\ failed' = TRUE /\ snap' = Nothing /\ chosen' = {} /\ extra' = {}
        /\ rounds' = 0 /\ faults' \in 0..MaxFaults
        /\ UNCHANGED <<diskVars, tracker, mode, cached, known, before, handled, missed>>
    BY <1>7, <1>8 DEF RequestFails, Fault
  <2>2. QED
    BY <1>1, <2>1, Assembled DEF diskVars
<1>9. ASSUME Returned, Finish, cached' \in SUBSET Sources, faults' \in 0..MaxFaults,
             UNCHANGED <<diskVars, tracker, mode, known, before>>
      PROVE  WatchInv'
  BY <1>1, <1>9, Assembled DEF Returned, Finish, diskVars
<1>10. CASE JobSucceeds
  BY <1>7, <1>9, <1>10 DEF JobSucceeds, Fault
<1>11. CASE JobFails
  BY <1>9, <1>11 DEF JobFails
<1>12. CASE JobNeedsFiles
  BY <1>1, <1>12, Assembled DEF JobNeedsFiles, Returned, buildVars, diskVars
<1>13. CASE Recover
  <2>1. CASE Resolvable
    <3>1. extra \cup MissingFiles \in SUBSET Sources
      BY <2>1 DEF Resolvable, Candidates
    <3>2. rounds + 1 \in 0..MaxRounds
      BY <2>1 DEF Resolvable
    <3>3. /\ extra' = extra \cup MissingFiles /\ rounds' = rounds + 1 /\ pc' = "select"
          /\ UNCHANGED <<known, before, snap, chosen, diskVars, tracker, mode, cached, ghostVars, faults>>
      BY <1>13, <2>1 DEF Recover
    <3>4. QED
      BY <3>1, <3>2, <3>3, Assembled DEF diskVars, ghostVars
  <2>2. CASE ~Resolvable
    <3>1. /\ Finish /\ UNCHANGED <<known, before>>
          /\ UNCHANGED <<diskVars, tracker, mode, cached, ghostVars, faults>>
      BY <1>13, <2>2 DEF Recover
    <3>2. QED
      BY <1>1, <3>1, Assembled DEF Finish, diskVars, ghostVars
  <2>3. QED
    BY <2>1, <2>2
<1>14. CASE After
  <2> DEFINE after == IF Selectable({}) THEN Hashes(Selection({})) ELSE before
  <2>1. after \in Manifest
    BY <1>1
  <2>2. /\ known' = after /\ pc' \in {"before", "track"} /\ pc = "after"
        /\ missed' = (before = after /\ \E f \in Sources : before[f] \notin {0, handled[f]})
        /\ UNCHANGED <<diskVars, tracker, mode, cached, before, snap, chosen, extra, rounds, handled, failed, faults>>
    BY <1>14 DEF After
  <2> HIDE DEF after
  <2>3. missed' \in BOOLEAN
    BY <2>2
  <2>4. QED
    BY <2>1, <2>2, <2>3, Assembled DEF diskVars
<1>15. CASE \E f \in Sources : Capture(f)
  <2>1. PICK f \in Sources : Capture(f)
    BY <1>15
  <2>2. CASE file[f] # 0
    <3>1. [snap EXCEPT ![f] = file[f]] \in Manifest
      BY DEF Manifest, Sources
    <3>2. /\ snap' = [snap EXCEPT ![f] = file[f]] /\ pc = "capture"
          /\ UNCHANGED <<pc, known, before, chosen, extra, rounds, ghostVars, diskVars, tracker, mode, cached, faults>>
      BY <2>1, <2>2 DEF Capture
    <3>3. QED
      BY <3>1, <3>2, Assembled DEF diskVars, ghostVars
  <2>3. QED
    BY <1>2, <2>1, <2>2 DEF Capture
<1>16. QED
  BY <1>3, <1>4, <1>5, <1>6, <1>8, <1>10, <1>11, <1>12, <1>13, <1>14, <1>15

(* Track and Observe start a tracker with nothing pending.                 *)
LEMMA TrackKeeps ==
    ASSUME WatchInv, Track \/ Observe
    PROVE  WatchInv'
<1> USE Parts
<1>1. /\ Selection({}) \in SUBSET Sources /\ Hashes(Selection({})) \in Manifest
      /\ \A sel \in SUBSET Sources : Targets(sel) \in SUBSET Files
  BY SelectionType
<1>2. \A sel \in SUBSET Sources : Sound(New(Targets(sel)))
  BY <1>1, NewSound
<1>3. CASE Track
  <2>1. {f \in Sources : known[f] # 0} \in SUBSET Sources
    OBVIOUS
  <2>2. /\ Sound(tracker') /\ pc = "track" /\ pc' = "begin"
        /\ missed' = (missed \/ \E f \in Sources : known[f] \notin {0, file[f]})
        /\ UNCHANGED <<diskVars, mode, cached, buildVars, handled, failed, faults>>
    BY <1>2, <1>3, <2>1 DEF Track
  <2>3. missed' \in BOOLEAN
    BY <2>2
  <2>4. QED
    BY <2>2, <2>3, Assembled DEF diskVars, buildVars
<1>4. CASE Observe
  <2>1. /\ Sound(tracker') /\ pc = "track" /\ pc' = "begin" /\ handled' \in Manifest
        /\ UNCHANGED <<diskVars, mode, cached, buildVars, failed, missed, faults>>
    BY <1>1, <1>2, <1>4 DEF Observe
  <2>2. QED
    BY <2>1, Assembled DEF diskVars, buildVars
<1>5. QED
  BY <1>3, <1>4

(* The handlers of Wait refresh the membership and then notice.            *)
LEMMA HandleKeeps ==
    ASSUME WatchInv, pc \in {"begin", "wait"}, NEW next, Sound(next), Handle(next),
           hints' \subseteq Files, UNCHANGED <<file, denies, edits>>, faults' \in 0..MaxFaults
    PROVE  WatchInv'
<1>1. pc' \in {"ended", "wait"} /\ Sound(tracker')
  BY Parts DEF Handle
<1>2. UNCHANGED <<mode, cached, buildVars, ghostVars>>
  BY DEF Handle
<1>3. QED
  BY <1>1, <1>2, Parts, Assembled DEF buildVars, ghostVars

(* Wait begins, or hears of an event, an error or the ticker.              *)
LEMMA WaitKeeps ==
    ASSUME WatchInv,
           \/ BeginWait \/ WatcherError \/ \E f \in Files : Event(f)
           \/ \E m \in RefreshMembers : Tick(m)
    PROVE  WatchInv'
<1> USE Parts
<1>1. Members \in SUBSET Files /\ RefreshMembers \subseteq SUBSET Files
  BY SelectionType
<1>2. CASE BeginWait
  <2>1. PICK m \in RefreshMembers : Handle(Begun(tracker, m))
    BY <1>2 DEF BeginWait
  <2>2. Sound(Begun(tracker, m))
    BY <1>1, BegunSound DEF Sound
  <2>3. QED
    BY <1>2, <2>1, <2>2, HandleKeeps DEF BeginWait, diskVars
<1>3. CASE WatcherError
  <2>1. Sound(Overflowed(tracker, Members))
    BY <1>1, OverflowedSound
  <2>2. faults' \in 0..MaxFaults
    BY <1>3, Numbers DEF WatcherError, Fault
  <2>3. QED
    BY <1>3, <2>1, <2>2, HandleKeeps DEF WatcherError, diskVars
<1>4. ASSUME NEW m \in RefreshMembers, Tick(m) PROVE WatchInv'
  <2>1. Sound(Noticed(tracker, {}, m))
    BY <1>1, NoticedSound
  <2>2. QED
    BY <1>4, <2>1, HandleKeeps DEF Tick, diskVars
<1>5. ASSUME NEW f \in Files, Event(f) PROVE WatchInv'
  <2>1. hints' \subseteq Files /\ UNCHANGED <<file, denies, edits, faults>> /\ pc = "wait"
    BY <1>5 DEF Event
  <2>2. CASE mode = "watch"
    <3>1. Sound(Noticed(tracker, {f}, Members))
      BY <1>1, NoticedSound
    <3>2. QED
      BY <1>5, <2>1, <2>2, <3>1, HandleKeeps DEF Event
  <2>3. CASE mode # "watch"
    <3>1. Sound(tracker')
      BY <1>5, <2>3, HintedSound DEF Event
    <3>2. UNCHANGED <<pc, mode, cached, buildVars, ghostVars>>
      BY <1>5, <2>3 DEF Event
    <3>3. QED
      BY <2>1, <3>1, <3>2, Assembled DEF buildVars, ghostVars
  <2>4. QED
    BY <2>2, <2>3
<1>6. QED
  BY <1>2, <1>3, <1>4, <1>5

(* The timer runs out: with nothing pending it is stopped, else Wait       *)
(* returns what is pending.                                                *)
LEMMA SettleKeeps ==
    ASSUME WatchInv, Settle
    PROVE  WatchInv'
<1> USE Parts
<1>1. Members \in SUBSET Files /\ Sources \subseteq Files
  BY SelectionType DEF Sources
<1>2. PICK t \in Tracker : SettledIn(t)
  <2>1. tracker \in Tracker /\ Reconciled(tracker, {}, Members) \in Tracker
    BY <1>1, ReconciledType DEF Sound
  <2>2. QED
    BY <2>1 DEF Settle
<1>3. pc = "wait" /\ UNCHANGED <<diskVars, mode, cached, buildVars, failed, missed, faults>>
  BY DEF Settle
<1>4. CASE t.pending = {}
  <2>1. Sound(tracker') /\ UNCHANGED <<pc, handled>>
    BY <1>2, <1>4, QuietSound DEF SettledIn
  <2>2. QED
    BY <1>3, <2>1, Assembled DEF diskVars, buildVars
<1>5. CASE t.pending # {}
  <2>1. Sound(tracker') /\ pc' \in {"before", "track", "begin"}
    BY <1>2, <1>5, QuietSound DEF SettledIn
  <2>2. [f \in Sources |-> Seen(t, f)] \in Manifest
    BY <1>1, SeenType DEF Manifest
  <2>3. handled' \in Manifest
    BY <1>2, <1>5, <2>2 DEF SettledIn
  <2>4. QED
    BY <1>3, <2>1, <2>3, Assembled DEF diskVars, buildVars
<1>6. QED
  BY <1>4, <1>5

(* Time passes, output files are written, and the user edits.              *)
LEMMA WorldKeeps ==
    ASSUME WatchInv, Pass \/ Noise \/ \E f \in Files : Save(f) \/ Remove(f)
    PROVE  WatchInv'
<1> USE Parts
<1>1. CASE Pass
  <2> DEFINE t == [tracker EXCEPT !.settle = @ - 1, !.age = @ + 1]
  <2>1. /\ tracker \in Tracker /\ Timely(tracker) /\ tracker.settle > 0
        /\ tracker.settle \in {Off} \cup 0..Debounce /\ tracker.age \in {Off} \cup 0..MaxWait
    BY <1>1 DEF Pass, Sound, Tracker
  <2>2. tracker.settle \in 1..Debounce /\ tracker.settle # Off
    BY <2>1, Numbers
  <2>3. tracker.age + tracker.settle <= MaxWait
    BY <2>1, <2>2 DEF Timely
  <2>4. /\ tracker.settle - 1 \in 0..Debounce
        /\ tracker.age + 1 \in 0..MaxWait
        /\ (tracker.age + 1) + (tracker.settle - 1) <= MaxWait
    BY <2>1, <2>2, <2>3, Numbers DEF Off
  <2>5. t \in Tracker /\ t.settle = tracker.settle - 1 /\ t.age = tracker.age + 1 /\ t.pending = tracker.pending
    BY <2>1, <2>4 DEF Tracker
  <2>6. t.settle # Off
    BY <2>4, <2>5, Numbers
  <2>7. tracker' = t /\ UNCHANGED <<diskVars, mode, cached, pc, buildVars, ghostVars, faults>>
    BY <1>1 DEF Pass
  <2> HIDE DEF t
  <2>8. Sound(tracker')
    BY <2>4, <2>5, <2>6, <2>7 DEF Sound, Timely
  <2>9. QED
    BY <2>7, <2>8, Assembled DEF diskVars, buildVars, ghostVars
<1>2. CASE Noise
  <2>1. Sound(tracker') /\ UNCHANGED <<diskVars, mode, cached, pc, buildVars, ghostVars, faults>>
    BY <1>2, ArmedSound DEF Noise, Sound
  <2>2. QED
    BY <2>1, Assembled DEF diskVars, buildVars, ghostVars
<1>3. ASSUME NEW f \in Files, NEW version \in Version, Edit(f, version) PROVE WatchInv'
  <2>1. file' \in [Files -> Version] /\ hints' \subseteq Files /\ denies' \in BOOLEAN
    BY <1>3 DEF Edit
  <2>2. edits' \in 0..MaxEdits
    BY <1>3, Numbers DEF Edit
  <2>3. UNCHANGED <<tracker, mode, cached, pc, buildVars, ghostVars, faults>>
    BY <1>3 DEF Edit
  <2>4. QED
    BY <2>1, <2>2, <2>3, Assembled DEF buildVars, ghostVars
<1>4. edits < MaxEdits => edits + 1 \in Version
  BY Numbers DEF Version
<1>5. ASSUME NEW f \in Files, Save(f) \/ Remove(f) PROVE WatchInv'
  <2>1. edits < MaxEdits
    BY <1>5 DEF Save, Remove, Edit
  <2>2. QED
    BY <1>3, <1>4, <1>5, <2>1, Numbers DEF Save, Remove
<1>6. QED
  BY <1>1, <1>2, <1>5

(* The invariant is inductive. *)
LEMMA WatchStep == WatchInv /\ [Next]_vars => WatchInv'
<1> SUFFICES ASSUME WatchInv, [Next]_vars PROVE WatchInv'
  OBVIOUS
<1>1. CASE Next
  BY <1>1, BuildKeeps, TrackKeeps, WaitKeeps, SettleKeeps, WorldKeeps DEF Next, BuildStep
<1>2. CASE UNCHANGED vars
  BY <1>2 DEF vars, diskVars, buildVars, ghostVars, WatchInv, WatchTypeOK, NoRecovery, Timely
<1>3. QED
  BY <1>1, <1>2

(* Snapshots, manifests and targets are what their types say, and the      *)
(* state of a missing-file recovery ends with its compile.                 *)
THEOREM WatchTypeCorrect == Spec => []WatchTypeOK
<1>1. WatchInv => WatchTypeOK
  BY DEF WatchInv
<1>2. QED
  BY <1>1, WatchInitially, WatchStep, PTL DEF Spec

(* A change that Wait has noticed is reported within the maximum wait of   *)
(* the first one, for every debounce time and however many edits, hints    *)
(* and watcher errors follow.                                              *)
THEOREM ReportedInTimeHolds == Spec => []ReportedInTime
<1>1. WatchInv => ReportedInTime
  BY DEF WatchInv, Timely, ReportedInTime
<1>2. QED
  BY <1>1, WatchInitially, WatchStep, PTL DEF Spec
=============================================================================
