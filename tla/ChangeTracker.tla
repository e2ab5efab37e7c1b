---------------------------- MODULE ChangeTracker ----------------------------
(***************************************************************************)
(* The file tracker of the CLI (packages/cli/internal/watch): Wait returns *)
(* the targets that changed, once they have been quiet for the debounce    *)
(* time and at the latest the maximum wait after the first change. Native  *)
(* notifications are hints that may be lost; polling reconciles what was   *)
(* last seen of every target with the file system, and membership of the   *)
(* target set is refreshed from the file selection.                        *)
(*                                                                         *)
(* A file is its version, 0 when it does not exist; Stat tells versions    *)
(* apart. Time is counted only while the settle timer runs.                *)
(***************************************************************************)
EXTENDS Integers, FiniteSetsExt

CONSTANTS
    Files,     \* every file that may be a target
    Debounce,  \* quiet time before a change is reported
    MaxWait,   \* longest time from the first change to its report
    MaxEdits   \* bound: saves and removals

ASSUME TrackerAssumption ==
    /\ IsFiniteSet(Files)
    /\ Debounce \in Nat /\ MaxWait \in Nat \ {0} /\ MaxEdits \in Nat

VARIABLES
    file,    \* the file system
    hints,   \* files with a notification under way
    tracker  \* the Tracker with the locals of its Wait

Off == 0 - 1
Unknown == 0 - 1
Version == 0..(MaxEdits + 1)

(* states: what was last seen of a target. pending: changes to report.     *)
(* settle: time left on the timer. age: time since firstChange.            *)
Tracker == [targets: SUBSET Files, states: [Files -> Version \cup {Unknown}], pending: SUBSET Files,
            settle: {Off} \cup 0..Debounce, age: {Off} \cup 0..MaxWait]

NoTracker == [targets |-> {}, states |-> [f \in Files |-> Unknown], pending |-> {},
              settle |-> Off, age |-> Off]

(* New stats its targets. *)
New(targets) ==
    [NoTracker EXCEPT !.targets = targets,
                      !.states = [f \in Files |-> IF f \in targets THEN file[f] ELSE Unknown]]

-----------------------------------------------------------------------------
(* reconcile, for the membership a refresh returned. A target without a    *)
(* state is compared with a file that does not exist.                      *)
Joined(t, members) == {f \in members : t.states[f] = Unknown}
Left(t, members) == t.targets \ members
Seen(t, f) == Max({t.states[f], 0})
Differs(t, hinted, members) == {f \in members : file[f] # Seen(t, f) \/ f \in hinted}
Changed(t, hinted, members) ==
    Joined(t, members) \cup Left(t, members) \cup Differs(t, hinted, members)

Reconciled(t, hinted, members) ==
    [t EXCEPT !.targets = members,
              !.pending = @ \cup Changed(t, hinted, members),
              !.states = [f \in Files |->
                  IF f \in Differs(t, hinted, members) THEN file[f]
                  ELSE IF f \in Left(t, members) THEN Unknown ELSE @[f]]]

(* arm: each change restarts the debounce time, within the maximum wait.   *)
ArmedUnbounded(t) == [t EXCEPT !.age = Max({@, 0}), !.settle = Debounce]
Armed(t) ==
    LET age == Max({t.age, 0}) IN
    [t EXCEPT !.age = age, !.settle = Min({Debounce, Max({0, MaxWait - age})})]

Noticed(t, hinted, members) ==
    LET r == Reconciled(t, hinted, members) IN
    IF Changed(t, hinted, members) = {} THEN r ELSE Armed(r)

(* The entry of Wait. *)
Begun(t, members) == Noticed([t EXCEPT !.pending = {}, !.settle = Off, !.age = Off], {}, members)

(* A watcher error voids what the hints said: every target is reported.    *)
Overflowed(t, members) ==
    LET r == Reconciled(t, {}, members)
        all == [r EXCEPT !.pending = @ \cup members] IN
    IF all.pending = {} THEN all ELSE Armed(all)

(* With a refresh interval an event alone is recorded, and one of a file   *)
(* that is no target makes room for a refresh after the burst.             *)
Hinted(t, f) ==
    IF f \in t.targets
    THEN Armed([t EXCEPT !.states[f] = file[f], !.pending = @ \cup {f}])
    ELSE IF t.pending = {} THEN Armed(t) ELSE t

Quiet(t) == [t EXCEPT !.settle = Off, !.age = Off]
-----------------------------------------------------------------------------
(* A change that has been noticed is reported in time: the settle timer    *)
(* runs whenever something is pending and ends within the maximum wait of  *)
(* the first change, however many edits, hints and watcher errors follow.  *)
ReportedInTime ==
    /\ tracker.pending # {} => tracker.settle # Off
    /\ tracker.settle # Off => tracker.age + tracker.settle <= MaxWait
=============================================================================
