----------------------------- MODULE JobLifecycle -----------------------------
(***************************************************************************)
(* What the server promises the clients of a compile job, with no queue,   *)
(* worker, session or database in sight: the life of each row, and the     *)
(* publication gate behind which the row of a succeeded job is completed.  *)
(* Several jobs may take a step at once (a revision supersedes another, a  *)
(* closing session cancels two).                                           *)
(***************************************************************************)
CONSTANTS Jobs

VARIABLES
    status,    \* the status of each job's row
    accounted, \* the result carries the compile cache's final accounting
    gates      \* jobs whose succeeded result Get does not return yet

vars == <<status, accounted, gates>>

Final == {"succeeded", "failed", "cancelled"}

Init ==
    /\ status = [j \in Jobs |-> "none"]
    /\ accounted = [j \in Jobs |-> FALSE]
    /\ gates = {}

(* The status changes a live server makes: submission, start, the end of a  *)
(* compile, cancellation, and removal of a finished row.  A revision whose  *)
(* admission fails half-way is created and cancelled under one lock.        *)
Moves(from) ==
    CASE from = "none" -> {"none", "queued", "cancelled"}
      [] from = "queued" -> {"queued", "running", "cancelled"}
      [] from = "running" -> {"running", "succeeded", "failed", "cancelled"}
      [] from \in Final -> {from, "deleted"}
      [] OTHER -> {from}

(* Only a succeeded row whose gate is still closed may be completed, and a  *)
(* gate is closed only by the submission that creates the row.              *)
Step ==
    /\ \A j \in Jobs : status'[j] \in Moves(status[j])
    /\ \A j \in Jobs : accounted'[j] # accounted[j]
                       => accounted'[j] /\ status[j] = "succeeded" /\ j \in gates
    /\ \A j \in gates' \ gates : status[j] = "none"

(* A restart: a running job is queued again, ended, or left for the next    *)
(* restart; a server without a database forgets every job.  Finished rows   *)
(* are otherwise kept as they are.                                          *)
Crash ==
    /\ \A j \in Jobs :
          \/ status[j] \in {"queued", "running"}
                /\ status'[j] \in {status[j], "queued", "cancelled", "deleted"}
          \/ status[j] \in Final /\ status'[j] \in {status[j], "deleted"}
          \/ status[j] \in {"none", "deleted"} /\ status'[j] = status[j]
    /\ accounted' = accounted
    /\ \A j \in gates' : status'[j] = "queued"

Next == Step \/ Crash

Spec == Init /\ [][Next]_vars
=============================================================================
