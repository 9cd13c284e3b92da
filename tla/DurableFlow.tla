---------------------------- MODULE DurableFlow -----------------------------
(***************************************************************************)
(* What state.json promises to whoever resumes a run: the saved index of a *)
(* flow of Length top-level steps and its status (runState of state.go).   *)
(* The steps themselves, processes, crashes and restarts are not visible.  *)
(***************************************************************************)
EXTENDS Naturals

CONSTANT Length   \* the number of top-level steps, at least one

VARIABLES idx, status

Init == idx = 0 /\ status = "absent"

(* Execute records that the run exists. *)
Begin == status = "absent" /\ status' = "running" /\ idx' = 0

(* One more step has been finished. *)
Advance ==
  /\ status \in {"running", "paused", "failed"} /\ idx < Length
  /\ idx' = idx + 1
  /\ status' = IF idx' = Length THEN "completed" ELSE "running"

(* The step after the saved ones failed or asked for a human. *)
Halt ==
  /\ status \in {"running", "paused", "failed"} /\ idx < Length
  /\ status' \in {"paused", "failed"}
  /\ UNCHANGED idx

(* A write of the file is cut short, the first one included: nobody can    *)
(* resume the run.  The file of a completed flow is not written again.     *)
Lose ==
  /\ status \in {"absent", "running", "paused", "failed"}
  /\ status' = "torn" /\ idx' = 0

Next == Begin \/ Advance \/ Halt \/ Lose

Spec == Init /\ [][Next]_<<idx, status>>
=============================================================================
