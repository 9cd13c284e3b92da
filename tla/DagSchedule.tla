---------------------------- MODULE DagSchedule -----------------------------
(***************************************************************************)
(* What a work breakdown structure promises about its execution: specs     *)
(* are finished one at a time, none before all it depends on, and what is  *)
(* finished stays so.  Processes, crashes and callbacks are not visible.   *)
(***************************************************************************)
CONSTANTS Specs, DependsOn

VARIABLE finished

Init == finished = {}

Finish(s) ==
  /\ s \notin finished /\ DependsOn[s] \subseteq finished
  /\ finished' = finished \cup {s}

Next == \E s \in Specs : Finish(s)

Spec == Init /\ [][Next]_finished
=============================================================================
