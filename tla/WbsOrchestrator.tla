--------------------------- MODULE WbsOrchestrator --------------------------
(***************************************************************************)
(* The outer loop: Orchestrator.Execute of internal/execution, which runs  *)
(* the specs of a work breakdown structure in dependency order, asks the   *)
(* executor of each for its Status before it runs it, posts a callback     *)
(* after each, and records execution-orchestration.json at the end.        *)
(*                                                                         *)
(* A process handles one call of Execute.  It may be killed anywhere; a    *)
(* later process calls Execute again on the same run id.  Executors are    *)
(* seen through what Status will say of a spec, `finished'.  The generic   *)
(* flow (Service) asks execution-result.json, which Execute writes last;   *)
(* the Spec Kit lane (WorktreeExecutor) looks at the artifacts, and these  *)
(* agree with what Execute returns only on the whole.  The callback        *)
(* receiver is external: a post may get lost, or arrive though its answer  *)
(* does not.                                                               *)
(***************************************************************************)
EXTENDS Naturals

CONSTANTS
  Specs,       \* the ids of WBS.Specs
  Position,    \* their place in the file
  DependsOn,   \* SpecRef.DependsOn
  Lane,        \* the executor that a registry has for it: flow or worktree
  CallbackURL, \* OrchestrationRequest.CompletionURL is set
  None,        \* no spec
  FaultKinds,  \* the faults a behaviour may meet
  MaxFaults,   \* bound on their number
  MaxRuns      \* bound on the number of processes

(* WBS.Validate and Orchestrator.Execute have let the file through: ids    *)
(* are distinct, no spec depends on itself, every dependency is known.     *)
ASSUME WbsAssumption ==
  /\ None \notin Specs
  /\ Position \in [Specs -> Nat]
  /\ \A s, t \in Specs : Position[s] = Position[t] => s = t
  /\ DependsOn \in [Specs -> SUBSET Specs]
  /\ \A s \in Specs : s \notin DependsOn[s]
  /\ Lane \in [Specs -> {"flow", "worktree"}]
  /\ CallbackURL \in BOOLEAN

ASSUME WbsBounds ==
  /\ FaultKinds \subseteq {"crash", "post", "write", "registry"}
  /\ MaxFaults \in Nat /\ MaxRuns \in Nat

VARIABLES
  pc,        \* where the process is in Execute
  ready,     \* the rest of the batch readySpecs returned
  cur,       \* the spec being dispatched
  verdict,   \* whether runSpec returned an error for it
  status,    \* Status in the result that runSpec returned with it
  done,      \* local map `done'
  completed, \* local map `completed'
  exit,      \* how the last process returned; "none" while it runs or if killed
  finished,  \* the specs whose executor's Status reports Completed
  file,      \* Status in execution-orchestration.json
  told,      \* the callbacks the receiver has got: <<event, spec, status>>
  runs,      \* processes so far
  faults,    \* faults so far
  succeeded, \* history: the specs whose Execute has returned without an error
  unwritten  \* history: those that were executed to the end, and the result lost

local == <<ready, cur, verdict, status, done, completed>>
history == <<succeeded, unwritten>>
vars  == <<pc, local, exit, finished, file, told, runs, faults, history>>

(* The specs that an executor has called finished, one way or the other.   *)
Settled == finished \cup succeeded

Exits == {"none", "refused", "blocked", "ok", "fail"}

Fault(k) == k \in FaultKinds /\ faults < MaxFaults /\ faults' = faults + 1

Return(e) == pc' = "idle" /\ exit' = e

Goto(p) == pc' = p /\ UNCHANGED exit

-----------------------------------------------------------------------------
(* Mutant: the result of the previous process is cleared. *)
Start_ClearsResult ==
  /\ pc = "idle" /\ runs < MaxRuns
  /\ runs' = runs + 1
  /\ pc' = "scan" /\ exit' = "none" /\ file' = "absent"
  /\ ready' = {} /\ cur' = None /\ verdict' = "none" /\ status' = "none"
  /\ done' = {} /\ completed' = {}
  /\ UNCHANGED <<finished, told, faults, history>>

Start ==
  /\ pc = "idle" /\ runs < MaxRuns
  /\ runs' = runs + 1
  /\ pc' = "scan" /\ exit' = "none"
  /\ ready' = {} /\ cur' = None /\ verdict' = "none" /\ status' = "none"
  /\ done' = {} /\ completed' = {}
  /\ UNCHANGED <<finished, file, told, faults, history>>

(* The request, the WBS or the branches are refused before the loop.       *)
Refuse ==
  /\ pc = "idle" /\ runs < MaxRuns
  /\ runs' = runs + 1
  /\ Return("refused")
  /\ UNCHANGED <<local, finished, file, told, faults, history>>

(* Mutant: one finished dependency is enough. *)
ReadySpecs_AnyDependency ==
  {s \in Specs \ done : DependsOn[s] = {} \/ DependsOn[s] \cap completed # {}}

ReadySpecs == {s \in Specs \ done : DependsOn[s] \subseteq completed}

(* Mutant: Execute waits for blocked specs. *)
Scan_Waits ==
  /\ pc = "scan" /\ ready = {} /\ done # Specs
  /\ ready' = ReadySpecs /\ Goto("scan")
  /\ UNCHANGED <<cur, verdict, status, done, completed, finished, file, told, runs, faults,
                 history>>

(* The head of the outer loop, once the batch is used up.                  *)
Scan ==
  /\ pc = "scan" /\ ready = {} /\ done # Specs
  /\ ready' = ReadySpecs
  /\ IF ReadySpecs = {} THEN Return("blocked") ELSE Goto("scan")
  /\ UNCHANGED <<cur, verdict, status, done, completed, finished, file, told, runs, faults,
                 history>>

(* The batch is a slice in the order of the file.                          *)
NextInBatch(s) ==
  /\ pc = "scan" /\ s \in ready
  /\ \A t \in ready : Position[s] <= Position[t]

(* The registry of this process has no executor for the lane of s.         *)
NoExecutor(s) ==
  /\ NextInBatch(s) /\ \A t \in done : Lane[t] # Lane[s]
  /\ Fault("registry") /\ Return("fail")
  /\ UNCHANGED <<local, finished, file, told, runs, history>>

(* Mutant: a spec that is skipped does not count as completed. *)
Record_SkipForgotten(s, v, st) ==
  /\ verdict' = v /\ status' = st /\ done' = done \cup {s}
  /\ completed' = IF v = "ok" /\ s \notin finished THEN completed \cup {s} ELSE completed
  /\ Goto("notify")

(* runSpec has returned v for s, and a result with Status st.              *)
Record(s, v, st) ==
  /\ verdict' = v /\ status' = st /\ done' = done \cup {s}
  /\ completed' = IF v = "ok" THEN completed \cup {s} ELSE completed
  /\ Goto("notify")

(* Status says Completed.                                                  *)
Skip(s) ==
  /\ NextInBatch(s) /\ s \in finished
  /\ Record(s, "ok", "completed")
  /\ cur' = s /\ ready' = ready \ {s}
  /\ UNCHANGED <<finished, file, told, runs, faults, history>>

Dispatch(s) ==
  /\ NextInBatch(s) /\ s \notin finished
  /\ Goto("execute")
  /\ cur' = s /\ ready' = ready \ {s}
  /\ UNCHANGED <<verdict, status, done, completed, finished, file, told, runs, faults,
                 history>>

(* Executor.Execute returns v.  The Spec Kit lane also returns an error    *)
(* when a step failed whose failure the flow then tolerated or repaired,   *)
(* though Status will say Completed; and it returns none when a task is    *)
(* left unchecked, though Status will not.                                 *)
ExecutorReturns ==
  /\ pc = "execute"
  /\ \E v \in {"ok", "fail"} :
       /\ Record(cur, v, IF v = "ok" THEN "completed" ELSE "failed")
       /\ succeeded' = IF v = "ok" THEN succeeded \cup {cur} ELSE succeeded
       /\ \/ (v = "ok" \/ Lane[cur] = "worktree") /\ finished' = finished \cup {cur}
          \/ (v = "fail" \/ Lane[cur] = "worktree") /\ UNCHANGED finished
  /\ UNCHANGED <<ready, cur, file, told, runs, faults, unwritten>>

(* The spec was executed without an error, but execution-result.json       *)
(* cannot be written: the result that says completed is returned with the  *)
(* error of the write.  Only the Spec Kit lane is finished without it.     *)
ResultUnwritten ==
  /\ pc = "execute" /\ Fault("write")
  /\ Record(cur, "fail", "completed")
  /\ unwritten' = unwritten \cup {cur}
  /\ \/ UNCHANGED finished
     \/ Lane[cur] = "worktree" /\ finished' = finished \cup {cur}
  /\ UNCHANGED <<ready, cur, file, told, runs, succeeded>>

-----------------------------------------------------------------------------
(* notify: the answer it gives Execute, and what reaches the receiver.     *)
Posted(m) ==
  told' = IF CallbackURL THEN told \cup {m} ELSE told

PostFails(m) ==
  /\ CallbackURL /\ Fault("post")
  /\ told' \in {told, told \cup {m}}

RunMessage(st) == <<"run.completed", None, st>>

(* Mutant: the status of the event is that of its name. *)
SpecMessage_Completed == <<"spec.completed", cur, "completed">>

(* The status is that of the result, whatever runSpec returned with it.    *)
SpecMessage == <<"spec.completed", cur, status>>

SpecNotified ==
  /\ pc = "notify"
  /\ Posted(SpecMessage)
  /\ Goto(IF verdict = "ok" THEN "scan" ELSE "failed")
  /\ UNCHANGED <<local, finished, file, runs, faults, history>>

SpecNotifyFails ==
  /\ pc = "notify"
  /\ PostFails(SpecMessage)
  /\ Return("fail")
  /\ UNCHANGED <<local, finished, file, runs, history>>

(* Mutant: the verdict is recorded for the status. *)
RecordFailure_Verdict ==
  /\ pc = "failed"
  /\ \/ file' = verdict /\ UNCHANGED faults
     \/ file' \in {file, "torn"} /\ Fault("write")
  /\ Goto("notifyFailed")
  /\ UNCHANGED <<local, finished, told, runs, history>>

(* The first failure ends the run: the result is recorded, whatever        *)
(* writeJSON says, and the receiver told.                                  *)
RecordFailure ==
  /\ pc = "failed"
  /\ \/ file' = "failed" /\ UNCHANGED faults
     \/ file' \in {file, "torn"} /\ Fault("write")
  /\ Goto("notifyFailed")
  /\ UNCHANGED <<local, finished, told, runs, history>>

FailureNotified ==
  /\ pc = "notifyFailed"
  /\ \/ Posted(RunMessage("failed")) /\ UNCHANGED faults
     \/ PostFails(RunMessage("failed"))
  /\ Return("fail")
  /\ UNCHANGED <<local, finished, file, runs, history>>

(* Mutant: the receiver is told before the result is recorded. *)
RecordSuccess_NotWritten ==
  /\ pc = "scan" /\ ready = {} /\ done = Specs
  /\ UNCHANGED <<file, faults>> /\ Goto("notifyCompleted")
  /\ UNCHANGED <<local, finished, told, runs, history>>

RecordSuccess ==
  /\ pc = "scan" /\ ready = {} /\ done = Specs
  /\ \/ file' = "completed" /\ UNCHANGED faults /\ Goto("notifyCompleted")
     \/ file' \in {file, "torn"} /\ Fault("write") /\ Return("fail")
  /\ UNCHANGED <<local, finished, told, runs, history>>

SuccessNotified ==
  /\ pc = "notifyCompleted"
  /\ \/ Posted(RunMessage("completed")) /\ UNCHANGED faults /\ Return("ok")
     \/ PostFails(RunMessage("completed")) /\ Return("fail")
  /\ UNCHANGED <<local, finished, file, runs, history>>

-----------------------------------------------------------------------------
(* The process is killed: its executor may have finished the spec just     *)
(* before, the result file may be truncated, a callback under way may have *)
(* arrived.                                                                *)
UnderWay(m) ==
  \/ pc = "notify" /\ m = SpecMessage
  \/ pc = "notifyFailed" /\ m = RunMessage("failed")
  \/ pc = "notifyCompleted" /\ m = RunMessage("completed")

Crash ==
  /\ pc # "idle" /\ Fault("crash")
  /\ pc' = "idle" /\ exit' = "none"
  /\ \/ UNCHANGED <<finished, file, told>>
     \/ /\ pc = "execute"
        /\ finished' = finished \cup {cur} /\ UNCHANGED <<file, told>>
     \/ /\ pc = "failed" \/ (pc = "scan" /\ ready = {} /\ done = Specs)
        /\ file' = "torn" /\ UNCHANGED <<finished, told>>
     \/ /\ CallbackURL /\ UNCHANGED <<finished, file>>
        /\ \E m \in {SpecMessage, RunMessage("failed"), RunMessage("completed")} :
             UnderWay(m) /\ told' = told \cup {m}
  /\ UNCHANGED <<local, runs, history>>

Init ==
  /\ pc = "idle" /\ ready = {} /\ cur = None /\ verdict = "none" /\ status = "none"
  /\ done = {} /\ completed = {} /\ exit = "none"
  /\ finished = {} /\ file = "absent" /\ told = {} /\ runs = 0 /\ faults = 0
  /\ succeeded = {} /\ unwritten = {}

ProcessStep ==
  \/ Scan
  \/ \E s \in Specs : NoExecutor(s) \/ Skip(s) \/ Dispatch(s)
  \/ ExecutorReturns \/ ResultUnwritten
  \/ SpecNotified \/ SpecNotifyFails
  \/ RecordFailure \/ FailureNotified
  \/ RecordSuccess \/ SuccessNotified

Next == Start \/ Refuse \/ ProcessStep \/ Crash

Spec == Init /\ [][Next]_vars

(* A running process keeps going, and the executors it calls return.       *)
FairSpec == Spec /\ WF_vars(ProcessStep)
-----------------------------------------------------------------------------
(* Type invariant: the locals of Execute, the executors' records and the   *)
(* result file keep their shape.                                           *)
TypeOK ==
  /\ pc \in {"idle", "scan", "execute", "notify", "failed", "notifyFailed",
             "notifyCompleted"}
  /\ ready \in SUBSET Specs /\ cur \in Specs \cup {None}
  /\ verdict \in {"none", "ok", "fail"} /\ status \in {"none", "completed", "failed"}
  /\ done \in SUBSET Specs /\ completed \in SUBSET Specs
  /\ exit \in Exits
  /\ finished \in SUBSET Specs /\ succeeded \in SUBSET Specs /\ unwritten \in SUBSET Specs
  /\ file \in {"absent", "torn", "failed", "completed"}
  /\ told \in SUBSET ({"spec.completed", "run.completed"}
                        \X (Specs \cup {None}) \X {"completed", "failed"})
  /\ runs \in Nat /\ faults \in Nat

(* An executor runs only when every dependency of its spec is settled by   *)
(* the account of that dependency's own executor, in this process or in an *)
(* earlier one.                                                            *)
DependenciesSettled == pc = "execute" => DependsOn[cur] \subseteq Settled

(* Whatever the outside is told is true: a result file or a run callback   *)
(* that says completed means that every spec is settled; a spec callback   *)
(* that says so, that this one is, or that it was executed to the end by a *)
(* process that could not write its result, and that then posts no more    *)
(* than failures: it goes on to no other spec.                             *)
ReportsAreTrue ==
  /\ (file = "completed" \/ RunMessage("completed") \in told) => Settled = Specs
  /\ \A s \in Specs :
       <<"spec.completed", s, "completed">> \in told => s \in Settled \cup unwritten
  /\ (pc # "idle" /\ cur \in done \ completed) =>
       pc \in {"notify", "failed", "notifyFailed"}

(* Success is complete: a process that returns no error leaves every spec  *)
(* settled, the result file completed and the receiver told; and nobody    *)
(* hears that the run is completed before it has heard so of every spec,   *)
(* and before a result was written, in this process or an earlier one.     *)
SuccessIsComplete ==
  /\ exit = "ok" => /\ Settled = Specs /\ file = "completed"
                    /\ CallbackURL => RunMessage("completed") \in told
  /\ RunMessage("completed") \in told =>
       /\ \A s \in Specs : <<"spec.completed", s, "completed">> \in told
       /\ file # "absent"

(* `dependency cycle or blocked specs' is said only of specs that wait for *)
(* each other: each of those not done depends on another one of them.      *)
BlockedOnlyByCycle ==
  exit = "blocked" =>
    LET S == Specs \ done
    IN  S # {} /\ \A s \in S : DependsOn[s] \cap S # {}

(* A result file that says completed is overwritten (but for a save cut    *)
(* short) only after the Spec Kit lane has run again, and failed, a spec   *)
(* that it had once returned without an error.                             *)
CompletedOutlivesReruns ==
  [][(file = "completed" /\ file' \notin {"completed", "torn"})
       => verdict = "fail" /\ Lane[cur] = "worktree" /\ cur \in succeeded]_vars

(* Every call of Execute returns, unless it is killed.                     *)
EveryRunEnds == pc # "idle" ~> pc = "idle"

-----------------------------------------------------------------------------
(* The specs as their executors account for them (DagSchedule).            *)
Dag == INSTANCE DagSchedule WITH finished <- Settled

(* The orchestrator settles specs one at a time, none before all that it   *)
(* depends on, across failures, crashes and repeated runs.                 *)
ImplementsDag == Dag!Spec
=============================================================================
