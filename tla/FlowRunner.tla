----------------------------- MODULE FlowRunner -----------------------------
(***************************************************************************)
(* The flow engine: Runner.Execute, Runner.Resume and the recursive        *)
(* descent executeStepWithPolicy / executeStep / executeLoopStep of        *)
(* internal/flow, the state.json file they leave behind, and the git       *)
(* commits they make after each top-level step.                            *)
(*                                                                         *)
(* A flow is a finite tree of steps, each occurring once.  Control is in   *)
(* the Go function activation of the step `at'; the activations below it   *)
(* on the Go stack are those of its ancestors, so loc[s] is the frame of s *)
(* and the stack itself needs no variable.  The root of the tree is the    *)
(* workflow definition handed to Execute or Resume.                        *)
(*                                                                         *)
(* What a leaf step (command, agent, tool, function, verify) does is       *)
(* external: it may succeed or fail, and a mutating one may change the     *)
(* worktree either way.                                                    *)
(***************************************************************************)
EXTENDS Naturals, Sequences, FiniteSets

CONSTANTS
  Step,             \* the steps of the flow, the root included
  Root,             \* the definition given to Execute and Resume
  None,             \* no step: no process runs, or the root's parent
  Def,              \* the definition of every step
  CommitLocalSteps, \* Runner.CommitLocalSteps
  FaultKinds,       \* the faults a behaviour may meet
  MaxFaults,        \* bound on the number of faults in a behaviour
  MaxRuns           \* bound on the number of processes started on the run id

LeafType == {"command", "agent", "tool", "function", "verify"}
StepType == LeafType \cup {"gate", "loop", "workflow"}
Outcome  == {"ok", "fail", "pause"}

(* The fields of flow.Step that steer control.  parent and top describe    *)
(* the tree: the enclosing step, and the root's child a step belongs to.   *)
(* when, exitWhen, verify: the step has a `when' guard, an `exit_when'     *)
(* map, a `verify' list.  staged: the definition has Stages; its body is   *)
(* then the setup, steps and after lists of the stages in order, with one  *)
(* verify step for each stage's Verify list.                               *)
StepDef == [ type : StepType, function : {"none", "branch", "merge", "other"},
             body : Seq(Step), setup : Seq(Step),
             parent : Step \cup {None}, top : Step,
             onError : {"fail", "retry", "continue", "escalate"},
             retries : Nat, maxIterations : Nat,
             when : BOOLEAN, exitWhen : BOOLEAN, verify : BOOLEAN,
             staged : BOOLEAN ]

ASSUME FlowAssumption ==
  /\ None \notin Step
  /\ Def \in [Step -> StepDef]
  /\ Root \in Step /\ Def[Root].type = "workflow"
  /\ Def[Root].parent = None /\ Def[Root].setup = << >>
  /\ \A s \in Step :
       /\ s # Root => Def[s].parent \in Step
       /\ \A i \in 1..Len(Def[s].body)  : Def[Def[s].body[i]].parent = s
       /\ \A i \in 1..Len(Def[s].setup) : Def[Def[s].setup[i]].parent = s
       /\ s # Root => Def[s].top = IF Def[s].parent = Root
                                     THEN s ELSE Def[Def[s].parent].top
       /\ \A i, j \in 1..Len(Def[s].body) : Def[s].body[i] = Def[s].body[j] => i = j
       /\ Def[s].type = "loop" => Def[s].body # << >> /\ Def[s].maxIterations > 0

(* A step occurs once: in the body of its parent or in its setup.          *)
ASSUME OnceAssumption ==
  \A s \in Step : \A i, j \in 1..Len(Def[s].setup) :
    /\ Def[s].setup[i] = Def[s].setup[j] => i = j
    /\ \A k \in 1..Len(Def[s].body) : Def[s].setup[i] # Def[s].body[k]

ASSUME BoundAssumption ==
  /\ CommitLocalSteps \in BOOLEAN
  /\ FaultKinds \subseteq {"crash", "torn", "save", "commit", "artifact"}
  /\ MaxFaults \in Nat /\ MaxRuns \in Nat

VARIABLES
  at,       \* the step whose activation is on top of the stack
  pc,       \* where in that activation control is
  ret,      \* what the callee has just returned to it
  loc,      \* the local variables of every activation
  auto,     \* Runner.AutoApproveGates of the process
  exit,     \* what the last process returned; "none" while it runs or if killed
  disk,     \* state.json; owner is the definition that wrote it (not stored)
  inbox,    \* the steps with an item in .dft/inbox
  dirty,    \* the steps with uncommitted changes in the worktree
  runs,     \* processes started so far
  faults,   \* faults so far
  done,     \* history: the steps whose policy has returned without an error
  ran,      \* history: the leaf steps that have run
  approved, \* history: the gates that have been approved
  failed    \* history of this process: the steps whose last outcome is an error

control == <<at, pc, ret, loc>>
history == <<done, ran, approved, failed>>
vars    == <<control, auto, exit, disk, inbox, dirty, runs, faults, history>>

Frame == [setup : Nat, attempt : Nat, idx : Nat, iter : Nat]
Fresh == [setup |-> 0, attempt |-> 0, idx |-> 0, iter |-> 0]

DiskStatus == {"absent", "torn", "running", "paused", "failed", "completed"}
Absent     == [status |-> "absent", idx |-> 0, owner |-> Root]
Torn       == [status |-> "torn", idx |-> 0, owner |-> Root]
Readable   == disk.status \notin {"absent", "torn"}

N        == Len(Def[Root].body)
Child(s) == Def[s].body[loc[s].idx + 1]

RetryAttempts(s) ==
  CASE Def[s].type = "loop"      -> 1
    [] Def[s].type # "loop" /\ Def[s].maxIterations > 0 -> Def[s].maxIterations
    [] Def[s].type # "loop" /\ Def[s].maxIterations = 0 ->
         IF Def[s].onError = "retry" THEN Def[s].retries + 1 ELSE 1

OnErrorMode(s) == IF Def[s].onError = "retry" THEN "fail" ELSE Def[s].onError

MutatesLocal(s) ==
  \/ Def[s].type \in {"tool", "agent", "command"}
  \/ Def[s].type = "function" /\ Def[s].function \in {"branch", "merge"}

-----------------------------------------------------------------------------
(* Control transfer.                                                       *)

Ready(s, p) == at = s /\ pc = p

CanAttempt(s) == Ready(s, "policy") /\ loc[s].setup = Len(Def[s].setup)

Continue(s, p) == at' = s /\ pc' = p /\ ret' = "none"

Call(c) ==
  /\ Continue(c, "policy")
  /\ loc' = [loc EXCEPT ![c] = Fresh]
  /\ UNCHANGED history

(* executeStepWithPolicy(s) returns o to the activation that called it.    *)
Leave(s, o) ==
  /\ at' = Def[s].parent /\ pc' = "returned" /\ ret' = o
  /\ done' = IF o = "ok" THEN done \cup {s} ELSE done
  /\ failed' = IF o = "fail" THEN failed \cup {s} ELSE failed \ {s}

(* Mutant: on_error: continue also tolerates the errors of a loop. *)
Settle_ToleratesLoops(s, o, n) ==
  IF o = "fail" /\ n < RetryAttempts(s)
    THEN Continue(s, "policy") /\ UNCHANGED <<inbox, done, failed>>
    ELSE /\ Leave(s, IF o = "fail" /\ OnErrorMode(s) = "continue" THEN "ok" ELSE o)
         /\ inbox' = IF o = "fail" /\ OnErrorMode(s) = "escalate"
                       THEN inbox \cup {s} ELSE inbox

(* The policy of s once its n-th attempt has ended with o.                 *)
Settle(s, o, n) ==
  IF o = "fail" /\ n < RetryAttempts(s)
    THEN Continue(s, "policy") /\ UNCHANGED <<inbox, done, failed>>
    ELSE LET tolerated == OnErrorMode(s) = "continue" /\ Def[s].type # "loop"
         IN  /\ Leave(s, IF o = "fail" /\ tolerated THEN "ok" ELSE o)
             /\ inbox' = IF o = "fail" /\ OnErrorMode(s) = "escalate"
                           THEN inbox \cup {s} ELSE inbox

(* The attempt has succeeded but for the post-conditions of verifyStep.    *)
Verify(s, n) ==
  \E o \in (IF Def[s].verify THEN {"ok", "fail"} ELSE {"ok"}) : Settle(s, o, n)

(* Mutant: attempts are not counted. *)
BeginAttempt_NotCounted(s) == UNCHANGED loc

BeginAttempt(s) ==
  loc' = [loc EXCEPT ![s] = [setup |-> @.setup, attempt |-> @.attempt + 1,
                             idx |-> 0, iter |-> 0]]

NextSetup(s) == loc' = [loc EXCEPT ![s].setup = loc[s].setup + 1]
NextChild(s) == loc' = [loc EXCEPT ![s].idx = loc[s].idx + 1]

(* Execute or resumeFromState on the definition s returns o.               *)
EndFlow(s, o) ==
  IF s = Root
    THEN /\ at' = None /\ pc' = "idle" /\ ret' = "none" /\ exit' = o
         /\ UNCHANGED <<inbox, done, failed>>
    ELSE /\ IF o = "ok" THEN Verify(s, loc[s].attempt)
                        ELSE Settle(s, o, loc[s].attempt)
         /\ UNCHANGED exit

(* Mutant: a pause is saved under a status no reader knows. *)
SaveState_UnknownStatus(s, i, st) ==
  disk' = [status |-> IF st = "paused" THEN "waiting" ELSE st, idx |-> i, owner |-> s]

SaveState(s, i, st) == disk' = [status |-> st, idx |-> i, owner |-> s]

-----------------------------------------------------------------------------
(* Processes: the first one calls Execute, later ones call Resume.         *)

Launch(p, i, a) ==
  /\ Continue(Root, p)
  /\ loc' = [s \in Step |->
               IF s = Root THEN [setup |-> 0, attempt |-> 1, idx |-> i, iter |-> 0]
                           ELSE Fresh]
  /\ auto' = a /\ exit' = "none" /\ failed' = {} /\ runs' = runs + 1
  /\ UNCHANGED <<disk, inbox, dirty, faults, done, ran, approved>>

Execute(a) ==
  /\ at = None /\ runs = 0 /\ MaxRuns > 0
  /\ Launch("start", 0, a)

(* Mutant: the saved index is taken for the last finished step. *)
Resume_OffByOne(a) ==
  /\ at = None /\ runs > 0 /\ runs < MaxRuns
  /\ Readable /\ ~Def[Root].staged
  /\ Launch("flow", IF disk.idx + 1 > N THEN N ELSE disk.idx + 1, a)

Resume(a) ==
  /\ at = None /\ runs > 0 /\ runs < MaxRuns
  /\ Readable /\ ~Def[Root].staged
  /\ Launch("flow", IF disk.idx > N THEN N ELSE disk.idx, a)

(* The first thing Execute does is to record that the run exists.          *)
StartFlow(s) ==
  /\ Ready(s, "start")
  /\ SaveState(s, 0, "running")
  /\ Continue(s, "flow")
  /\ UNCHANGED <<loc, auto, exit, inbox, dirty, runs, faults, history>>

-----------------------------------------------------------------------------
(* executeStepWithPolicy and executeStep.                                  *)

RunSetup(s) ==
  /\ Ready(s, "policy") /\ loc[s].setup < Len(Def[s].setup)
  /\ Call(Def[s].setup[loc[s].setup + 1])
  /\ UNCHANGED <<auto, exit, disk, inbox, dirty, runs, faults>>

(* Mutant: an error of a setup step is dropped. *)
SetupReturned_IgnoresErrors(s) ==
  /\ Ready(s, "returned") /\ loc[s].attempt = 0
  /\ Continue(s, "policy")
  /\ NextSetup(s)
  /\ UNCHANGED <<done, failed, auto, exit, disk, inbox, dirty, runs, faults>>
  /\ UNCHANGED <<ran, approved>>

SetupReturned(s) ==
  /\ Ready(s, "returned") /\ loc[s].attempt = 0
  /\ IF ret = "ok"
       THEN /\ Continue(s, "policy")
            /\ NextSetup(s)
            /\ UNCHANGED <<done, failed>>
       ELSE Leave(s, ret) /\ UNCHANGED loc
  /\ UNCHANGED <<auto, exit, disk, inbox, dirty, runs, faults, ran, approved>>

(* The `when' guard rendered to a value that disables the step.            *)
SkipDisabled(s) ==
  /\ CanAttempt(s) /\ Def[s].when
  /\ BeginAttempt(s)
  /\ Settle(s, "ok", loc[s].attempt + 1)
  /\ UNCHANGED <<auto, exit, disk, dirty, runs, faults, ran, approved>>

RunLeaf(s) ==
  /\ CanAttempt(s) /\ Def[s].type \in LeafType
  /\ BeginAttempt(s)
  /\ \E o \in {"ok", "fail"} : Settle(s, o, loc[s].attempt + 1)
  /\ ran' = ran \cup {s}
  /\ \/ UNCHANGED dirty
     \/ MutatesLocal(s) /\ dirty' = dirty \cup {s}
  /\ UNCHANGED <<auto, exit, disk, runs, faults, approved>>

ApproveGate(s) ==
  /\ CanAttempt(s) /\ Def[s].type = "gate" /\ auto
  /\ BeginAttempt(s)
  /\ Verify(s, loc[s].attempt + 1)
  /\ approved' = approved \cup {s}
  /\ UNCHANGED <<auto, exit, disk, dirty, runs, faults, ran>>

(* Mutants: the pause is an error like any other; it files no inbox item. *)
PauseAtGate_PlainError(s) ==
  /\ CanAttempt(s) /\ Def[s].type = "gate" /\ ~auto
  /\ BeginAttempt(s)
  /\ Settle(s, "fail", loc[s].attempt + 1)
  /\ UNCHANGED <<auto, exit, disk, dirty, runs, faults, ran, approved>>

PauseAtGate_NoInbox(s) ==
  /\ CanAttempt(s) /\ Def[s].type = "gate" /\ ~auto
  /\ BeginAttempt(s)
  /\ Leave(s, "pause")
  /\ UNCHANGED <<inbox, auto, exit, disk, dirty, runs, faults, ran, approved>>

PauseAtGate(s) ==
  /\ CanAttempt(s) /\ Def[s].type = "gate" /\ ~auto
  /\ BeginAttempt(s)
  /\ Leave(s, "pause")
  /\ inbox' = inbox \cup {s}
  /\ UNCHANGED <<auto, exit, disk, dirty, runs, faults, ran, approved>>

(* A workflow step calls Execute with the run id of its parent.            *)
EnterWorkflow(s) ==
  /\ CanAttempt(s) /\ Def[s].type = "workflow"
  /\ Continue(s, "flow")
  /\ BeginAttempt(s)
  /\ SaveState(s, 0, "running")
  /\ UNCHANGED <<auto, exit, inbox, dirty, runs, faults, history>>

(* The definition file of a workflow step cannot be loaded.                *)
WorkflowUnreadable(s) ==
  /\ CanAttempt(s) /\ Def[s].type = "workflow"
  /\ BeginAttempt(s)
  /\ Settle(s, "fail", loc[s].attempt + 1)
  /\ UNCHANGED <<auto, exit, disk, dirty, runs, faults, ran, approved>>

EnterLoop(s) ==
  /\ CanAttempt(s) /\ Def[s].type = "loop"
  /\ Continue(s, "loop")
  /\ BeginAttempt(s)
  /\ UNCHANGED <<auto, exit, disk, inbox, dirty, runs, faults, history>>

-----------------------------------------------------------------------------
(* executeLoopStep.                                                        *)

LoopNext(s) ==
  /\ Ready(s, "loop") /\ loc[s].idx < Len(Def[s].body)
  /\ Call(Child(s))
  /\ UNCHANGED <<auto, exit, disk, inbox, dirty, runs, faults>>

LoopReturned(s) ==
  /\ Ready(s, "returned") /\ Def[s].type = "loop" /\ loc[s].attempt > 0
  /\ IF ret = "ok"
       THEN /\ Continue(s, "loop")
            /\ NextChild(s)
            /\ UNCHANGED <<inbox, done, failed>>
       ELSE Settle(s, ret, loc[s].attempt) /\ UNCHANGED loc
  /\ UNCHANGED <<auto, exit, disk, dirty, runs, faults, ran, approved>>

LoopIterationEnds(s) ==
  /\ Ready(s, "loop") /\ loc[s].idx = Len(Def[s].body)
  /\ \/ /\ Def[s].exitWhen                            \* loopExit holds
        /\ Verify(s, loc[s].attempt)
        /\ UNCHANGED loc
     \/ /\ loc[s].iter + 1 < Def[s].maxIterations
        /\ Continue(s, "loop")
        /\ loc' = [loc EXCEPT ![s] =
             [setup |-> @.setup, attempt |-> @.attempt, idx |-> 0, iter |-> @.iter + 1]]
        /\ UNCHANGED <<inbox, done, failed>>
     \/ /\ loc[s].iter + 1 >= Def[s].maxIterations    \* exhausted
        /\ IF Def[s].exitWhen /\ OnErrorMode(s) # "continue"
             THEN Settle(s, "fail", loc[s].attempt)
             ELSE Verify(s, loc[s].attempt)
        /\ UNCHANGED loc
  /\ UNCHANGED <<auto, exit, disk, dirty, runs, faults, ran, approved>>

-----------------------------------------------------------------------------
(* Execute, resumeFromState and executeStages.                             *)

FlowNext(s) ==
  /\ Ready(s, "flow") /\ loc[s].idx < Len(Def[s].body)
  /\ Call(Child(s))
  /\ UNCHANGED <<auto, exit, disk, inbox, dirty, runs, faults>>

FlowAdvances(s) ==
  /\ Ready(s, "returned") /\ Def[s].type = "workflow" /\ loc[s].attempt > 0
  /\ ret = "ok"
  /\ LET i == loc[s].idx + 1
     IN  IF Def[s].staged
           THEN Continue(s, "flow") /\ UNCHANGED disk
           ELSE /\ SaveState(s, i, IF i = Len(Def[s].body)
                                     THEN "completed" ELSE "running")
                /\ Continue(s, IF CommitLocalSteps /\ MutatesLocal(Child(s))
                                 THEN "commit" ELSE "flow")
  /\ NextChild(s)
  /\ UNCHANGED <<auto, exit, inbox, dirty, runs, faults, history>>

(* Mutant: nothing is staged before the commit. *)
CommitStep_NotStaged(s) ==
  /\ Ready(s, "commit")
  /\ Continue(s, "flow")
  /\ UNCHANGED <<dirty, loc, auto, exit, disk, inbox, runs, faults, history>>

(* commitStep: git add -A, then one commit; the step is no longer looked at. *)
CommitStep(s) ==
  /\ Ready(s, "commit")
  /\ dirty' = {}
  /\ Continue(s, "flow")
  /\ UNCHANGED <<loc, auto, exit, disk, inbox, runs, faults, history>>

(* Mutants: the index after the failing step is saved; a pause is not.     *)
FlowStops_SavesNext(s) ==
  /\ Ready(s, "returned") /\ Def[s].type = "workflow" /\ loc[s].attempt > 0
  /\ ret # "ok"
  /\ SaveState(s, loc[s].idx + 1, IF ret = "pause" THEN "paused" ELSE "failed")
  /\ EndFlow(s, ret)
  /\ UNCHANGED <<loc, auto, dirty, runs, faults, ran, approved>>

FlowStops_PauseNotSaved(s) ==
  /\ Ready(s, "returned") /\ Def[s].type = "workflow" /\ loc[s].attempt > 0
  /\ ret # "ok"
  /\ IF ret = "pause" THEN UNCHANGED disk ELSE SaveState(s, loc[s].idx, "failed")
  /\ EndFlow(s, ret)
  /\ UNCHANGED <<loc, auto, dirty, runs, faults, ran, approved>>

FlowStops(s) ==
  /\ Ready(s, "returned") /\ Def[s].type = "workflow" /\ loc[s].attempt > 0
  /\ ret # "ok"
  /\ IF Def[s].staged
       THEN SaveState(s, 0, "failed")
       ELSE SaveState(s, loc[s].idx, IF ret = "pause" THEN "paused" ELSE "failed")
  /\ EndFlow(s, ret)
  /\ UNCHANGED <<loc, auto, dirty, runs, faults, ran, approved>>

SaveAtEnd(s) ==
  IF Def[s].staged \/ Def[s].body = << >>
    THEN SaveState(s, 0, "completed") ELSE UNCHANGED disk

FlowEnds(s) ==
  /\ Ready(s, "flow") /\ loc[s].idx = Len(Def[s].body)
  /\ SaveAtEnd(s)
  /\ EndFlow(s, "ok")
  /\ UNCHANGED <<loc, auto, dirty, runs, faults, ran, approved>>

-----------------------------------------------------------------------------
(* Faults.                                                                 *)

Fault(k) == k \in FaultKinds /\ faults < MaxFaults /\ faults' = faults + 1

Die == at' = None /\ pc' = "idle" /\ ret' = "none" /\ exit' = "none"

(* The process is killed between two steps of the model.                   *)
Crash ==
  /\ at # None /\ Fault("crash")
  /\ Die
  /\ UNCHANGED <<loc, auto, disk, inbox, dirty, runs, history>>

(* The next thing the activation of s does is to call saveState.           *)
SavePoint(s) ==
  /\ Def[s].type = "workflow"
  /\ \/ Ready(s, "start") \/ CanAttempt(s)
     \/ Ready(s, "returned") /\ loc[s].attempt > 0 /\ (ret # "ok" \/ ~Def[s].staged)
     \/ /\ Ready(s, "flow") /\ loc[s].idx = Len(Def[s].body)
        /\ Def[s].staged \/ Def[s].body = << >>

(* The process is killed inside os.WriteFile, after it truncated the file. *)
TornSave(s) ==
  /\ SavePoint(s) /\ Fault("torn")
  /\ Die
  /\ disk' = Torn
  /\ UNCHANGED <<loc, auto, inbox, dirty, runs, history>>

(* saveState returns an error, before or after it truncated the file.  The *)
(* callers return that error, whatever made them save; executeStages'      *)
(* caller alone ignores it when it records a failure.                      *)
SaveError(s) ==
  /\ SavePoint(s) /\ Fault("save")
  /\ disk' \in {disk, Torn}
  /\ IF pc = "policy"
       THEN /\ BeginAttempt(s)
            /\ Settle(s, "fail", loc[s].attempt + 1)
            /\ UNCHANGED exit
       ELSE /\ EndFlow(s, IF Def[s].staged /\ pc = "returned" THEN ret ELSE "fail")
            /\ UNCHANGED loc
  /\ UNCHANGED <<auto, dirty, runs, ran, approved>>

CommitError(s) ==
  /\ Ready(s, "commit") /\ Fault("commit")
  /\ EndFlow(s, "fail")
  /\ UNCHANGED <<loc, auto, disk, dirty, runs, ran, approved>>

(* An artifact cannot be written: the step's directory or the inbox item   *)
(* of a gate before the step does anything, or parsed.json after a loop or *)
(* a workflow has ended well.  (For a leaf that is one more way to fail.)  *)
ArtifactError(s) ==
  /\ Fault("artifact")
  /\ \/ /\ CanAttempt(s)
        /\ BeginAttempt(s)
        /\ Settle(s, "fail", loc[s].attempt + 1)
        /\ UNCHANGED disk
     \/ /\ Ready(s, "loop") /\ loc[s].idx = Len(Def[s].body)
        /\ Def[s].exitWhen \/ loc[s].iter + 1 >= Def[s].maxIterations
        /\ Settle(s, "fail", loc[s].attempt)
        /\ UNCHANGED <<loc, disk>>
     \/ /\ Ready(s, "flow") /\ loc[s].idx = Len(Def[s].body) /\ s # Root
        /\ SaveAtEnd(s)
        /\ Settle(s, "fail", loc[s].attempt)
        /\ UNCHANGED loc
  /\ UNCHANGED <<auto, exit, dirty, runs, ran, approved>>

-----------------------------------------------------------------------------
Init ==
  /\ at = None /\ pc = "idle" /\ ret = "none" /\ loc = [s \in Step |-> Fresh]
  /\ auto = FALSE /\ exit = "none"
  /\ disk = Absent /\ inbox = {} /\ dirty = {}
  /\ runs = 0 /\ faults = 0
  /\ done = {} /\ ran = {} /\ approved = {} /\ failed = {}

RunnerStep(s) ==
  \/ RunSetup(s) \/ SetupReturned(s) \/ SkipDisabled(s)
  \/ RunLeaf(s) \/ ApproveGate(s) \/ PauseAtGate(s)
  \/ EnterWorkflow(s) \/ WorkflowUnreadable(s) \/ EnterLoop(s)
  \/ LoopNext(s) \/ LoopReturned(s) \/ LoopIterationEnds(s)
  \/ StartFlow(s) \/ FlowNext(s) \/ FlowAdvances(s) \/ CommitStep(s)
  \/ FlowStops(s) \/ FlowEnds(s)

FaultStep(s) == TornSave(s) \/ SaveError(s) \/ CommitError(s) \/ ArtifactError(s)

Next ==
  \/ \E a \in BOOLEAN : Execute(a) \/ Resume(a)
  \/ \E s \in Step : RunnerStep(s) \/ FaultStep(s)
  \/ Crash

Spec == Init /\ [][Next]_vars

(* A process that runs keeps taking steps until it returns or is killed:   *)
(* the runner is one goroutine that waits for nobody.                      *)
FairSpec == Spec /\ WF_vars(\E s \in Step : RunnerStep(s))
-----------------------------------------------------------------------------
(* A plain definition (Steps, not Stages) without workflow steps in it.    *)
FlatFlow ==
  /\ ~Def[Root].staged
  /\ \A s \in Step : Def[s].type = "workflow" => s = Root

(* Type invariant: every variable of the engine, its frames and its        *)
(* state.json keep their shape (runState and the locals of runner.go).     *)
TypeOK ==
  /\ at \in Step \cup {None}
  /\ pc \in {"idle", "start", "policy", "returned", "loop", "flow", "commit"}
  /\ ret \in Outcome \cup {"none"}
  /\ loc \in [Step -> Frame]
  /\ auto \in BOOLEAN
  /\ exit \in Outcome \cup {"none"}
  /\ disk \in [status : DiskStatus, idx : Nat, owner : Step]
  /\ inbox \in SUBSET Step /\ dirty \in SUBSET Step
  /\ runs \in Nat /\ faults \in Nat
  /\ done \in SUBSET Step /\ ran \in SUBSET Step
  /\ approved \in SUBSET Step /\ failed \in SUBSET Step

(* The index saved in state.json is earned: every top-level step below it  *)
(* has returned without an error, whatever crashes came in between.        *)
SavedIndexIsEarned ==
  Readable => /\ disk.idx <= N
              /\ \A i \in 1..N : i <= disk.idx => Def[Root].body[i] \in done

(* Execute and Resume work on the first incomplete step: control is never  *)
(* inside a top-level step that state.json records as finished (it would   *)
(* run twice), nor inside one whose predecessor is not (one was skipped).  *)
RunsFirstIncomplete ==
  (at \in Step \ {Root} /\ Readable)
    => disk.idx < N /\ Def[at].top = Def[Root].body[disk.idx + 1]

(* No top-level step is skipped: control enters one only after all those   *)
(* before it have returned without an error, in this process or another.   *)
NoStepSkipped ==
  \A j \in 1..N : (at \in Step \ {Root} /\ Def[at].top = Def[Root].body[j])
    => \A i \in 1..(j - 1) : Def[Root].body[i] \in done

(* A gate without a `when' guard protects what follows it: no leaf of a    *)
(* later top-level step has run, in any process, unless one approved it.   *)
(* With on_error: continue the engine also steps over a gate whose inbox   *)
(* item it could not write, so such a gate guards only if writes succeed.  *)
Guards(g) ==
  /\ Def[g].type = "gate" /\ ~Def[g].when
  /\ OnErrorMode(g) = "continue" => "artifact" \notin FaultKinds

GateGuardsSuccessors ==
  \A i \in 1..N :
    LET g == Def[Root].body[i]
    IN  (Guards(g) /\ g \notin approved)
          => \A s \in ran : \A j \in (i + 1)..N : Def[s].top # Def[Root].body[j]

(* What the operator is told is what the run waits for: a process that     *)
(* returns the pause leaves state.json paused at the top-level step that   *)
(* holds a gate with an item in the inbox, for Resume to re-enter it.      *)
PauseIsReported ==
  (exit = "pause" /\ ~Def[Root].staged)
    => /\ disk.status = "paused" /\ disk.owner = Root /\ disk.idx < N
       /\ \E g \in inbox : /\ Def[g].type = "gate"
                           /\ Def[g].top = Def[Root].body[disk.idx + 1]

(* The exit and the record agree: a process that returns no error leaves a *)
(* completed state.json and every top-level step done; one that returns    *)
(* the pause leaves it paused (failed if staged: executeStages' caller does *)
(* looks neither at the error nor at that of the save); one that returns   *)
(* an error after the last save has met a fault.                           *)
ExitMatchesDisk ==
  /\ exit = "ok" => /\ disk.status = "completed"
                    /\ \A i \in 1..N : Def[Root].body[i] \in done
  /\ exit = "pause" => \/ disk.status = IF Def[Root].staged THEN "failed" ELSE "paused"
                       \/ Def[Root].staged /\ faults > 0
  /\ exit = "fail" /\ disk.status = "completed" => faults > 0

(* No failure is silent: when a process returns no error, every step whose *)
(* last outcome is an error has handed it on, to a step that ended in one  *)
(* too, or to one that tolerates it: with on_error: continue, no loop, and *)
(* the failing step in its body (executeStepWithPolicy).  The root, whose  *)
(* errors are the process's own, has none among its steps.                 *)
NoSilentFailure ==
  exit = "ok" => \A s \in failed :
    LET p == Def[s].parent
    IN  /\ p # Root
        /\ \/ p \in failed
           \/ /\ OnErrorMode(p) = "continue" /\ Def[p].type # "loop"
              /\ \E i \in 1..Len(Def[p].body) : Def[p].body[i] = s

(* At most one finished mutating step per fault is without its commit, but *)
(* for the one whose commit is the next thing the process does: state.json *)
(* moves on before commitStep, and the next commit sweeps what is left.    *)
FewUncommitted ==
  CommitLocalSteps /\ Readable =>
    Cardinality({i \in 1..N : /\ i <= disk.idx
                              /\ MutatesLocal(Def[Root].body[i])
                              /\ Def[Root].body[i] \in dirty})
      <= faults + (IF pc = "commit" THEN 1 ELSE 0)

(* A pause unwinds: once an activation has returned the pause, no policy   *)
(* retries or tolerates it and nothing else runs before the process ends.  *)
PauseUnwinds ==
  [][ret = "pause" => ran' = ran /\ (ret' = "pause" \/ at' = None)]_vars

(* Every process ends: loops and retries are bounded, so a process that    *)
(* keeps running returns.                                                  *)
EveryProcessEnds == at # None ~> at = None

-----------------------------------------------------------------------------
(* The engine as its operator sees it through state.json (DurableFlow).    *)
Durable == INSTANCE DurableFlow WITH Length <- N, idx <- disk.idx, status <- disk.status

(* Seen through state.json alone, a flow is a counter that moves one step  *)
(* at a time and never back, completed exactly at the end, across crashes  *)
(* and resumes; the only other thing a fault can do is to lose it.         *)
ImplementsDurable == Durable!Spec
=============================================================================
