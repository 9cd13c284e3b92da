-------------------------- MODULE FlowSafetyProofs --------------------------
(***************************************************************************)
(* The safety of flows, whatever the processes, the crashes and the        *)
(* failing saves and commits.                                              *)
(*                                                                         *)
(* The first part is about flows without nested workflows: state.json      *)
(* never runs ahead of the work, and no step runs twice or is skipped.     *)
(* The inductive invariant relates the saved index to the activation that  *)
(* is on the stack: once a process has recorded the run, state.json holds  *)
(* the index of the root's own frame, and control is inside the step at    *)
(* that index.                                                             *)
(*                                                                         *)
(* The second part is about every flow, with loops and nested workflows:   *)
(* the frames above the active step are those of its ancestors, so the     *)
(* steps of a nested workflow are passed in order, a gate guards what      *)
(* follows it, a pause unwinds to the root, and the exit of a process says *)
(* what state.json says.                                                   *)
(*                                                                         *)
(* The last part follows failures up that stack.                           *)
(***************************************************************************)
EXTENDS FlowRunnerProofs, FiniteSetTheorems

Running ==
  at # None =>
    /\ loc[Root].attempt > 0
    /\ pc # "start" => Readable /\ disk.idx = loc[Root].idx

InsideStep ==
  at \in Step \ {Root} =>
    /\ pc \in {"policy", "returned", "loop"}
    /\ pc = "loop" => Def[at].type = "loop"
    /\ loc[Root].idx < N
    /\ Def[at].top = Def[Root].body[loc[Root].idx + 1]

AtRoot ==
  at = Root =>
    /\ pc \in {"start", "flow", "returned", "commit"}
    /\ pc = "start" => loc[Root].idx = 0
    /\ pc = "returned" => loc[Root].idx < N
    /\ (pc = "returned" /\ ret = "ok") => Def[Root].body[loc[Root].idx + 1] \in done

FlatInv == SavedIndexIsEarned /\ Running /\ InsideStep /\ AtRoot

(* The root flow and its children, as the assumptions give them.           *)
LEMMA RootFacts ==
  /\ Root \in Step /\ Root # None /\ None \notin Step
  /\ N \in Nat /\ N = Len(Def[Root].body)
  /\ Def[Root].type = "workflow" /\ Def[Root].parent = None
  /\ \A i \in 1..N : Def[Root].body[i] \in Step /\ Def[Def[Root].body[i]].parent = Root
BY FlowAssumption, DefFacts DEF N

(* A child of a step lies inside the same top-level step, or is one.       *)
LEMMA ChildTop ==
  ASSUME NEW c \in Step, NEW s \in Step, Def[c].parent = s
  PROVE  c # Root /\ Def[c].top = IF s = Root THEN c ELSE Def[s].top
BY FlowAssumption

(* The saved index stays earned while state.json is not written.           *)
LEMMA EarnedStays ==
  ASSUME SavedIndexIsEarned, disk' = disk, done \subseteq done'
  PROVE  SavedIndexIsEarned'
BY DEF SavedIndexIsEarned, Readable

(* Moving about within one top-level step keeps the invariant.             *)
LEMMA StayInside ==
  ASSUME FlatInv, NEW s \in Step \ {Root}, at = s, at' = s,
         pc' = "policy" \/ (pc' = "loop" /\ Def[s].type = "loop"), done' = done,
         loc'[Root] = loc[Root], disk' = disk
  PROVE  FlatInv'
<1>1. SavedIndexIsEarned'
  BY EarnedStays DEF FlatInv
<1>2. Running' /\ InsideStep' /\ AtRoot'
  BY RootFacts DEF FlatInv, Running, InsideStep, AtRoot, Readable
<1>3. QED
  BY <1>1, <1>2 DEF FlatInv

(* So does returning from a step to the activation that called it.         *)
LEMMA LeaveInside ==
  ASSUME FlatInv, NEW s \in Step \ {Root}, at = s, NEW o, Leave(s, o),
         loc'[Root] = loc[Root], disk' = disk
  PROVE  FlatInv'
<1>1. /\ at' = Def[s].parent /\ pc' = "returned" /\ ret' = o
      /\ o = "ok" => s \in done'
      /\ done \subseteq done'
  BY DEF Leave
<1>2. Def[s].parent \in Step /\ at # None
  BY RootFacts, DefFacts
<1>3. Def[s].top = IF Def[s].parent = Root THEN s ELSE Def[Def[s].parent].top
  BY FlowAssumption
<1>4. SavedIndexIsEarned'
  BY <1>1, EarnedStays DEF FlatInv
<1>5. Running'
  BY <1>2 DEF FlatInv, InsideStep, Running, Readable
<1>6. InsideStep'
  BY <1>1, <1>2, <1>3 DEF FlatInv, InsideStep
<1>7. AtRoot'
  BY <1>1, <1>2, <1>3 DEF FlatInv, InsideStep, AtRoot
<1>8. QED
  BY <1>4, <1>5, <1>6, <1>7 DEF FlatInv

(* So does applying the on_error policy to the outcome of a step.          *)
LEMMA SettleInside ==
  ASSUME FlatInv, NEW s \in Step \ {Root}, at = s, NEW o, NEW n, Settle(s, o, n),
         loc'[Root] = loc[Root], disk' = disk
  PROVE  FlatInv'
<1>1. CASE o = "fail" /\ n < RetryAttempts(s)
  BY <1>1, StayInside DEF Settle, Continue
<1>2. CASE ~(o = "fail" /\ n < RetryAttempts(s))
  BY <1>2, LeaveInside DEF Settle
<1>3. QED
  BY <1>1, <1>2

(* So does ending an attempt by its verify list.                           *)
LEMMA VerifyInside ==
  ASSUME FlatInv, NEW s \in Step \ {Root}, at = s, NEW n, Verify(s, n),
         loc'[Root] = loc[Root], disk' = disk
  PROVE  FlatInv'
BY SettleInside DEF Verify

(* So does calling a nested step.                                          *)
LEMMA CallInside ==
  ASSUME TypeOK, FlatInv, NEW s \in Step, at = s, NEW c \in Step, Def[c].parent = s,
         s = Root => /\ pc # "start" /\ loc[Root].idx < N
                     /\ c = Def[Root].body[loc[Root].idx + 1],
         Call(c), disk' = disk
  PROVE  FlatInv'
<1>1. c # Root /\ Def[c].top = IF s = Root THEN c ELSE Def[s].top
  BY ChildTop
<1>2. at' = c /\ pc' = "policy" /\ done' = done
  BY DEF Call, Continue, history
<1>3. loc'[Root] = loc[Root]
  BY <1>1, RootFacts DEF Call, TypeOK
<1>4. SavedIndexIsEarned'
  BY <1>2, EarnedStays DEF FlatInv
<1>5. Running' /\ AtRoot'
  BY <1>1, <1>2, <1>3, RootFacts DEF FlatInv, InsideStep, Running, Readable, AtRoot
<1>6. InsideStep'
  BY <1>1, <1>2, <1>3 DEF FlatInv, InsideStep
<1>7. QED
  BY <1>4, <1>5, <1>6 DEF FlatInv

(* Counting in the frame of a nested step leaves the frame of the root alone. *)
LEMMA AttemptAside ==
  ASSUME TypeOK, NEW s \in Step \ {Root},
         BeginAttempt(s) \/ NextSetup(s) \/ NextChild(s) \/ UNCHANGED loc
  PROVE  loc'[Root] = loc[Root]
BY RootFacts DEF TypeOK, BeginAttempt, NextSetup, NextChild

-----------------------------------------------------------------------------
(* The steps inside a top-level step.                                      *)
LEMMA InnerStepInv ==
  ASSUME FlatFlow, TypeOK, FlatInv, NEW s \in Step \ {Root}, RunnerStep(s)
  PROVE  FlatInv'
<1>0. /\ at = s /\ Def[s].type # "workflow" /\ pc \in {"policy", "returned", "loop"}
      /\ pc = "loop" => Def[s].type = "loop"
  BY DEF FlatFlow, FlatInv, InsideStep, RunnerStep, Ready, CanAttempt, RunSetup,
     SetupReturned, SkipDisabled, RunLeaf, ApproveGate, PauseAtGate, EnterWorkflow,
     WorkflowUnreadable, EnterLoop, LoopNext, LoopReturned, LoopIterationEnds,
     StartFlow, FlowNext, FlowAdvances, CommitStep, FlowStops, FlowEnds
<1>1. CASE RunSetup(s)
  <2>1. loc[s].setup \in Nat
    BY DEF TypeOK, Frame
  <2>2. /\ Def[s].setup[loc[s].setup + 1] \in Step
        /\ Def[Def[s].setup[loc[s].setup + 1]].parent = s
    BY <1>1, <2>1, DefFacts DEF RunSetup
  <2>3. QED
    BY <1>0, <1>1, <2>2, CallInside DEF RunSetup
<1>2. CASE SetupReturned(s)
  <2>1. loc'[Root] = loc[Root] /\ disk' = disk
    BY <1>2, AttemptAside DEF SetupReturned
  <2>2. QED
    BY <1>0, <1>2, <2>1, StayInside, LeaveInside DEF SetupReturned, Continue
<1>3. CASE SkipDisabled(s) \/ RunLeaf(s) \/ ApproveGate(s) \/ PauseAtGate(s)
  <2>1. loc'[Root] = loc[Root] /\ disk' = disk
    BY <1>3, AttemptAside DEF SkipDisabled, RunLeaf, ApproveGate, PauseAtGate
  <2>2. CASE \E o \in Outcome : Settle(s, o, loc[s].attempt + 1)
    BY <1>0, <2>1, <2>2, SettleInside
  <2>3. CASE Verify(s, loc[s].attempt + 1) \/ Leave(s, "pause")
    BY <1>0, <2>1, <2>3, VerifyInside, LeaveInside
  <2>4. QED
    BY <1>3, <2>2, <2>3 DEF SkipDisabled, RunLeaf, ApproveGate, PauseAtGate, Outcome
<1>4. CASE EnterLoop(s)
  <2>1. loc'[Root] = loc[Root] /\ disk' = disk
    BY <1>4, AttemptAside DEF EnterLoop
  <2>2. QED
    BY <1>0, <1>4, <2>1, StayInside DEF EnterLoop, Continue, history
<1>5. CASE LoopNext(s)
  <2>1. loc[s].idx \in Nat
    BY DEF TypeOK, Frame
  <2>2. Child(s) \in Step /\ Def[Child(s)].parent = s
    <3>1. loc[s].idx + 1 \in 1..Len(Def[s].body)
      BY <1>5, <2>1, DefFacts DEF LoopNext
    <3>2. QED
      BY <3>1, DefFacts DEF Child
  <2>3. QED
    BY <1>0, <1>5, <2>2, CallInside DEF LoopNext
<1>6. CASE LoopReturned(s)
  <2>1. loc'[Root] = loc[Root] /\ disk' = disk
    BY <1>6, AttemptAside DEF LoopReturned
  <2>2. QED
    BY <1>0, <1>6, <2>1, StayInside, SettleInside DEF LoopReturned, Continue
<1>7. CASE LoopIterationEnds(s)
  <2>1. loc'[Root] = loc[Root] /\ disk' = disk
    BY <1>7, RootFacts DEF LoopIterationEnds, TypeOK
  <2>2. \/ \E n : Verify(s, n)
        \/ \E o, n : Settle(s, o, n)
        \/ Continue(s, "loop") /\ done' = done /\ Def[s].type = "loop"
    BY <1>0, <1>7 DEF LoopIterationEnds, Ready
  <2>3. QED
    BY <1>0, <2>1, <2>2, StayInside, SettleInside, VerifyInside DEF Continue
<1>8. QED
  BY <1>0, <1>1, <1>2, <1>3, <1>4, <1>5, <1>6, <1>7
  DEF RunnerStep, EnterWorkflow, WorkflowUnreadable, StartFlow, FlowNext, FlowAdvances,
      CommitStep, FlowStops, FlowEnds, Ready

-----------------------------------------------------------------------------
(* The steps of the root flow, the only ones that write state.json.        *)
LEMMA RootStepInv ==
  ASSUME FlatFlow, TypeOK, FlatInv, RunnerStep(Root)
  PROVE  FlatInv'
<1>0. at = Root /\ pc \in {"start", "flow", "returned", "commit"} /\ Root # None
  BY RootFacts DEF FlatInv, AtRoot, RunnerStep, Ready, CanAttempt, RunSetup,
     SetupReturned, SkipDisabled, RunLeaf, ApproveGate, PauseAtGate, EnterWorkflow,
     WorkflowUnreadable, EnterLoop, LoopNext, LoopReturned, LoopIterationEnds,
     StartFlow, FlowNext, FlowAdvances, CommitStep, FlowStops, FlowEnds
<1>1. /\ pc # "start" => Readable /\ disk.idx = loc[Root].idx /\ disk.idx <= N
      /\ loc[Root].attempt > 0 /\ loc[Root] \in Frame /\ loc[Root].idx \in Nat
  BY <1>0, RootFacts DEF FlatInv, Running, SavedIndexIsEarned, TypeOK, Frame
<1>2. CASE FlowNext(Root)
  <2>1. loc[Root].idx < N /\ Call(Child(Root)) /\ disk' = disk /\ pc = "flow"
    BY <1>2, RootFacts DEF FlowNext, Ready
  <2>2. /\ Child(Root) = Def[Root].body[loc[Root].idx + 1]
        /\ Child(Root) \in Step /\ Def[Child(Root)].parent = Root
    BY <1>1, <2>1, RootFacts DEF Child
  <2>3. QED
    BY <1>0, <2>1, <2>2, RootFacts, CallInside
<1>3. CASE FlowAdvances(Root)
  <2>1. /\ loc[Root].idx < N /\ Def[Root].body[loc[Root].idx + 1] \in done
        /\ done' = done /\ at' = Root /\ pc' \in {"flow", "commit"} /\ pc = "returned"
    BY <1>0, <1>3 DEF FlowAdvances, FlatInv, AtRoot, Ready, FlatFlow, Continue, history
  <2>2. disk'.idx = loc[Root].idx + 1 /\ disk'.status \in {"running", "completed"}
    BY <1>3 DEF FlowAdvances, FlatFlow, SaveState
  <2>3. loc'[Root].idx = loc[Root].idx + 1 /\ loc'[Root].attempt = loc[Root].attempt
    BY <1>1, <1>3, RootFacts DEF FlowAdvances, NextChild, TypeOK, Frame
  <2>4. SavedIndexIsEarned'
    BY <1>1, <2>1, <2>2, RootFacts DEF SavedIndexIsEarned, FlatInv
  <2>5. Running' /\ InsideStep' /\ AtRoot'
    BY <1>1, <2>1, <2>2, <2>3 DEF Running, InsideStep, AtRoot, Readable
  <2>6. QED
    BY <2>4, <2>5 DEF FlatInv
<1>4. CASE CommitStep(Root)
  <2>1. /\ disk' = disk /\ loc' = loc /\ done' = done
        /\ at' = Root /\ pc' = "flow" /\ pc = "commit"
    BY <1>4 DEF CommitStep, Continue, Ready, history
  <2>2. SavedIndexIsEarned'
    BY <2>1, EarnedStays DEF FlatInv
  <2>3. Running' /\ InsideStep' /\ AtRoot'
    BY <1>1, <2>1 DEF Running, InsideStep, AtRoot, Readable
  <2>4. QED
    BY <2>2, <2>3 DEF FlatInv
<1>5. CASE FlowStops(Root) \/ FlowEnds(Root)
  <2>1. at' = None /\ done' = done /\ pc # "start"
    BY <1>5 DEF FlowStops, FlowEnds, EndFlow, Ready
  <2>2. disk'.idx = disk.idx \/ disk'.idx = 0
    BY <1>1, <1>5, <2>1 DEF FlowStops, FlowEnds, SaveAtEnd, FlatFlow, SaveState
  <2>3. SavedIndexIsEarned'
    BY <1>1, <2>1, <2>2, RootFacts DEF SavedIndexIsEarned, FlatInv
  <2>4. Running' /\ InsideStep' /\ AtRoot'
    BY <2>1, RootFacts DEF Running, InsideStep, AtRoot
  <2>5. QED
    BY <2>3, <2>4 DEF FlatInv
<1>6. CASE StartFlow(Root)
  <2>1. /\ disk' = [status |-> "running", idx |-> 0, owner |-> Root]
        /\ loc' = loc /\ loc[Root].idx = 0 /\ at' = Root /\ pc' = "flow"
    BY <1>0, <1>6 DEF StartFlow, SaveState, Continue, Ready, FlatInv, AtRoot
  <2>2. SavedIndexIsEarned'
    BY <2>1, RootFacts DEF SavedIndexIsEarned
  <2>3. Running' /\ InsideStep' /\ AtRoot'
    BY <1>1, <2>1 DEF Running, InsideStep, AtRoot, Readable
  <2>4. QED
    BY <2>2, <2>3 DEF FlatInv
<1>7. QED
  BY <1>0, <1>1, <1>2, <1>3, <1>4, <1>5, <1>6, RootFacts
  DEF RunnerStep, RunSetup, SetupReturned, SkipDisabled, RunLeaf, ApproveGate,
      PauseAtGate, EnterWorkflow, WorkflowUnreadable, EnterLoop, LoopNext,
      LoopReturned, LoopIterationEnds, Ready, CanAttempt, LeafType

(* Once no process runs, only what is on disk and what is done matter.     *)
LEMMA Stopped ==
  ASSUME at' = None, SavedIndexIsEarned'
  PROVE  FlatInv'
BY RootFacts DEF FlatInv, Running, InsideStep, AtRoot

(* Nor does a fault: a torn save, an error of a save, a commit, an artifact. *)
LEMMA FaultInv ==
  ASSUME FlatFlow, TypeOK, FlatInv, NEW s \in Step, FaultStep(s) \/ Crash
  PROVE  FlatInv'
<1>1. CASE TornSave(s)
  BY <1>1, Stopped DEF TornSave, Die, Torn, SavedIndexIsEarned, Readable
<1>2. CASE Crash
  BY <1>2, Stopped, EarnedStays DEF Crash, Die, history, FlatInv
<1>3. CASE SaveError(s)
  <2>1. s = Root /\ at = s /\ pc # "policy"
    BY <1>3, RootFacts DEF SaveError, SavePoint, FlatFlow, FlatInv, AtRoot, CanAttempt, Ready
  <2>2. at' = None /\ done' = done /\ disk' \in {disk, Torn}
    BY <1>3, <2>1 DEF SaveError, EndFlow
  <2>3. SavedIndexIsEarned'
    BY <2>2 DEF SavedIndexIsEarned, Readable, Torn, FlatInv
  <2>4. QED
    BY <2>2, <2>3, Stopped
<1>4. CASE CommitError(s)
  <2>1. s = Root
    BY <1>4 DEF CommitError, Ready, FlatInv, InsideStep
  <2>2. at' = None /\ done' = done /\ disk' = disk
    BY <1>4, <2>1 DEF CommitError, EndFlow
  <2>3. QED
    BY <2>2, Stopped, EarnedStays DEF FlatInv
<1>5. CASE ArtifactError(s)
  <2>1. s # Root /\ at = s
    BY <1>5, RootFacts DEF ArtifactError, FlatInv, AtRoot, CanAttempt, Ready
  <2>2. disk' = disk /\ (BeginAttempt(s) \/ UNCHANGED loc)
    BY <1>5, <2>1 DEF ArtifactError, FlatInv, InsideStep, Ready
  <2>3. loc'[Root] = loc[Root]
    BY <2>1, <2>2, AttemptAside
  <2>4. PICK n : Settle(s, "fail", n)
    BY <1>5 DEF ArtifactError
  <2>5. QED
    BY <2>1, <2>2, <2>3, <2>4, SettleInside
<1>6. QED
  BY <1>1, <1>2, <1>3, <1>4, <1>5 DEF FaultStep

(* Nor does a new process that starts at the saved index.                  *)
LEMMA LaunchInv ==
  ASSUME FlatFlow, TypeOK, FlatInv, NEW a \in BOOLEAN, Execute(a) \/ Resume(a)
  PROVE  FlatInv'
<1>1. disk.idx \in Nat
  BY DEF TypeOK
<1>2. SavedIndexIsEarned'
  BY EarnedStays DEF Execute, Resume, Launch, FlatInv
<1>3. CASE Execute(a)
  <2>1. at' = Root /\ pc' = "start" /\ loc'[Root].idx = 0 /\ loc'[Root].attempt = 1
    BY <1>3, RootFacts DEF Execute, Launch, Continue
  <2>2. QED
    BY <1>2, <2>1 DEF FlatInv, Running, InsideStep, AtRoot
<1>4. CASE Resume(a)
  <2>1. disk' = disk /\ Readable /\ disk.idx <= N
    BY <1>4 DEF Resume, Launch, FlatInv, SavedIndexIsEarned
  <2>2. Launch("flow", disk.idx, a)
    BY <1>1, <1>4, <2>1, RootFacts DEF Resume
  <2>3. /\ at' = Root /\ pc' = "flow" /\ loc'[Root].idx = disk.idx
        /\ loc'[Root].attempt = 1
    BY <2>2, RootFacts DEF Launch, Continue
  <2>4. QED
    BY <1>2, <2>1, <2>3 DEF FlatInv, Running, InsideStep, AtRoot, Readable
<1>5. QED
  BY <1>3, <1>4

(* The invariant holds before the first process.                           *)
LEMMA FlatInit == Init => FlatInv
BY RootFacts DEF Init, FlatInv, SavedIndexIsEarned, Running, InsideStep, AtRoot, Absent, Readable

(* Every step of the specification keeps the invariant.                    *)
LEMMA FlatNext ==
  ASSUME FlatFlow, TypeOK, FlatInv, [Next]_vars
  PROVE  FlatInv'
<1>1. CASE \E a \in BOOLEAN : Execute(a) \/ Resume(a)
  BY <1>1, LaunchInv
<1>2. CASE \E s \in Step : RunnerStep(s)
  BY <1>2, InnerStepInv, RootStepInv
<1>3. CASE (\E s \in Step : FaultStep(s)) \/ Crash
  BY <1>3, FaultInv, RootFacts
<1>4. CASE UNCHANGED vars
  BY <1>4 DEF vars, control, history, FlatInv, SavedIndexIsEarned, Running,
     InsideStep, AtRoot, Readable
<1>5. QED
  BY <1>1, <1>2, <1>3, <1>4 DEF Next

(* The inductive invariant of the engine on a flow without nested          *)
(* workflows: the frame of the root and state.json move together, so the   *)
(* index that Resume reads is where resumeFromState left off.              *)
THEOREM FlatInvariant == ASSUME FlatFlow PROVE Spec => [](TypeOK /\ FlatInv)
<1>1. Init => FlatInv
  BY FlatInit
<1>2. TypeOK /\ FlatInv /\ [Next]_vars => FlatInv'
  BY FlatNext
<1>3. QED
  BY <1>1, <1>2, TypeCorrect, PTL DEF Spec

(* The saved index is earned: state.json never records a top-level step    *)
(* that has not returned without an error.                                 *)
THEOREM SavedIndexSafe == ASSUME FlatFlow PROVE Spec => []SavedIndexIsEarned
<1>1. FlatInv => SavedIndexIsEarned
  BY DEF FlatInv
<1>2. QED
  BY <1>1, FlatInvariant, PTL

(* Execute and Resume never re-run a recorded step nor skip one.           *)
THEOREM FirstIncompleteSafe == ASSUME FlatFlow PROVE Spec => []RunsFirstIncomplete
<1>1. TypeOK /\ FlatInv => RunsFirstIncomplete
  BY RootFacts DEF FlatInv, Running, InsideStep, RunsFirstIncomplete
<1>2. QED
  BY <1>1, FlatInvariant, PTL
-----------------------------------------------------------------------------
(* Refinement.  While state.json can be read it says completed exactly     *)
(* when it holds the last index; there is none before the first process    *)
(* has made its first save.                                                *)
StatusInv ==
  /\ runs = 0 => at = None
  /\ (runs = 0 \/ pc = "start") => disk.status = "absent"
  /\ disk.status = "absent" => disk.idx = 0
  /\ Readable => (disk.status = "completed" <=> disk.idx = N)

(* What a step may do to state.json.                                       *)
DiskStep ==
  \/ disk' = disk
  \/ pc = "start" /\ disk'.status = "running" /\ disk'.idx = 0
  \/ pc = "start" /\ disk' = Torn
  \/ /\ Readable /\ disk.idx < N
     /\ disk'.idx = disk.idx + 1
     /\ disk'.status = IF disk.idx + 1 = N THEN "completed" ELSE "running"
  \/ /\ Readable /\ disk.idx < N
     /\ disk'.idx = disk.idx /\ disk'.status \in {"paused", "failed"}
  \/ Readable /\ disk.idx < N /\ disk' = Torn

(* What it may do to the number of processes: a launch counts one and      *)
(* leaves the file alone, and only the first launch is at the first save.  *)
CountStep ==
  \/ at # None /\ runs' = runs /\ pc' # "start"
  \/ /\ runs' = runs + 1 /\ disk' = disk
     /\ pc' = "start" => runs = 0
  \/ UNCHANGED <<at, pc, runs, disk>>

(* Settling an attempt finishes the step it belongs to, or none, and goes  *)
(* back to a policy.                                                       *)
LEMMA SettleDone ==
  ASSUME NEW s, NEW o, NEW n, Leave(s, o) \/ Settle(s, o, n) \/ Verify(s, n)
  PROVE  /\ done' = done \/ done' = done \cup {s}
         /\ pc' \in {"policy", "returned"}
BY DEF Settle, Verify, Leave, Continue

(* What runs never comes back to the first save of the run.                *)
LEMMA NextCount ==
  ASSUME [Next]_vars
  PROVE  CountStep
<1> USE DEF CountStep
<1>1. CASE \E a \in BOOLEAN : Execute(a) \/ Resume(a)
  BY <1>1 DEF Execute, Resume, Launch, Continue
<1>2. CASE \E s \in Step : RunnerStep(s)
  <2>1. PICK s \in Step : RunnerStep(s)
    BY <1>2
  <2>2. at = s /\ runs' = runs
    BY <2>1 DEF RunnerStep, Ready, CanAttempt, RunSetup, SetupReturned, SkipDisabled,
       RunLeaf, ApproveGate, PauseAtGate, EnterWorkflow, WorkflowUnreadable, EnterLoop,
       LoopNext, LoopReturned, LoopIterationEnds, StartFlow, FlowNext, FlowAdvances,
       CommitStep, FlowStops, FlowEnds
  <2>3. CASE RunSetup(s) \/ LoopNext(s) \/ FlowNext(s) \/ EnterWorkflow(s) \/ EnterLoop(s)
             \/ StartFlow(s) \/ FlowAdvances(s) \/ CommitStep(s)
    <3>1. pc' # "start"
      BY <2>3 DEF RunSetup, LoopNext, FlowNext, EnterWorkflow, EnterLoop, StartFlow,
         FlowAdvances, CommitStep, Call, Continue
    <3>2. QED
      BY <2>2, <3>1, RootFacts
  <2>4. CASE SetupReturned(s) \/ SkipDisabled(s) \/ RunLeaf(s) \/ ApproveGate(s)
             \/ PauseAtGate(s) \/ WorkflowUnreadable(s) \/ LoopReturned(s)
             \/ LoopIterationEnds(s) \/ FlowStops(s) \/ FlowEnds(s)
    <3>1. pc' \in {"idle", "policy", "returned", "loop"}
      BY <2>4, SettleDone DEF SetupReturned, SkipDisabled, RunLeaf, ApproveGate,
         PauseAtGate, WorkflowUnreadable, LoopReturned, LoopIterationEnds, FlowStops,
         FlowEnds, EndFlow, Continue
    <3>2. QED
      BY <2>2, <3>1, RootFacts
  <2>5. QED
    BY <2>1, <2>3, <2>4 DEF RunnerStep
<1>3. CASE (\E s \in Step : FaultStep(s)) \/ Crash
  <2>1. at # None /\ runs' = runs
    BY <1>3, RootFacts DEF FaultStep, Crash, TornSave, SaveError, CommitError,
       ArtifactError, SavePoint, CanAttempt, Ready
  <2>2. pc' \in {"idle", "policy", "returned"}
    BY <1>3, SettleDone
    DEF FaultStep, Crash, TornSave, Die, SaveError, CommitError, ArtifactError, EndFlow
  <2>3. QED
    BY <2>1, <2>2
<1>4. CASE UNCHANGED vars
  BY <1>4 DEF vars, control
<1>5. QED
  BY <1>1, <1>2, <1>3, <1>4 DEF Next

(* What one step of the specification may do to state.json.                *)
LEMMA NextDisk ==
  ASSUME FlatFlow, N > 0, TypeOK, FlatInv, [Next]_vars
  PROVE  DiskStep
<1> USE DEF DiskStep
<1>1. CASE \E a \in BOOLEAN : Execute(a) \/ Resume(a)
  BY <1>1 DEF Execute, Resume, Launch
<1>2. CASE \E s \in Step \ {Root} : RunnerStep(s)
  <2>1. PICK s \in Step \ {Root} : RunnerStep(s)
    BY <1>2
  <2>2. /\ at = s /\ Def[s].type # "workflow" /\ pc \notin {"start", "flow", "commit"}
    BY <2>1 DEF FlatFlow, FlatInv, InsideStep, RunnerStep, Ready, CanAttempt, RunSetup,
       SetupReturned, SkipDisabled, RunLeaf, ApproveGate, PauseAtGate, EnterWorkflow,
       WorkflowUnreadable, EnterLoop, LoopNext, LoopReturned, LoopIterationEnds,
       StartFlow, FlowNext, FlowAdvances, CommitStep, FlowStops, FlowEnds
  <2>3. QED
    BY <2>1, <2>2 DEF RunnerStep, Ready, RunSetup, SetupReturned, SkipDisabled,
       RunLeaf, ApproveGate, PauseAtGate, EnterWorkflow, WorkflowUnreadable,
       EnterLoop, LoopNext, LoopReturned, LoopIterationEnds, StartFlow, FlowNext,
       FlowAdvances, CommitStep, FlowStops, FlowEnds
<1>3. CASE RunnerStep(Root)
  <2>0. /\ at = Root /\ Root # None /\ pc \in {"start", "flow", "returned", "commit"}
        /\ loc[Root].attempt > 0 /\ Def[Root].type = "workflow"
        /\ pc # "start" => Readable /\ disk.idx = loc[Root].idx /\ disk.idx \in Nat
        /\ pc = "returned" => disk.idx < N
    BY <1>3, RootFacts DEF FlatInv, Running, AtRoot, TypeOK, RunnerStep, Ready,
       CanAttempt, RunSetup, SetupReturned, SkipDisabled, RunLeaf, ApproveGate,
       PauseAtGate, EnterWorkflow, WorkflowUnreadable, EnterLoop, LoopNext,
       LoopReturned, LoopIterationEnds, StartFlow, FlowNext, FlowAdvances, CommitStep,
       FlowStops, FlowEnds
  <2>1. CASE FlowAdvances(Root)
    BY <2>0, <2>1 DEF FlowAdvances, FlatFlow, SaveState, Ready, N
  <2>2. CASE FlowStops(Root)
    BY <2>0, <2>2 DEF FlowStops, FlatFlow, SaveState, Ready
  <2>3. CASE FlowEnds(Root)
    <3>1. Def[Root].body # << >>
      BY RootFacts
    <3>2. QED
      BY <2>3, <3>1 DEF FlowEnds, SaveAtEnd, FlatFlow
  <2>4. CASE FlowNext(Root) \/ CommitStep(Root)
    BY <2>4 DEF FlowNext, CommitStep
  <2>5. CASE StartFlow(Root)
    BY <2>5 DEF StartFlow, SaveState, Ready
  <2>6. QED
    BY <1>3, <2>0, <2>1, <2>2, <2>3, <2>4, <2>5
    DEF RunnerStep, Ready, CanAttempt, RunSetup, SetupReturned, SkipDisabled,
        RunLeaf, ApproveGate, PauseAtGate, EnterWorkflow, WorkflowUnreadable,
        EnterLoop, LoopNext, LoopReturned, LoopIterationEnds
<1>4. CASE (\E s \in Step : FaultStep(s)) \/ Crash
  <2>1. CASE Crash
    BY <2>1 DEF Crash
  <2>2. CASE \E s \in Step : FaultStep(s)
    <3>1. PICK s \in Step : FaultStep(s)
      BY <2>2
    <3>2. CASE CommitError(s) \/ ArtifactError(s)
      <4>1. disk' = disk
        BY <3>2, RootFacts DEF CommitError, ArtifactError, FlatInv, InsideStep, Ready
      <4>2. QED
        BY <4>1
    <3>3. CASE TornSave(s) \/ SaveError(s)
      <4>1. /\ s = Root /\ pc # "policy" /\ at = Root
            /\ pc = "start" \/ (Readable /\ disk.idx < N)
        BY <3>3, RootFacts
        DEF TornSave, SaveError, SavePoint, FlatFlow, FlatInv, Running, AtRoot,
            CanAttempt, Ready
      <4>2. disk' = disk \/ disk' = Torn
        BY <3>3 DEF TornSave, SaveError
      <4>3. QED
        BY <4>1, <4>2
    <3>4. QED
      BY <3>1, <3>2, <3>3 DEF FaultStep
  <2>3. QED
    BY <1>4, <2>1, <2>2
<1>5. CASE UNCHANGED vars
  BY <1>5 DEF vars
<1>6. QED
  BY <1>1, <1>2, <1>3, <1>4, <1>5, RootFacts DEF Next

(* What it may do is a step of DurableFlow or a stutter.                   *)
LEMMA StatusNext ==
  ASSUME N > 0, TypeOK, TypeOK', StatusInv, DiskStep, CountStep
  PROVE  StatusInv' /\ [Durable!Next]_<<disk.idx, disk.status>>
<1>1. /\ N \in Nat /\ disk.idx \in Nat /\ runs \in Nat /\ runs' \in Nat
      /\ disk.status \in DiskStatus
  BY RootFacts DEF TypeOK
<1>2. (runs' = 0 => at' = None) /\ (runs' = 0 \/ pc' = "start" => disk'.status = "absent")
  BY <1>1 DEF StatusInv, CountStep
<1>3. CASE disk' = disk
  BY <1>1, <1>2, <1>3 DEF StatusInv, Readable
<1>4. CASE pc = "start" /\ disk'.status = "running" /\ disk'.idx = 0
  BY <1>1, <1>2, <1>4 DEF StatusInv, Readable, Durable!Next, Durable!Begin
<1>5. CASE pc = "start" /\ disk' = Torn
  BY <1>1, <1>2, <1>5 DEF StatusInv, Readable, Torn, Durable!Next, Durable!Lose
<1>6. CASE /\ Readable /\ disk.idx < N
           /\ disk'.idx = disk.idx + 1
           /\ disk'.status = IF disk.idx + 1 = N THEN "completed" ELSE "running"
  BY <1>1, <1>2, <1>6 DEF StatusInv, Readable, DiskStatus, Durable!Next, Durable!Advance
<1>7. CASE /\ Readable /\ disk.idx < N
           /\ disk'.idx = disk.idx /\ disk'.status \in {"paused", "failed"}
  BY <1>1, <1>2, <1>7 DEF StatusInv, Readable, DiskStatus, Durable!Next, Durable!Halt
<1>8. CASE Readable /\ disk.idx < N /\ disk' = Torn
  BY <1>1, <1>2, <1>8
  DEF StatusInv, Readable, DiskStatus, Torn, Durable!Next, Durable!Lose
<1>9. QED
  BY <1>3, <1>4, <1>5, <1>6, <1>7, <1>8 DEF DiskStep

(* Seen through state.json, a flow only ever moves on by one step, halts   *)
(* where it stands, is completed exactly at its end, and is lost by a torn *)
(* write only, be it the first one, and never once it is completed: the    *)
(* engine implements DurableFlow, whatever fails.                          *)
THEOREM Refinement ==
  ASSUME FlatFlow, N > 0
  PROVE  Spec => ImplementsDurable
<1>1. Init => StatusInv /\ Durable!Init
  BY DEF Init, Absent, StatusInv, Readable, Durable!Init
<1>2. /\ TypeOK /\ TypeOK' /\ FlatInv /\ StatusInv /\ [Next]_vars
      => StatusInv' /\ [Durable!Next]_<<disk.idx, disk.status>>
  BY NextDisk, NextCount, StatusNext
<1>3. QED
  BY <1>1, <1>2, FlatInvariant, PTL DEF Spec, ImplementsDurable, Durable!Spec

-----------------------------------------------------------------------------
(* The definition that a process runs: while it runs, its frame is in use; *)
(* what is said of it here holds of every flow, whatever is nested in it.  *)
RootInv ==
  /\ at # None => loc[Root].attempt > 0
  /\ at = None => ret = "none" /\ pc = "idle"
  /\ at = Root => pc \in {"start", "flow", "returned", "commit"}

(* A step stays in its activation, calls a step below it, or returns.      *)
Moves(s) ==
  \/ at' = s
  \/ at' \in Step /\ Def[at'].parent = s /\ pc' = "policy"
  \/ /\ at' = Def[s].parent /\ pc' = "returned"
     /\ ret' = "ok" => s \in done'

(* Returning and settling are such moves.                                  *)
LEMMA SettleMoves ==
  ASSUME NEW s \in Step, NEW o, NEW n, Leave(s, o) \/ Settle(s, o, n) \/ Verify(s, n)
  PROVE  Moves(s) /\ done \subseteq done'
BY DEF Moves, Leave, Settle, Verify, Continue

(* A step below the root moves like that, and leaves the root's frame and  *)
(* the exit of the process alone.                                          *)
LEMMA InnerMoves ==
  ASSUME TypeOK, NEW s \in Step \ {Root}, RunnerStep(s)
  PROVE  at = s /\ Moves(s) /\ done \subseteq done' /\ loc'[Root] = loc[Root] /\ exit' = exit
<1>1. CASE RunSetup(s) \/ LoopNext(s) \/ FlowNext(s)
  <2>1. loc[s].setup \in Nat /\ loc[s].idx \in Nat
    BY DEF TypeOK, Frame
  <2>2. PICK c \in Step : Call(c) /\ Def[c].parent = s
    <3>1. CASE RunSetup(s)
      <4>1. loc[s].setup + 1 \in 1..Len(Def[s].setup)
        BY <2>1, <3>1, DefFacts DEF RunSetup
      <4>2. QED
        BY <3>1, <4>1, DefFacts DEF RunSetup
    <3>2. CASE LoopNext(s) \/ FlowNext(s)
      <4>1. loc[s].idx + 1 \in 1..Len(Def[s].body)
        BY <2>1, <3>2, DefFacts DEF LoopNext, FlowNext
      <4>2. Child(s) \in Step /\ Def[Child(s)].parent = s
        BY <4>1, DefFacts DEF Child
      <4>3. QED
        BY <3>2, <4>2 DEF LoopNext, FlowNext
    <3>3. QED
      BY <1>1, <3>1, <3>2
  <2>3. c # Root
    BY <2>2, ChildTop
  <2>4. at' = c /\ pc' = "policy" /\ done' = done /\ loc'[Root] = loc[Root]
    BY <2>2, <2>3, RootFacts DEF Call, Continue, history, TypeOK
  <2>5. at = s /\ exit' = exit
    BY <1>1 DEF RunSetup, LoopNext, FlowNext, Ready
  <2>6. QED
    BY <2>2, <2>4, <2>5 DEF Moves
<1>2. CASE SetupReturned(s)
  BY <1>2, AttemptAside, SettleMoves DEF SetupReturned, Moves, Continue, Ready
<1>3. CASE SkipDisabled(s) \/ RunLeaf(s) \/ ApproveGate(s) \/ PauseAtGate(s)
           \/ WorkflowUnreadable(s)
  <2>1. at = s /\ exit' = exit /\ BeginAttempt(s)
    BY <1>3 DEF SkipDisabled, RunLeaf, ApproveGate, PauseAtGate, WorkflowUnreadable,
       CanAttempt, Ready
  <2>2. Moves(s) /\ done \subseteq done'
    BY <1>3, SettleMoves DEF SkipDisabled, RunLeaf, ApproveGate, PauseAtGate,
       WorkflowUnreadable
  <2>3. QED
    BY <2>1, <2>2, AttemptAside
<1>4. CASE EnterWorkflow(s) \/ EnterLoop(s)
  BY <1>4, AttemptAside
  DEF EnterWorkflow, EnterLoop, Moves, Continue, history, CanAttempt, Ready
<1>5. CASE LoopReturned(s)
  BY <1>5, AttemptAside, SettleMoves DEF LoopReturned, Moves, Continue, Ready
<1>6. CASE LoopIterationEnds(s)
  <2>1. at = s /\ exit' = exit /\ loc'[Root] = loc[Root]
    BY <1>6, RootFacts DEF LoopIterationEnds, TypeOK, Ready
  <2>2. \/ Verify(s, loc[s].attempt) \/ Settle(s, "fail", loc[s].attempt)
        \/ at' = s /\ done' = done
    BY <1>6 DEF LoopIterationEnds, Continue
  <2>3. QED
    BY <2>1, <2>2, SettleMoves DEF Moves
<1>7. CASE StartFlow(s) \/ FlowAdvances(s) \/ CommitStep(s)
  BY <1>7, AttemptAside
  DEF StartFlow, FlowAdvances, CommitStep, Continue, Moves, history, Ready
<1>8. CASE FlowStops(s) \/ FlowEnds(s)
  <2>1. at = s /\ loc' = loc
    BY <1>8 DEF FlowStops, FlowEnds, Ready
  <2>2. exit' = exit /\ \E o, n : Settle(s, o, n) \/ Verify(s, n)
    BY <1>8 DEF FlowStops, FlowEnds, EndFlow
  <2>3. QED
    BY <2>1, <2>2, SettleMoves
<1>9. QED
  BY <1>1, <1>2, <1>3, <1>4, <1>5, <1>6, <1>7, <1>8 DEF RunnerStep

(* So does a fault below the root that does not end the process.           *)
LEMMA InnerFaults ==
  ASSUME TypeOK, NEW s \in Step \ {Root}, SaveError(s) \/ CommitError(s) \/ ArtifactError(s)
  PROVE  at = s /\ Moves(s) /\ done \subseteq done' /\ loc'[Root] = loc[Root] /\ exit' = exit
<1>1. at = s
  BY DEF SaveError, SavePoint, CommitError, ArtifactError, CanAttempt, Ready
<1>2. \E o, n : Settle(s, o, n) \/ Verify(s, n)
  BY DEF SaveError, CommitError, ArtifactError, EndFlow
<1>3. BeginAttempt(s) \/ UNCHANGED loc
  BY DEF SaveError, CommitError, ArtifactError
<1>4. exit' = exit
  BY DEF SaveError, CommitError, ArtifactError, EndFlow
<1>5. QED
  BY <1>1, <1>2, <1>3, <1>4, SettleMoves, AttemptAside

(* The root itself only works through its body.                            *)
LEMMA RootMoves ==
  ASSUME RootInv, RunnerStep(Root)
  PROVE  /\ at = Root
         /\ \/ StartFlow(Root) \/ FlowNext(Root) \/ FlowAdvances(Root) \/ CommitStep(Root)
            \/ FlowStops(Root) \/ FlowEnds(Root)
BY RootFacts DEF RootInv, RunnerStep, Ready, CanAttempt, RunSetup, SetupReturned,
   SkipDisabled, RunLeaf, ApproveGate, PauseAtGate, EnterWorkflow, WorkflowUnreadable,
   EnterLoop, LoopNext, LoopReturned, LoopIterationEnds, StartFlow, FlowNext, FlowAdvances,
   CommitStep, FlowStops, FlowEnds, LeafType

(* And its faults are those of saving and committing.                      *)
LEMMA RootFaults ==
  ASSUME RootInv, SaveError(Root) \/ CommitError(Root) \/ ArtifactError(Root)
  PROVE  /\ at = Root /\ pc # "policy" /\ done' = done
         /\ at' = None /\ ret' = "none" /\ pc' = "idle"
         /\ SaveError(Root) \/ CommitError(Root)
<1>1. at = Root /\ pc # "policy"
  BY DEF RootInv, SaveError, SavePoint, CommitError, ArtifactError, CanAttempt, Ready
<1>2. ~ArtifactError(Root)
  BY <1>1, RootFacts DEF ArtifactError, CanAttempt, Ready, RootInv
<1>3. QED
  BY <1>1, <1>2 DEF SaveError, CommitError, EndFlow

(* Every step of the specification keeps the frame of the root in use.     *)
LEMMA RootNext ==
  ASSUME TypeOK, RootInv, [Next]_vars
  PROVE  RootInv'
<1>1. CASE \E a \in BOOLEAN : Execute(a) \/ Resume(a)
  BY <1>1, RootFacts DEF Execute, Resume, Launch, Continue, RootInv
<1>2. CASE \E s \in Step \ {Root} :
             RunnerStep(s) \/ SaveError(s) \/ CommitError(s) \/ ArtifactError(s)
  <2>1. PICK s \in Step \ {Root} :
          RunnerStep(s) \/ SaveError(s) \/ CommitError(s) \/ ArtifactError(s)
    BY <1>2
  <2>2. at = s /\ Moves(s) /\ loc'[Root] = loc[Root]
    BY <2>1, InnerMoves, InnerFaults
  <2>3. QED
    BY <2>2, DefFacts, RootFacts DEF RootInv, Moves
<1>3. CASE RunnerStep(Root)
  <2>1. CASE FlowNext(Root)
    <3>1. loc[Root].idx \in Nat
      BY RootFacts DEF TypeOK, Frame
    <3>2. Call(Child(Root)) /\ Child(Root) \in Step /\ Child(Root) # Root
      BY <2>1, <3>1, RootFacts, ChildTop DEF FlowNext, Child, N
    <3>3. at' = Child(Root) /\ loc'[Root] = loc[Root]
      BY <3>2, RootFacts DEF Call, Continue, TypeOK
    <3>4. QED
      BY <1>3, <3>2, <3>3, RootMoves, RootFacts DEF RootInv
  <2>2. CASE FlowAdvances(Root)
    <3>1. loc'[Root].attempt = loc[Root].attempt
      BY <2>2, RootFacts DEF FlowAdvances, NextChild, TypeOK, Frame
    <3>2. at' = Root /\ pc' \in {"flow", "commit"}
      BY <2>2 DEF FlowAdvances, Continue
    <3>3. QED
      BY <1>3, <3>1, <3>2, RootMoves, RootFacts DEF RootInv
  <2>3. CASE StartFlow(Root) \/ CommitStep(Root)
    BY <1>3, <2>3, RootMoves, RootFacts DEF RootInv, StartFlow, CommitStep, Continue
  <2>4. CASE FlowStops(Root) \/ FlowEnds(Root)
    BY <2>4, RootFacts DEF FlowStops, FlowEnds, EndFlow, RootInv
  <2>5. QED
    BY <1>3, <2>1, <2>2, <2>3, <2>4, RootMoves
<1>4. CASE SaveError(Root) \/ CommitError(Root) \/ ArtifactError(Root)
  BY <1>4, RootFaults, RootFacts DEF RootInv
<1>5. CASE Crash \/ \E s \in Step : TornSave(s)
  BY <1>5, RootFacts DEF Crash, TornSave, Die, RootInv
<1>6. CASE UNCHANGED vars
  BY <1>6 DEF vars, control, RootInv
<1>7. QED
  BY <1>1, <1>2, <1>3, <1>4, <1>5, <1>6, RootFacts DEF Next, FaultStep

(* So it is in use in every state in which a process runs.                 *)
LEMMA RootSafe == Spec => [](TypeOK /\ RootInv)
<1>1. Init => RootInv
  BY RootFacts DEF Init, RootInv
<1>2. TypeOK /\ RootInv /\ [Next]_vars => RootInv'
  BY RootNext
<1>3. QED
  BY <1>1, <1>2, TypeCorrect, PTL DEF Spec

-----------------------------------------------------------------------------
(* Pauses.  Only the return of a step carries one.                         *)
PauseReturns == ret = "pause" => pc = "returned"

(* A save that fails turns the pause of a nested definition into an error  *)
(* of its step, which may be retried.                                      *)
PausesAreSaved == FlatFlow \/ "save" \notin FaultKinds

(* Settling a step passes a pause on, and makes none.                      *)
LEMMA SettlePause ==
  ASSUME NEW s \in Step, NEW o, NEW n, Settle(s, o, n)
  PROVE  ret' = "pause" => o = "pause" /\ pc' = "returned"
BY DEF Settle, Leave, Continue

(* A pause that is settled is passed on.                                   *)
LEMMA SettlePaused ==
  ASSUME NEW s \in Step, NEW n, Settle(s, "pause", n)
  PROVE  ret' = "pause" /\ inbox' = inbox
BY DEF Settle, Leave

(* A verify list that follows an attempt makes none.                       *)
LEMMA VerifyPause ==
  ASSUME NEW s \in Step, NEW n, Verify(s, n)
  PROVE  ret' # "pause"
BY SettlePause DEF Verify

(* A definition that returns passes the pause on, or ends the process.     *)
LEMMA EndFlowPause ==
  ASSUME NEW s \in Step, NEW o, EndFlow(s, o)
  PROVE  /\ ret' = "pause" => s # Root /\ o = "pause" /\ pc' = "returned"
         /\ o = "pause" => inbox' = inbox /\ (ret' = "pause" \/ at' = None)
<1>1. CASE s = Root
  BY <1>1 DEF EndFlow
<1>2. CASE s # Root /\ o = "ok"
  BY <1>2, VerifyPause DEF EndFlow
<1>3. CASE s # Root /\ o # "ok"
  BY <1>3, SettlePause, SettlePaused DEF EndFlow
<1>4. QED
  BY <1>1, <1>2, <1>3

(* What returns the pause is a gate that waits, or a step with a callee    *)
(* that returned it; and a step of the runner that meets a pause passes it *)
(* on and runs nothing.                                                    *)
LEMMA RunnerPause ==
  ASSUME PauseReturns, NEW s \in Step, RunnerStep(s)
  PROVE  /\ ret = "pause" => ran' = ran /\ (ret' = "pause" \/ at' = None)
         /\ ret' = "pause" => /\ pc' = "returned"
                              /\ \/ PauseAtGate(s)
                                 \/ ret = "pause" /\ loc' = loc /\ inbox' = inbox
<1> USE DEF PauseReturns, Ready, CanAttempt
<1>1. CASE RunSetup(s) \/ EnterWorkflow(s) \/ EnterLoop(s) \/ LoopNext(s)
           \/ StartFlow(s) \/ FlowNext(s) \/ FlowAdvances(s) \/ CommitStep(s)
  <2>1. ret' = "none"
    BY <1>1 DEF RunSetup, EnterWorkflow, EnterLoop, LoopNext, StartFlow, FlowNext, FlowAdvances,
       CommitStep, Call, Continue
  <2>2. ret # "pause"
    BY <1>1 DEF RunSetup, EnterWorkflow, EnterLoop, LoopNext, StartFlow, FlowNext, FlowAdvances,
       CommitStep
  <2>3. QED
    BY <2>1, <2>2
<1>2. CASE SetupReturned(s)
  BY <1>2 DEF SetupReturned, Leave, Continue
<1>3. CASE SkipDisabled(s) \/ RunLeaf(s) \/ ApproveGate(s) \/ WorkflowUnreadable(s)
  <2>1. ret # "pause"
    BY <1>3 DEF SkipDisabled, RunLeaf, ApproveGate, WorkflowUnreadable
  <2>2. ret' # "pause"
    BY <1>3, SettlePause, VerifyPause
    DEF SkipDisabled, RunLeaf, ApproveGate, WorkflowUnreadable
  <2>3. QED
    BY <2>1, <2>2
<1>4. CASE PauseAtGate(s)
  BY <1>4 DEF PauseAtGate, Leave
<1>5. CASE LoopReturned(s)
  <2>1. CASE ret = "ok"
    BY <1>5, <2>1 DEF LoopReturned, Continue
  <2>2. CASE ret # "ok"
    <3>1. Settle(s, ret, loc[s].attempt) /\ loc' = loc /\ ran' = ran
      BY <1>5, <2>2 DEF LoopReturned
    <3>2. QED
      BY <3>1, SettlePause, SettlePaused
  <2>3. QED
    BY <2>1, <2>2
<1>6. CASE LoopIterationEnds(s)
  <2>1. pc = "loop"
    BY <1>6 DEF LoopIterationEnds
  <2>2. ret' # "pause"
    BY <1>6, SettlePause, VerifyPause DEF LoopIterationEnds, Continue
  <2>3. QED
    BY <2>1, <2>2
<1>7. CASE FlowStops(s)
  <2>1. EndFlow(s, ret) /\ loc' = loc /\ ran' = ran
    BY <1>7 DEF FlowStops
  <2>2. QED
    BY <2>1, EndFlowPause
<1>8. CASE FlowEnds(s)
  <2>1. EndFlow(s, "ok") /\ pc = "flow"
    BY <1>8 DEF FlowEnds
  <2>2. QED
    BY <2>1, EndFlowPause
<1>9. QED
  BY <1>1, <1>2, <1>3, <1>4, <1>5, <1>6, <1>7, <1>8 DEF RunnerStep

(* A fault makes no pause, and drops one only when it ends the process.    *)
LEMMA FaultPause ==
  ASSUME RootInv, PauseReturns, PausesAreSaved, NEW s \in Step, FaultStep(s) \/ Crash
  PROVE  ran' = ran /\ ret' # "pause" /\ (ret = "pause" => at' = None)
<1> USE DEF PauseReturns, Ready, CanAttempt
<1>1. CASE TornSave(s) \/ Crash
  BY <1>1 DEF TornSave, Crash, Die, history
<1>2. CASE SaveError(s)
  <2>1. FlatFlow /\ Def[s].type = "workflow"
    BY <1>2 DEF SaveError, SavePoint, Fault, PausesAreSaved
  <2>2. s = Root
    BY <2>1 DEF FlatFlow
  <2>3. QED
    BY <1>2, <2>2, RootFaults DEF SaveError
<1>3. CASE CommitError(s)
  <2>1. EndFlow(s, "fail") /\ ran' = ran /\ pc = "commit"
    BY <1>3 DEF CommitError
  <2>2. QED
    BY <2>1, EndFlowPause
<1>4. CASE ArtifactError(s)
  <2>1. PICK n : Settle(s, "fail", n)
    BY <1>4 DEF ArtifactError
  <2>2. ret # "pause" /\ ran' = ran
    BY <1>4 DEF ArtifactError
  <2>3. QED
    BY <2>1, <2>2, SettlePause
<1>5. QED
  BY <1>1, <1>2, <1>3, <1>4 DEF FaultStep

(* Every step of the specification passes pauses on.                       *)
LEMMA NextPause ==
  ASSUME RootInv, PauseReturns, PausesAreSaved, [Next]_vars
  PROVE  /\ PauseReturns'
         /\ ret = "pause" => UNCHANGED vars \/ (ran' = ran /\ (ret' = "pause" \/ at' = None))
<1>1. CASE \E a \in BOOLEAN : Execute(a) \/ Resume(a)
  <2>1. ret' = "none" /\ at = None
    BY <1>1 DEF Execute, Resume, Launch, Continue
  <2>2. QED
    BY <2>1 DEF PauseReturns, RootInv
<1>2. CASE \E s \in Step : RunnerStep(s)
  BY <1>2, RunnerPause DEF PauseReturns
<1>3. CASE (\E s \in Step : FaultStep(s)) \/ Crash
  BY <1>3, FaultPause, RootFacts DEF PauseReturns
<1>4. CASE UNCHANGED vars
  BY <1>4 DEF vars, control, history, PauseReturns
<1>5. QED
  BY <1>1, <1>2, <1>3, <1>4 DEF Next

(* Whatever is nested in a flow, a pause goes straight up to the process,  *)
(* past every policy, unless a failing save replaces it on its way.        *)
THEOREM PauseSafe == ASSUME PausesAreSaved PROVE Spec => PauseUnwinds
<1>1. Init => PauseReturns
  BY DEF Init, PauseReturns
<1>2. RootInv /\ PauseReturns /\ [Next]_vars => PauseReturns'
  BY NextPause
<1>3. RootInv /\ PauseReturns /\ [Next]_vars
      => [ret = "pause" => ran' = ran /\ (ret' = "pause" \/ at' = None)]_vars
  BY NextPause
<1>4. QED
  BY <1>1, <1>2, <1>3, RootSafe, PTL DEF Spec, PauseUnwinds

-----------------------------------------------------------------------------
(* The record and the frame of the root, with workflows and stages in it.  *)
(* state.json is the root's own while the root works and once it has       *)
(* returned; in between a nested workflow writes it.                       *)
FrameInv ==
  at # None =>
    /\ loc[Root].idx <= N
    /\ \A i \in 1..N : i <= loc[Root].idx => Def[Root].body[i] \in done

InsideTop ==
  at \in Step \ {Root} =>
    loc[Root].idx < N /\ Def[at].top = Def[Root].body[loc[Root].idx + 1]

RecordIsOwn == at = None \/ (at = Root /\ pc \in {"start", "flow", "commit"})

RecordInv ==
  (RecordIsOwn /\ ~Def[Root].staged) =>
    /\ SavedIndexIsEarned
    /\ (at = Root /\ pc # "start") => Readable /\ disk.idx = loc[Root].idx
    /\ (Readable /\ N > 0 /\ disk.idx = N) => disk.status = "completed"

NestInv == RootInv /\ FrameInv /\ InsideTop /\ AtRoot /\ RecordInv

(* No process dies, and no save fails, while a nested workflow has written *)
(* the file; and a staged definition is not resumed.                       *)
RootRecovers ==
  FlatFlow \/ Def[Root].staged \/ FaultKinds \cap {"crash", "torn", "save"} = {}

(* A move below the root keeps the invariant.                              *)
LEMMA MovesNest ==
  ASSUME NestInv, RootInv', NEW s \in Step \ {Root}, at = s, Moves(s),
         done \subseteq done', loc'[Root] = loc[Root]
  PROVE  NestInv'
<1>1. Def[s].parent \in Step /\ at # None
  BY DefFacts, RootFacts
<1>2. Def[s].top = IF Def[s].parent = Root THEN s ELSE Def[Def[s].parent].top
  BY FlowAssumption
<1>3. /\ loc[Root].idx < N /\ Def[s].top = Def[Root].body[loc[Root].idx + 1]
  BY DEF NestInv, InsideTop
<1>4. FrameInv'
  BY <1>1 DEF NestInv, FrameInv
<1>5. CASE at' = s
  BY <1>3, <1>4, <1>5, RootFacts
  DEF NestInv, InsideTop, AtRoot, RecordInv, RecordIsOwn
<1>6. CASE at' \in Step /\ Def[at'].parent = s
  <2>1. at' # Root /\ Def[at'].top = Def[s].top /\ at' # None
    BY <1>6, ChildTop, RootFacts
  <2>2. QED
    BY <1>3, <1>4, <2>1 DEF NestInv, InsideTop, AtRoot, RecordInv, RecordIsOwn
<1>7. CASE at' = Def[s].parent /\ pc' = "returned" /\ (ret' = "ok" => s \in done')
  <2>1. InsideTop' /\ AtRoot'
    BY <1>1, <1>2, <1>3, <1>7 DEF InsideTop, AtRoot
  <2>2. RecordInv'
    BY <1>1, <1>7, RootFacts DEF RecordInv, RecordIsOwn
  <2>3. QED
    BY <1>4, <2>1, <2>2 DEF NestInv
<1>8. QED
  BY <1>5, <1>6, <1>7 DEF Moves

(* So does a step of the root.                                             *)
LEMMA RootNest ==
  ASSUME TypeOK, NestInv, RootInv', RunnerStep(Root)
  PROVE  NestInv'
<1>0. /\ at = Root /\ Root # None /\ loc[Root] \in Frame /\ loc[Root].idx \in Nat
      /\ loc[Root].idx <= N
      /\ \A i \in 1..N : i <= loc[Root].idx => Def[Root].body[i] \in done
  BY RootMoves, RootFacts DEF NestInv, FrameInv, TypeOK, Frame
<1>1. CASE FlowNext(Root)
  <2>1. /\ loc[Root].idx < N /\ Call(Child(Root))
        /\ Child(Root) = Def[Root].body[loc[Root].idx + 1]
        /\ Child(Root) \in Step /\ Def[Child(Root)].parent = Root
    BY <1>0, <1>1, RootFacts DEF FlowNext, Child
  <2>2. Child(Root) # Root /\ Def[Child(Root)].top = Child(Root) /\ Child(Root) # None
    BY <2>1, ChildTop, RootFacts
  <2>3. at' = Child(Root) /\ done' = done /\ loc'[Root] = loc[Root]
    BY <2>1, <2>2, RootFacts DEF Call, Continue, history, TypeOK
  <2>4. QED
    BY <1>0, <2>1, <2>2, <2>3
    DEF NestInv, FrameInv, InsideTop, AtRoot, RecordInv, RecordIsOwn
<1>2. CASE FlowAdvances(Root)
  <2>1. /\ loc[Root].idx < N /\ Def[Root].body[loc[Root].idx + 1] \in done
        /\ done' = done /\ at' = Root /\ pc' \in {"flow", "commit"}
    BY <1>0, <1>2 DEF FlowAdvances, NestInv, AtRoot, Ready, Continue, history
  <2>2. loc'[Root].idx = loc[Root].idx + 1
    BY <1>0, <1>2, RootFacts DEF FlowAdvances, NextChild, TypeOK, Frame
  <2>3. FrameInv' /\ InsideTop' /\ AtRoot'
    BY <1>0, <2>1, <2>2, RootFacts DEF FrameInv, InsideTop, AtRoot
  <2>4. RecordInv'
    <3>1. CASE Def[Root].staged
      BY <3>1 DEF RecordInv
    <3>2. CASE ~Def[Root].staged
      <4>1. /\ disk'.idx = loc[Root].idx + 1
            /\ disk'.status = IF loc[Root].idx + 1 = N THEN "completed" ELSE "running"
        BY <1>2, <3>2, RootFacts DEF FlowAdvances, SaveState
      <4>2. SavedIndexIsEarned'
        BY <2>2, <2>3, <4>1, <2>1, <1>0 DEF SavedIndexIsEarned, FrameInv
      <4>3. QED
        BY <2>1, <2>2, <4>1, <4>2 DEF RecordInv, Readable
    <3>3. QED
      BY <3>1, <3>2
  <2>5. QED
    BY <2>3, <2>4 DEF NestInv
<1>3. CASE CommitStep(Root)
  <2>1. disk' = disk /\ loc' = loc /\ done' = done /\ at' = Root /\ pc' = "flow" /\ pc = "commit"
    BY <1>3 DEF CommitStep, Continue, history, Ready
  <2>2. FrameInv' /\ InsideTop' /\ AtRoot'
    BY <1>0, <2>1 DEF FrameInv, InsideTop, AtRoot
  <2>3. RecordInv'
    BY <1>0, <2>1 DEF NestInv, RecordInv, RecordIsOwn, SavedIndexIsEarned, Readable
  <2>4. QED
    BY <2>2, <2>3 DEF NestInv
<1>4. CASE FlowStops(Root)
  <2>1. at' = None /\ done' = done
    BY <1>4 DEF FlowStops, EndFlow
  <2>2. loc[Root].idx < N
    BY <1>4, <1>0 DEF FlowStops, NestInv, AtRoot, Ready
  <2>3. ~Def[Root].staged => disk'.idx = loc[Root].idx
    BY <1>4 DEF FlowStops, SaveState
  <2>4. RecordInv'
    BY <1>0, <2>1, <2>2, <2>3 DEF RecordInv, SavedIndexIsEarned
  <2>5. QED
    BY <2>1, <2>4, RootFacts DEF NestInv, FrameInv, InsideTop, AtRoot
<1>5. CASE FlowEnds(Root)
  <2>1. at' = None /\ done' = done /\ pc = "flow" /\ SaveAtEnd(Root)
    BY <1>5 DEF FlowEnds, EndFlow, Ready
  <2>2. RecordInv'
    <3>1. CASE ~Def[Root].staged /\ Def[Root].body = << >>
      <4>1. disk' = [status |-> "completed", idx |-> 0, owner |-> Root]
        BY <2>1, <3>1 DEF SaveAtEnd, SaveState
      <4>2. QED
        BY <1>0, <2>1, <4>1, RootFacts DEF RecordInv, SavedIndexIsEarned
    <3>2. CASE ~Def[Root].staged /\ Def[Root].body # << >>
      BY <1>0, <2>1, <3>2
      DEF SaveAtEnd, NestInv, RecordInv, RecordIsOwn, SavedIndexIsEarned, Readable
    <3>3. QED
      BY <3>1, <3>2 DEF RecordInv
  <2>3. QED
    BY <2>1, <2>2, RootFacts DEF NestInv, FrameInv, InsideTop, AtRoot
<1>6. CASE StartFlow(Root)
  <2>1. /\ disk' = [status |-> "running", idx |-> 0, owner |-> Root]
        /\ loc' = loc /\ loc[Root].idx = 0 /\ at' = Root /\ pc' = "flow"
    BY <1>0, <1>6 DEF StartFlow, SaveState, Continue, Ready, NestInv, AtRoot
  <2>2. FrameInv' /\ InsideTop' /\ AtRoot'
    BY <2>1, RootFacts DEF FrameInv, InsideTop, AtRoot
  <2>3. RecordInv'
    BY <2>1, RootFacts DEF RecordInv, SavedIndexIsEarned, Readable
  <2>4. QED
    BY <2>2, <2>3 DEF NestInv
<1>7. QED
  BY <1>1, <1>2, <1>3, <1>4, <1>5, <1>6, RootMoves DEF NestInv

(* So does a new process: it starts from a record that is the root's own.  *)
LEMMA LaunchNest ==
  ASSUME TypeOK, NestInv, RootInv', NEW a \in BOOLEAN, Execute(a) \/ Resume(a)
  PROVE  NestInv'
<1>1. CASE Execute(a)
  <2>1. /\ at = None /\ at' = Root /\ pc' = "start" /\ disk' = disk /\ done' = done
        /\ loc'[Root].idx = 0
    BY <1>1, RootFacts DEF Execute, Launch, Continue
  <2>2. FrameInv' /\ InsideTop' /\ AtRoot'
    BY <2>1, RootFacts DEF FrameInv, InsideTop, AtRoot
  <2>3. RecordInv'
    BY <2>1 DEF NestInv, RecordInv, RecordIsOwn, SavedIndexIsEarned, Readable
  <2>4. QED
    BY <2>2, <2>3 DEF NestInv
<1>2. CASE Resume(a)
  <2>1. /\ ~Def[Root].staged /\ Readable /\ at = None /\ disk' = disk
    BY <1>2 DEF Resume, Launch
  <2>2. /\ SavedIndexIsEarned /\ (N > 0 /\ disk.idx = N => disk.status = "completed")
        /\ disk.idx \in Nat /\ disk.idx <= N
    BY <2>1 DEF NestInv, RecordInv, RecordIsOwn, SavedIndexIsEarned, TypeOK
  <2>3. Launch("flow", disk.idx, a)
    BY <1>2, <2>2, RootFacts DEF Resume
  <2>4. at' = Root /\ pc' = "flow" /\ loc'[Root].idx = disk.idx /\ done' = done
    BY <2>3, RootFacts DEF Launch, Continue
  <2>5. FrameInv' /\ InsideTop' /\ AtRoot'
    BY <2>1, <2>2, <2>4, RootFacts DEF FrameInv, InsideTop, AtRoot, SavedIndexIsEarned
  <2>6. RecordInv'
    BY <2>1, <2>2, <2>4 DEF RecordInv, SavedIndexIsEarned, Readable
  <2>7. QED
    BY <2>5, <2>6 DEF NestInv
<1>3. QED
  BY <1>1, <1>2


(* A fault of the root leaves a record of the root, or none, unless the    *)
(* process dies inside a nested workflow.                                  *)
LEMMA FaultNest ==
  ASSUME ~FlatFlow, RootRecovers, TypeOK, NestInv, RootInv', NEW s \in Step,
         FaultStep(s) \/ Crash
  PROVE  NestInv'
<1>1. CASE s # Root /\ (SaveError(s) \/ CommitError(s) \/ ArtifactError(s))
  BY <1>1, InnerFaults, MovesNest
<1>2. CASE TornSave(s) \/ Crash
  <2>1. Def[Root].staged
    BY <1>2 DEF TornSave, Crash, Fault, RootRecovers
  <2>2. at' = None
    BY <1>2 DEF TornSave, Crash, Die
  <2>3. QED
    BY <2>1, <2>2, RootFacts DEF NestInv, FrameInv, InsideTop, AtRoot, RecordInv
<1>3. CASE s = Root /\ (SaveError(s) \/ CommitError(s) \/ ArtifactError(s))
  <2>1. at = Root /\ done' = done /\ at' = None /\ (SaveError(Root) \/ CommitError(Root))
    BY <1>3, RootFaults DEF NestInv
  <2>2. CASE SaveError(Root)
    <3>1. Def[Root].staged
      BY <2>2 DEF SaveError, Fault, RootRecovers
    <3>2. QED
      BY <2>1, <3>1, RootFacts DEF NestInv, FrameInv, InsideTop, AtRoot, RecordInv
  <2>3. CASE CommitError(Root)
    <3>1. disk' = disk /\ pc = "commit"
      BY <2>3 DEF CommitError, Ready
    <3>2. RecordInv'
      BY <2>1, <3>1, RootFacts
      DEF NestInv, RecordInv, RecordIsOwn, SavedIndexIsEarned, Readable
    <3>3. QED
      BY <2>1, <3>2, RootFacts DEF NestInv, FrameInv, InsideTop, AtRoot
  <2>4. QED
    BY <2>1, <2>2, <2>3
<1>4. QED
  BY <1>1, <1>2, <1>3 DEF FaultStep

(* The invariant holds before the first process.                           *)
LEMMA NestInit == Init => NestInv
BY RootFacts DEF Init, NestInv, RootInv, FrameInv, InsideTop, AtRoot, RecordInv,
   SavedIndexIsEarned, Readable, Absent

(* Every step keeps it, in a flow with nested workflows or stages.         *)
LEMMA NestNext ==
  ASSUME ~FlatFlow, RootRecovers, TypeOK, NestInv, [Next]_vars
  PROVE  NestInv'
<1>0. RootInv'
  BY RootNext DEF NestInv
<1>1. CASE \E a \in BOOLEAN : Execute(a) \/ Resume(a)
  BY <1>0, <1>1, LaunchNest
<1>2. CASE \E s \in Step : RunnerStep(s)
  BY <1>0, <1>2, InnerMoves, MovesNest, RootNest
<1>3. CASE (\E s \in Step : FaultStep(s)) \/ Crash
  BY <1>0, <1>3, FaultNest, RootFacts
<1>4. CASE UNCHANGED vars
  BY <1>0, <1>4 DEF vars, control, history, NestInv, FrameInv, InsideTop, AtRoot,
     RecordInv, RecordIsOwn, SavedIndexIsEarned, Readable
<1>5. QED
  BY <1>1, <1>2, <1>3, <1>4 DEF Next

(* In a flow without nested workflows, the file is always the root's own.  *)
LEMMA FlatStatus == ASSUME FlatFlow, N > 0 PROVE Spec => []StatusInv
<1>1. Init => StatusInv
  BY DEF Init, Absent, StatusInv, Readable
<1>2. TypeOK /\ TypeOK' /\ FlatInv /\ StatusInv /\ [Next]_vars => StatusInv'
  BY NextDisk, NextCount, StatusNext
<1>3. QED
  BY <1>1, <1>2, FlatInvariant, PTL DEF Spec

LEMMA FlatNest ==
  ASSUME TypeOK, RootInv, FlatInv, N > 0 => StatusInv
  PROVE  NestInv
<1>1. FrameInv
  <2>1. CASE at # None /\ pc # "start"
    BY <2>1 DEF FlatInv, FrameInv, Running, SavedIndexIsEarned
  <2>2. CASE at # None /\ pc = "start"
    BY <2>2, RootFacts DEF FlatInv, FrameInv, InsideStep, AtRoot, TypeOK
  <2>3. QED
    BY <2>1, <2>2 DEF FrameInv
<1>2. InsideTop /\ AtRoot
  BY DEF FlatInv, InsideStep, InsideTop
<1>3. RecordInv
  BY RootFacts DEF FlatInv, RecordInv, Running, StatusInv
<1>4. QED
  BY <1>1, <1>2, <1>3 DEF NestInv

(* In every flow that recovers its root, what the root's frame holds is    *)
(* earned, and so is the record whenever the root may be resumed from it.  *)
THEOREM NestInvariant == ASSUME RootRecovers PROVE Spec => [](TypeOK /\ NestInv)
<1>1. ASSUME ~FlatFlow PROVE Spec => [](TypeOK /\ NestInv)
  <2>1. TypeOK /\ NestInv /\ [Next]_vars => NestInv'
    BY <1>1, NestNext
  <2>2. QED
    BY <2>1, NestInit, TypeCorrect, PTL DEF Spec
<1>2. ASSUME FlatFlow, N > 0 PROVE Spec => [](TypeOK /\ NestInv)
  <2>1. TypeOK /\ RootInv /\ FlatInv /\ StatusInv => NestInv
    BY FlatNest
  <2>2. Spec => []StatusInv
    BY <1>2, FlatStatus
  <2>3. Spec => [](TypeOK /\ FlatInv)
    BY <1>2, FlatInvariant
  <2>4. QED
    BY <2>1, <2>2, <2>3, RootSafe, PTL
<1>3. ASSUME FlatFlow, ~(N > 0) PROVE Spec => [](TypeOK /\ NestInv)
  <2>1. TypeOK /\ RootInv /\ FlatInv => NestInv
    BY <1>3, FlatNest
  <2>2. Spec => [](TypeOK /\ FlatInv)
    BY <1>3, FlatInvariant
  <2>3. QED
    BY <2>1, <2>2, RootSafe, PTL
<1>4. QED
  BY <1>1, <1>2, <1>3

(* No top-level step is skipped, with nested workflows and stages too: a   *)
(* step is entered only after all those before it have returned without an *)
(* error, in this process or in an earlier one.                            *)
THEOREM NothingSkipped == ASSUME RootRecovers PROVE Spec => []NoStepSkipped
<1>1. TypeOK /\ NestInv => NoStepSkipped
  <2>1. SUFFICES ASSUME TypeOK, NestInv, NEW j \in 1..N, at \in Step \ {Root},
                        Def[at].top = Def[Root].body[j], NEW i \in 1..(j - 1)
                 PROVE  Def[Root].body[i] \in done
    BY DEF NoStepSkipped
  <2>2. /\ loc[Root].idx \in Nat /\ loc[Root].idx < N /\ at # None
        /\ Def[at].top = Def[Root].body[loc[Root].idx + 1]
    BY <2>1, RootFacts DEF NestInv, InsideTop, TypeOK, Frame
  <2>3. j = loc[Root].idx + 1
    <3>1. loc[Root].idx + 1 \in 1..Len(Def[Root].body) /\ j \in 1..Len(Def[Root].body)
      BY <2>2, RootFacts
    <3>2. \A k, l \in 1..Len(Def[Root].body) : Def[Root].body[k] = Def[Root].body[l] => k = l
      BY RootFacts, FlowAssumption
    <3>3. QED
      BY <2>1, <2>2, <3>1, <3>2
  <2>4. i \in 1..N /\ i <= loc[Root].idx
    BY <2>2, <2>3, RootFacts
  <2>5. QED
    BY <2>1, <2>2, <2>4 DEF NestInv, FrameInv
<1>2. QED
  BY <1>1, NestInvariant, PTL

-----------------------------------------------------------------------------
(* Gates.  Two more facts: a gate that guards is done only once it has     *)
(* been approved, and what has run has run in order.  That a gate does not *)
(* end as a loop or a definition does takes a third: what runs the body of *)
(* a step is a step that has one.                                          *)
ApprovedDone == \A g \in done : Guards(g) => g \in approved

RanInOrder ==
  \A s \in ran : \A j \in 1..N : Def[s].top = Def[Root].body[j]
                   => \A i \in 1..(j - 1) : Def[Root].body[i] \in done

KindInv ==
  /\ pc = "loop" => Def[at].type = "loop"
  /\ pc \in {"start", "flow", "commit"} => Def[at].type = "workflow"

(* Loops run in steps that are loops, definitions in steps that call them. *)
LEMMA KindNext ==
  ASSUME RootInv, KindInv, [Next]_vars
  PROVE  KindInv'
<1> USE DEF KindInv
<1>1. CASE \E a \in BOOLEAN : Execute(a) \/ Resume(a)
  BY <1>1, RootFacts DEF Execute, Resume, Launch, Continue
<1>2. CASE \E s \in Step : RunnerStep(s)
  <2>1. PICK s \in Step : RunnerStep(s)
    BY <1>2
  <2>2. CASE RunSetup(s) \/ LoopNext(s) \/ FlowNext(s)
    BY <2>2 DEF RunSetup, LoopNext, FlowNext, Call, Continue
  <2>3. CASE SetupReturned(s) \/ SkipDisabled(s) \/ RunLeaf(s) \/ ApproveGate(s)
             \/ PauseAtGate(s) \/ WorkflowUnreadable(s)
    <3>1. pc' \in {"policy", "returned"}
      BY <2>3, SettleDone DEF SetupReturned, SkipDisabled, RunLeaf, ApproveGate,
         PauseAtGate, WorkflowUnreadable, Continue
    <3>2. QED
      BY <3>1
  <2>4. CASE EnterWorkflow(s) \/ EnterLoop(s)
    BY <2>4 DEF EnterWorkflow, EnterLoop, Continue
  <2>5. CASE LoopReturned(s) \/ LoopIterationEnds(s)
    <3>1. \/ pc' \in {"policy", "returned"}
          \/ Continue(s, "loop") /\ at = s /\ (pc = "loop" \/ Def[s].type = "loop")
      BY <2>5, SettleDone DEF LoopReturned, LoopIterationEnds, Ready
    <3>2. QED
      BY <3>1 DEF Continue
  <2>6. CASE StartFlow(s) \/ FlowAdvances(s) \/ CommitStep(s)
    BY <2>6 DEF StartFlow, FlowAdvances, CommitStep, Continue, Ready
  <2>7. CASE FlowStops(s) \/ FlowEnds(s)
    <3>1. pc' \in {"idle", "policy", "returned"}
      BY <2>7, SettleDone DEF FlowStops, FlowEnds, EndFlow
    <3>2. QED
      BY <3>1
  <2>8. QED
    BY <2>1, <2>2, <2>3, <2>4, <2>5, <2>6, <2>7 DEF RunnerStep
<1>3. CASE (\E s \in Step : FaultStep(s)) \/ Crash
  <2>1. pc' \in {"idle", "policy", "returned"}
    BY <1>3, SettleDone
    DEF FaultStep, Crash, TornSave, Die, SaveError, CommitError, ArtifactError, EndFlow
  <2>2. QED
    BY <2>1
<1>4. CASE UNCHANGED vars
  BY <1>4 DEF vars, control
<1>5. QED
  BY <1>1, <1>2, <1>3, <1>4 DEF Next

(* Runner steps run leaves where control is, and let no gate that is not   *)
(* approved finish.                                                        *)
LEMMA GateStep ==
  ASSUME RootInv, KindInv, NEW s \in Step, RunnerStep(s)
  PROVE  /\ done \subseteq done' /\ done' \subseteq done \cup {s}
         /\ approved \subseteq approved'
         /\ ran' = ran \/ (ran' = ran \cup {s} /\ at = s /\ s # Root)
         /\ (s \in done' \ done /\ Guards(s)) => s \in approved'
<1>1. CASE RunSetup(s) \/ EnterWorkflow(s) \/ EnterLoop(s) \/ LoopNext(s)
           \/ StartFlow(s) \/ FlowNext(s) \/ FlowAdvances(s) \/ CommitStep(s)
  BY <1>1 DEF RunSetup, EnterWorkflow, EnterLoop, LoopNext, StartFlow, FlowNext, FlowAdvances,
     CommitStep, Call, history
<1>2. CASE SetupReturned(s)
  BY <1>2 DEF SetupReturned, Leave
<1>3. CASE SkipDisabled(s)
  BY <1>3, SettleDone DEF SkipDisabled, Guards
<1>4. CASE RunLeaf(s)
  <2>1. at = s /\ s # Root /\ Def[s].type # "gate"
    BY <1>4, RootFacts DEF RunLeaf, LeafType, CanAttempt, Ready
  <2>2. done' = done \/ done' = done \cup {s}
    BY <1>4, SettleDone DEF RunLeaf
  <2>3. QED
    BY <1>4, <2>1, <2>2 DEF RunLeaf, Guards
<1>5. CASE ApproveGate(s)
  BY <1>5, SettleDone DEF ApproveGate
<1>6. CASE PauseAtGate(s)
  BY <1>6 DEF PauseAtGate, Leave
<1>7. CASE WorkflowUnreadable(s) \/ LoopReturned(s) \/ LoopIterationEnds(s)
           \/ FlowStops(s) \/ FlowEnds(s)
  <2>1. Def[s].type # "gate"
    BY <1>7 DEF WorkflowUnreadable, LoopReturned, LoopIterationEnds, FlowStops, FlowEnds,
       Ready, KindInv
  <2>2. done' = done \/ done' = done \cup {s}
    BY <1>7, SettleDone DEF WorkflowUnreadable, LoopReturned, LoopIterationEnds,
       FlowStops, FlowEnds, EndFlow
  <2>3. ran' = ran /\ approved' = approved
    BY <1>7 DEF WorkflowUnreadable, LoopReturned, LoopIterationEnds, FlowStops, FlowEnds
  <2>4. QED
    BY <2>1, <2>2, <2>3 DEF Guards
<1>8. QED
  BY <1>1, <1>2, <1>3, <1>4, <1>5, <1>6, <1>7 DEF RunnerStep

(* Nor does a fault: it takes a step further only by its policy.           *)
LEMMA GateFault ==
  ASSUME RootInv, KindInv, ApprovedDone, NEW s \in Step, FaultStep(s)
  PROVE  /\ approved' = approved /\ ran' = ran
         /\ done \subseteq done' /\ ApprovedDone'
<1>1. approved' = approved /\ ran' = ran
  BY DEF FaultStep, TornSave, SaveError, CommitError, ArtifactError, history
<1>2. CASE TornSave(s)
  BY <1>1, <1>2 DEF TornSave, history, ApprovedDone
<1>3. CASE SaveError(s) \/ CommitError(s)
  <2>1. Def[s].type # "gate"
    BY <1>3 DEF SaveError, SavePoint, CommitError, Ready, KindInv
  <2>2. done' = done \/ done' = done \cup {s}
    BY <1>3, SettleDone DEF SaveError, CommitError, EndFlow
  <2>3. QED
    BY <1>1, <2>1, <2>2 DEF ApprovedDone, Guards
<1>4. CASE ArtifactError(s)
  <2>1. PICK n : Settle(s, "fail", n)
    BY <1>4 DEF ArtifactError
  <2>2. "artifact" \in FaultKinds
    BY <1>4 DEF ArtifactError, Fault
  <2>3. done' = done \/ (done' = done \cup {s} /\ OnErrorMode(s) = "continue")
    BY <2>1 DEF Settle, Leave
  <2>4. QED
    BY <1>1, <2>2, <2>3 DEF ApprovedDone, Guards
<1>5. QED
  BY <1>1, <1>2, <1>3, <1>4 DEF FaultStep

(* As long as no step is skipped, every step of the specification keeps    *)
(* these facts.                                                            *)
LEMMA GateNext ==
  ASSUME RootInv, KindInv, NoStepSkipped, ApprovedDone, RanInOrder, [Next]_vars
  PROVE  ApprovedDone' /\ RanInOrder'
<1>1. CASE \E s \in Step : RunnerStep(s)
  <2>1. PICK s \in Step : RunnerStep(s)
    BY <1>1
  <2>2. ApprovedDone'
    BY <2>1, GateStep DEF ApprovedDone
  <2>3. done \subseteq done'
    BY <2>1, GateStep
  <2>4. CASE ran' = ran
    BY <2>2, <2>3, <2>4 DEF RanInOrder
  <2>5. CASE ran' = ran \cup {s} /\ at = s /\ s # Root
    <3>1. \A j \in 1..N : Def[s].top = Def[Root].body[j]
            => \A i \in 1..(j - 1) : Def[Root].body[i] \in done
      BY <2>5 DEF NoStepSkipped
    <3>2. \A t \in ran' : t = s \/ t \in ran
      BY <2>5
    <3>3. QED
      BY <2>2, <2>3, <3>1, <3>2 DEF RanInOrder
  <2>6. QED
    BY <2>1, <2>4, <2>5, GateStep
<1>2. CASE \E s \in Step : FaultStep(s)
  <2>1. ApprovedDone' /\ ran' = ran /\ done \subseteq done'
    BY <1>2, GateFault
  <2>2. QED
    BY <2>1 DEF RanInOrder
<1>3. CASE (\E a \in BOOLEAN : Execute(a) \/ Resume(a)) \/ Crash \/ UNCHANGED vars
  <2>1. done' = done /\ approved' = approved /\ ran' = ran
    BY <1>3 DEF Execute, Resume, Launch, Crash, vars, history
  <2>2. QED
    BY <2>1 DEF ApprovedDone, RanInOrder
<1>4. QED
  BY <1>1, <1>2, <1>3 DEF Next

(* A gate holds back what follows it, nested workflows included: no leaf   *)
(* of a later top-level step runs, in any process, before the gate has     *)
(* been approved.                                                          *)
THEOREM GateSafe == ASSUME RootRecovers PROVE Spec => []GateGuardsSuccessors
<1>1. Init => KindInv /\ ApprovedDone /\ RanInOrder
  BY DEF Init, KindInv, ApprovedDone, RanInOrder
<1>2. RootInv /\ KindInv /\ [Next]_vars => KindInv'
  BY KindNext
<1>3. RootInv /\ KindInv /\ NoStepSkipped /\ ApprovedDone /\ RanInOrder /\ [Next]_vars
      => ApprovedDone' /\ RanInOrder'
  BY GateNext
<1>4. ApprovedDone /\ RanInOrder => GateGuardsSuccessors
  <2>1. SUFFICES ASSUME ApprovedDone, RanInOrder, NEW i \in 1..N,
                        Guards(Def[Root].body[i]), Def[Root].body[i] \notin approved,
                        NEW s \in ran, NEW j \in (i + 1)..N,
                        Def[s].top = Def[Root].body[j]
                 PROVE  FALSE
    BY DEF GateGuardsSuccessors
  <2>2. j \in 1..N /\ i \in 1..(j - 1)
    BY <2>1, RootFacts
  <2>3. QED
    BY <2>1, <2>2 DEF ApprovedDone, RanInOrder
<1>5. Spec => []NoStepSkipped
  BY NothingSkipped
<1>6. QED
  BY <1>1, <1>2, <1>3, <1>4, <1>5, RootSafe, PTL DEF Spec
-----------------------------------------------------------------------------
(* Exits.  Which steps end a process with an exit, and what they save.     *)
ExitInv == exit # "none" => at = None

ExitStep ==
  \/ exit' = "none"
  \/ exit' = exit /\ disk' = disk /\ done' = done /\ faults' = faults /\ inbox' = inbox
  \/ RunnerStep(Root) /\ (FlowStops(Root) \/ FlowEnds(Root))
  \/ SaveError(Root) \/ CommitError(Root)

(* Only the root ends a process with an exit.                              *)
LEMMA NextExit ==
  ASSUME TypeOK, RootInv, ExitInv, [Next]_vars
  PROVE  ExitInv' /\ ExitStep
<1> USE DEF ExitStep
<1>1. CASE \E a \in BOOLEAN : Execute(a) \/ Resume(a)
  BY <1>1 DEF Execute, Resume, Launch, ExitInv
<1>2. CASE \E s \in Step \ {Root} :
             RunnerStep(s) \/ SaveError(s) \/ CommitError(s) \/ ArtifactError(s)
  <2>1. PICK s \in Step \ {Root} : at = s /\ exit' = exit
    BY <1>2, InnerMoves, InnerFaults
  <2>2. at # None
    BY <2>1, RootFacts
  <2>3. QED
    BY <2>1, <2>2 DEF ExitInv
<1>3. CASE RunnerStep(Root)
  <2>1. at = Root /\ at # None
    BY <1>3, RootMoves, RootFacts
  <2>2. CASE StartFlow(Root) \/ FlowNext(Root) \/ FlowAdvances(Root) \/ CommitStep(Root)
    BY <2>1, <2>2 DEF StartFlow, FlowNext, FlowAdvances, CommitStep, ExitInv
  <2>3. CASE FlowStops(Root) \/ FlowEnds(Root)
    BY <1>3, <2>3 DEF FlowStops, FlowEnds, EndFlow, ExitInv
  <2>4. QED
    BY <1>3, <2>2, <2>3, RootMoves
<1>4. CASE SaveError(Root) \/ CommitError(Root) \/ ArtifactError(Root)
  BY <1>4, RootFaults DEF ExitInv
<1>5. CASE Crash \/ \E s \in Step : TornSave(s)
  BY <1>5 DEF Crash, TornSave, Die, ExitInv
<1>6. CASE UNCHANGED vars
  BY <1>6 DEF vars, control, history, ExitInv
<1>7. QED
  BY <1>1, <1>2, <1>3, <1>4, <1>5, <1>6, RootFacts DEF Next, FaultStep

(* Ending with an exit leaves the record that goes with it.                *)
LEMMA NextExitMatches ==
  ASSUME TypeOK, NestInv, ExitMatchesDisk, ExitStep
  PROVE  ExitMatchesDisk'
<1>1. CASE exit' = "none"
  BY <1>1 DEF ExitMatchesDisk
<1>2. CASE exit' = exit /\ disk' = disk /\ done' = done /\ faults' = faults
  BY <1>2 DEF ExitMatchesDisk
<1>3. CASE FlowStops(Root)
  <2>1. exit' = ret /\ ret # "ok"
    BY <1>3 DEF FlowStops, EndFlow
  <2>2. disk'.status = IF ~Def[Root].staged /\ ret = "pause" THEN "paused" ELSE "failed"
    BY <1>3 DEF FlowStops, SaveState
  <2>3. QED
    BY <2>1, <2>2 DEF ExitMatchesDisk
<1>4. CASE RunnerStep(Root) /\ FlowEnds(Root)
  <2>1. /\ exit' = "ok" /\ done' = done /\ at = Root /\ pc = "flow"
        /\ loc[Root].idx = N /\ Root # None /\ SaveAtEnd(Root)
    BY <1>4, RootFacts DEF FlowEnds, EndFlow, Ready
  <2>2. \A i \in 1..N : Def[Root].body[i] \in done
    BY <2>1 DEF NestInv, FrameInv
  <2>3. disk'.status = "completed"
    BY <2>1, RootFacts DEF NestInv, RecordInv, RecordIsOwn, SaveAtEnd, SaveState
  <2>4. QED
    BY <2>1, <2>2, <2>3 DEF ExitMatchesDisk
<1>5. CASE SaveError(Root) \/ CommitError(Root)
  <2>1. faults' > 0
    BY <1>5 DEF SaveError, CommitError, Fault, TypeOK
  <2>2. exit' = "fail" \/ (Def[Root].staged /\ exit' = ret /\ pc = "returned" /\ ret # "ok")
    <3>1. pc # "policy"
      BY <1>5, RootFaults DEF NestInv
    <3>2. QED
      BY <1>5, <3>1 DEF SaveError, CommitError, EndFlow, SavePoint, CanAttempt, Ready
  <2>3. QED
    BY <2>1, <2>2 DEF ExitMatchesDisk
<1>6. QED
  BY <1>1, <1>2, <1>3, <1>4, <1>5 DEF ExitStep

(* The exit of a process and the record that it leaves agree.              *)
THEOREM ExitSafe == ASSUME RootRecovers PROVE Spec => []ExitMatchesDisk
<1>1. Init => ExitInv /\ ExitMatchesDisk
  BY DEF Init, ExitInv, ExitMatchesDisk
<1>2. TypeOK /\ NestInv /\ ExitInv /\ ExitMatchesDisk /\ [Next]_vars
      => ExitInv' /\ ExitMatchesDisk'
  BY NextExit, NextExitMatches DEF NestInv
<1>3. QED
  BY <1>1, <1>2, NestInvariant, PTL DEF Spec

-----------------------------------------------------------------------------
(* The pause that the operator is told of.  While it goes up, there is an  *)
(* inbox item of a gate in the top-level step that the root is at.         *)
Filed(i) == \E g \in inbox : Def[g].type = "gate" /\ Def[g].top = Def[Root].body[i + 1]

PauseFiled == ret = "pause" => loc[Root].idx < N /\ Filed(loc[Root].idx)

(* Every step keeps it so.                                                 *)
LEMMA NextFiled ==
  ASSUME TypeOK, NestInv, PauseReturns, PausesAreSaved, PauseFiled, [Next]_vars
  PROVE  PauseFiled'
<1>1. CASE ret' # "pause"
  BY <1>1 DEF PauseFiled
<1>2. CASE ret = "pause" /\ loc' = loc /\ inbox' = inbox
  BY <1>2 DEF PauseFiled, Filed
<1>3. CASE \E s \in Step : RunnerStep(s) /\ PauseAtGate(s)
  <2>1. PICK s \in Step : RunnerStep(s) /\ PauseAtGate(s)
    BY <1>3
  <2>2. s # Root /\ Def[s].type = "gate" /\ at = s
    BY <2>1, RootFacts DEF PauseAtGate, CanAttempt, Ready
  <2>3. loc'[Root] = loc[Root]
    BY <2>1, <2>2, InnerMoves
  <2>4. s \in inbox'
    BY <2>1 DEF PauseAtGate
  <2>5. loc[Root].idx < N /\ Def[s].top = Def[Root].body[loc[Root].idx + 1]
    BY <2>2 DEF NestInv, InsideTop
  <2>6. QED
    BY <2>2, <2>3, <2>4, <2>5 DEF PauseFiled, Filed
<1>4. CASE \E s \in Step : RunnerStep(s)
  BY <1>1, <1>2, <1>3, <1>4, RunnerPause
<1>5. CASE (\E s \in Step : FaultStep(s)) \/ Crash
  BY <1>1, <1>5, FaultPause, RootFacts DEF NestInv
<1>6. CASE \E a \in BOOLEAN : Execute(a) \/ Resume(a)
  BY <1>1, <1>6 DEF Execute, Resume, Launch, Continue
<1>7. CASE UNCHANGED vars
  BY <1>1, <1>2, <1>7 DEF vars, control
<1>8. QED
  BY <1>4, <1>5, <1>6, <1>7 DEF Next

(* Returning the pause leaves the record that Resume needs.                *)
LEMMA NextReported ==
  ASSUME TypeOK, NestInv, PauseFiled, PauseIsReported, ExitStep
  PROVE  PauseIsReported'
<1>1. CASE exit' = "none"
  BY <1>1 DEF PauseIsReported
<1>2. CASE exit' = exit /\ disk' = disk /\ inbox' = inbox
  BY <1>2 DEF PauseIsReported
<1>3. CASE FlowStops(Root)
  <2>1. exit' = ret /\ inbox' = inbox
    BY <1>3 DEF FlowStops, EndFlow
  <2>2. ~Def[Root].staged => disk' = [status |-> IF ret = "pause" THEN "paused" ELSE "failed",
                                      idx |-> loc[Root].idx, owner |-> Root]
    BY <1>3 DEF FlowStops, SaveState
  <2>3. QED
    BY <2>1, <2>2 DEF PauseIsReported, PauseFiled, Filed
<1>4. CASE FlowEnds(Root)
  <2>1. exit' = "ok"
    BY <1>4 DEF FlowEnds, EndFlow
  <2>2. QED
    BY <2>1 DEF PauseIsReported
<1>5. CASE SaveError(Root) \/ CommitError(Root)
  <2>1. Def[Root].staged \/ exit' = "fail"
    <3>1. pc # "policy"
      BY <1>5, RootFaults DEF NestInv
    <3>2. QED
      BY <1>5, <3>1 DEF SaveError, CommitError, EndFlow
  <2>2. QED
    BY <2>1 DEF PauseIsReported
<1>6. QED
  BY <1>1, <1>2, <1>3, <1>4, <1>5 DEF ExitStep

(* A process that returns the pause leaves a paused record at the          *)
(* top-level step with the gate that has an item in the inbox.             *)
THEOREM ReportSafe == ASSUME RootRecovers PROVE Spec => []PauseIsReported
<1>1. CASE Def[Root].staged
  <2>1. PauseIsReported
    BY <1>1 DEF PauseIsReported
  <2>2. QED
    BY <2>1, PTL
<1>2. CASE ~Def[Root].staged
  <2>1. PausesAreSaved
    BY <1>2 DEF RootRecovers, PausesAreSaved
  <2>2. Init => PauseReturns /\ PauseFiled /\ ExitInv /\ PauseIsReported
    BY DEF Init, PauseReturns, PauseFiled, ExitInv, PauseIsReported
  <2>3. /\ TypeOK /\ NestInv /\ PauseReturns /\ PauseFiled /\ ExitInv /\ PauseIsReported
        /\ [Next]_vars
        => PauseReturns' /\ PauseFiled' /\ ExitInv' /\ PauseIsReported'
    BY <2>1, NextPause, NextFiled, NextExit, NextReported DEF NestInv
  <2>4. QED
    BY <2>2, <2>3, NestInvariant, PTL DEF Spec
<1>3. QED
  BY <1>1, <1>2
-----------------------------------------------------------------------------
(* Commits.  The finished top-level steps whose changes are not committed. *)
Uncommitted ==
  {i \in 1..N : /\ i <= disk.idx
                /\ MutatesLocal(Def[Root].body[i])
                /\ Def[Root].body[i] \in dirty}

Allowed == faults + (IF pc = "commit" THEN 1 ELSE 0)

(* Fewer places and more faults keep the bound.                            *)
LEMMA Shrinks ==
  ASSUME Uncommitted' \subseteq Uncommitted, Cardinality(Uncommitted) <= Allowed,
         Allowed \in Nat, Allowed' \in Nat, Allowed <= Allowed'
  PROVE  Cardinality(Uncommitted') <= Allowed'
<1>1. IsFiniteSet(1..N)
  BY RootFacts, FS_Interval
<1>2. IsFiniteSet(Uncommitted)
  BY <1>1, FS_Subset DEF Uncommitted
<1>3. Cardinality(Uncommitted') <= Cardinality(Uncommitted) /\ Cardinality(Uncommitted') \in Nat
      /\ Cardinality(Uncommitted) \in Nat
  BY <1>2, FS_Subset, FS_CardinalityType
<1>4. QED
  BY <1>3

LEMMA Grows ==
  ASSUME NEW i, Uncommitted' \subseteq Uncommitted \cup {i},
         Cardinality(Uncommitted) <= Allowed, Allowed \in Nat, Allowed' = Allowed + 1
  PROVE  Cardinality(Uncommitted') <= Allowed'
<1>1. IsFiniteSet(Uncommitted)
  <2>1. IsFiniteSet(1..N)
    BY RootFacts, FS_Interval
  <2>2. QED
    BY <2>1, FS_Subset DEF Uncommitted
<1>2. /\ IsFiniteSet(Uncommitted \cup {i})
      /\ Cardinality(Uncommitted \cup {i}) <= Cardinality(Uncommitted) + 1
      /\ Cardinality(Uncommitted) \in Nat
  BY <1>1, FS_AddElement, FS_CardinalityType
<1>3. /\ Cardinality(Uncommitted') <= Cardinality(Uncommitted \cup {i})
      /\ Cardinality(Uncommitted') \in Nat /\ Cardinality(Uncommitted \cup {i}) \in Nat
  BY <1>2, FS_Subset, FS_CardinalityType
<1>4. QED
  BY <1>2, <1>3


(* Steps below the root change nothing that has been recorded as finished. *)
LEMMA InnerUncommitted ==
  ASSUME TypeOK, FlatInv, NEW s \in Step \ {Root}, at = s,
         dirty' = dirty \/ dirty' = dirty \cup {s}, disk' = disk
  PROVE  Uncommitted' = Uncommitted
<1>1. /\ disk.idx = loc[Root].idx /\ disk.idx \in Nat /\ disk.idx < N
      /\ Def[s].top = Def[Root].body[disk.idx + 1]
  BY RootFacts DEF FlatInv, Running, InsideStep, TypeOK
<1>2. \A i \in 1..N : i <= disk.idx => Def[Root].body[i] # s
  <2>1. SUFFICES ASSUME NEW i \in 1..N, i <= disk.idx, Def[Root].body[i] = s
                 PROVE  FALSE
    OBVIOUS
  <2>2. Def[s].top = s
    BY <2>1, RootFacts, ChildTop
  <2>3. Def[Root].body[i] = Def[Root].body[disk.idx + 1]
    BY <1>1, <2>1, <2>2
  <2>4. \A k, l \in 1..Len(Def[Root].body) : Def[Root].body[k] = Def[Root].body[l] => k = l
    BY RootFacts, FlowAssumption
  <2>5. i \in 1..Len(Def[Root].body) /\ disk.idx + 1 \in 1..Len(Def[Root].body)
    BY <1>1, RootFacts
  <2>6. i = disk.idx + 1
    BY <2>3, <2>4, <2>5
  <2>7. QED
    BY <1>1, <2>1, <2>6
<1>3. QED
  BY <1>2 DEF Uncommitted, MutatesLocal

(* The steps below the root of a flow without nested workflows.            *)
LEMMA InnerLeaves ==
  ASSUME FlatFlow, TypeOK, FlatInv, NEW s \in Step \ {Root}, RunnerStep(s) \/ FaultStep(s)
  PROVE  /\ at = s /\ disk' = disk /\ (dirty' = dirty \/ dirty' = dirty \cup {s})
         /\ pc # "commit" /\ faults' \in {faults, faults + 1}
<1>0. Def[s].type # "workflow" /\ (at = s => pc \in {"policy", "returned", "loop"})
  BY DEF FlatFlow, FlatInv, InsideStep
<1>1. CASE RunnerStep(s)
  <2>1. at = s
    BY <1>1, InnerMoves
  <2>2. /\ disk' = disk /\ (dirty' = dirty \/ dirty' = dirty \cup {s})
        /\ faults' = faults
    BY <1>0, <1>1, <2>1 DEF RunnerStep, Ready, CanAttempt, RunSetup, SetupReturned,
       SkipDisabled, RunLeaf, ApproveGate, PauseAtGate, EnterWorkflow, WorkflowUnreadable,
       EnterLoop, LoopNext, LoopReturned, LoopIterationEnds, StartFlow, FlowNext, FlowAdvances,
       CommitStep, FlowStops, FlowEnds
  <2>3. QED
    BY <1>0, <2>1, <2>2
<1>2. CASE FaultStep(s)
  <2>1. ~TornSave(s) /\ ~SaveError(s)
    BY <1>0 DEF TornSave, SaveError, SavePoint
  <2>2. ~CommitError(s)
    BY <1>0 DEF CommitError, Ready
  <2>3. ArtifactError(s)
    BY <1>2, <2>1, <2>2 DEF FaultStep
  <2>4. at = s /\ faults' = faults + 1
    BY <2>3 DEF ArtifactError, CanAttempt, Ready, Fault
  <2>5. disk' = disk /\ dirty' = dirty
    BY <1>0, <2>3, <2>4 DEF ArtifactError, Ready
  <2>6. QED
    BY <1>0, <2>4, <2>5
<1>3. QED
  BY <1>1, <1>2

(* A number raised by one under a condition.                               *)
LEMMA RaisedBy ==
  ASSUME NEW c, NEW n \in Nat
  PROVE  n + (IF c = "commit" THEN 1 ELSE 0) = IF c = "commit" THEN n + 1 ELSE n
<1>1. CASE c = "commit"
  BY <1>1
<1>2. CASE c # "commit"
  BY <1>2
<1>3. QED
  BY <1>1, <1>2

(* What the bound is, before and after a step.                             *)
LEMMA AllowedIs ==
  ASSUME TypeOK, TypeOK'
  PROVE  /\ faults \in Nat /\ Allowed = IF pc = "commit" THEN faults + 1 ELSE faults
         /\ faults' \in Nat /\ Allowed' = IF pc' = "commit" THEN faults' + 1 ELSE faults'
<1>1. faults \in Nat /\ faults' \in Nat
  BY DEF TypeOK
<1>2. Allowed = IF pc = "commit" THEN faults + 1 ELSE faults
  BY <1>1, RaisedBy, Zenon DEF Allowed
<1>3. Allowed' = IF pc' = "commit" THEN faults' + 1 ELSE faults'
  <2>1. Allowed' = faults' + (IF pc' = "commit" THEN 1 ELSE 0)
    BY Zenon DEF Allowed
  <2>2. QED
    BY <1>1, <2>1, RaisedBy, Zenon
<1>4. QED
  BY <1>1, <1>2, <1>3

(* Every step keeps the bound.                                             *)
LEMMA NextCommits ==
  ASSUME FlatFlow, TypeOK, TypeOK', FlatInv, RootInv, FewUncommitted, CommitLocalSteps,
         [Next]_vars
  PROVE  FewUncommitted'
<1> SUFFICES ASSUME Readable' PROVE Cardinality(Uncommitted') <= Allowed'
  BY DEF FewUncommitted, Uncommitted, Allowed, MutatesLocal
<1>0. /\ Allowed \in Nat /\ Allowed' \in Nat /\ faults \in Nat /\ faults' \in Nat
      /\ N \in Nat /\ disk.idx \in Nat /\ disk'.idx \in Nat
  <2>1. disk.idx \in Nat /\ disk'.idx \in Nat
    BY DEF TypeOK
  <2>2. N \in Nat
    BY RootFacts
  <2>3. QED
    BY <2>1, <2>2, AllowedIs
<1>u. Uncommitted' = {i \in 1..N : /\ i <= disk'.idx
                                   /\ MutatesLocal(Def[Root].body[i])
                                   /\ Def[Root].body[i] \in dirty'}
  BY DEF Uncommitted, MutatesLocal, N
<1>a. Readable => Cardinality(Uncommitted) <= Allowed
  BY DEF FewUncommitted, Uncommitted, Allowed
<1>b. ASSUME Readable, disk'.idx <= disk.idx, dirty' \subseteq dirty, Allowed <= Allowed'
      PROVE  Cardinality(Uncommitted') <= Allowed'
  <2>1. Uncommitted' \subseteq Uncommitted
    BY <1>0, <1>b DEF Uncommitted, MutatesLocal
  <2>2. QED
    BY <1>0, <1>a, <1>b, <2>1, Shrinks
<1>c. ASSUME disk'.idx = 0 \/ dirty' = {}
      PROVE  Cardinality(Uncommitted') <= Allowed'
  <2>1. Uncommitted' = {}
    BY <1>c DEF Uncommitted
  <2>2. QED
    BY <1>0, <2>1, FS_EmptySet
<1>1. CASE \E x \in BOOLEAN : Execute(x) \/ Resume(x)
  <2>1. disk' = disk /\ dirty' = dirty /\ faults' = faults /\ at = None
    BY <1>1 DEF Execute, Resume, Launch
  <2>2. Readable
    BY <2>1 DEF Readable
  <2>3. Allowed <= Allowed'
    BY <1>0, <2>1 DEF Allowed, RootInv
  <2>4. QED
    BY <1>0, <1>b, <2>1, <2>2, <2>3
<1>2. CASE \E s \in Step \ {Root} : RunnerStep(s) \/ FaultStep(s)
  <2>1. PICK s \in Step \ {Root} : RunnerStep(s) \/ FaultStep(s)
    BY <1>2
  <2>2. /\ at = s /\ disk' = disk /\ (dirty' = dirty \/ dirty' = dirty \cup {s})
        /\ pc # "commit" /\ faults' \in {faults, faults + 1}
    BY <2>1, InnerLeaves
  <2>3. Uncommitted' = Uncommitted
    BY <2>2, InnerUncommitted
  <2>4. Readable
    BY <2>2 DEF Readable
  <2>5. Allowed = faults /\ Allowed' >= faults'
    BY <2>2, AllowedIs
  <2>6. Allowed <= Allowed'
    BY <1>0, <2>2, <2>5
  <2>7. QED
    BY <1>0, <1>a, <2>3, <2>4, <2>6, Shrinks
<1>3. CASE RunnerStep(Root)
  <2>0. /\ at = Root /\ Root # None /\ faults' = faults
        /\ pc # "start" => Readable /\ disk.idx = loc[Root].idx
    BY <1>3, RootMoves, RootFacts
    DEF FlatInv, Running, StartFlow, FlowNext, FlowAdvances, CommitStep, FlowStops, FlowEnds
  <2>1. CASE FlowNext(Root)
    <3>1. disk' = disk /\ dirty' = dirty /\ pc = "flow"
      BY <2>1 DEF FlowNext, Ready
    <3>2. Allowed <= Allowed'
      BY <1>0, <2>0, <3>1 DEF Allowed
    <3>3. QED
      BY <1>0, <1>b, <2>0, <3>1, <3>2
  <2>2. CASE FlowAdvances(Root)
    <3>1. dirty' = dirty /\ disk'.idx = disk.idx + 1 /\ pc = "returned"
      BY <2>0, <2>2 DEF FlowAdvances, FlatFlow, SaveState, Ready
    <3>2. Uncommitted' \subseteq Uncommitted \cup {disk.idx + 1}
      BY <1>0, <3>1 DEF Uncommitted, MutatesLocal
    <3>3. CASE MutatesLocal(Child(Root))
      <4>1. pc' = "commit"
        BY <2>2, <3>3 DEF FlowAdvances, FlatFlow, Continue
      <4>2. Allowed' = Allowed + 1
        BY <1>0, <2>0, <3>1, <4>1 DEF Allowed
      <4>3. QED
        BY <1>0, <1>a, <2>0, <3>1, <3>2, <4>2, Grows
    <3>4. CASE ~MutatesLocal(Child(Root))
      <4>1. Child(Root) = Def[Root].body[disk.idx + 1]
        BY <2>0, <3>1 DEF Child
      <4>2. Uncommitted' \subseteq Uncommitted
        BY <1>0, <1>u, <3>1, <3>4, <4>1 DEF Uncommitted
      <4>3. Allowed <= Allowed'
        BY <1>0, <2>0, <3>1 DEF Allowed
      <4>4. QED
        BY <1>0, <1>a, <2>0, <3>1, <4>2, <4>3, Shrinks
    <3>5. QED
      BY <3>3, <3>4
  <2>3. CASE CommitStep(Root)
    BY <1>c, <2>3 DEF CommitStep
  <2>4. CASE FlowStops(Root)
    <3>1. dirty' = dirty /\ disk'.idx = disk.idx /\ pc = "returned"
      BY <2>0, <2>4 DEF FlowStops, FlatFlow, SaveState, Ready
    <3>2. Allowed <= Allowed'
      BY <1>0, <2>0, <3>1 DEF Allowed
    <3>3. QED
      BY <1>0, <1>b, <2>0, <3>1, <3>2
  <2>5. CASE FlowEnds(Root)
    <3>1. dirty' = dirty /\ (disk' = disk \/ disk'.idx = 0) /\ pc = "flow"
      BY <2>5 DEF FlowEnds, SaveAtEnd, SaveState, Ready
    <3>2. Allowed <= Allowed'
      BY <1>0, <2>0, <3>1 DEF Allowed
    <3>3. QED
      BY <1>0, <1>b, <1>c, <2>0, <3>1, <3>2
  <2>6. CASE StartFlow(Root)
    BY <1>c, <2>6 DEF StartFlow, SaveState
  <2>7. QED
    BY <1>3, <2>1, <2>2, <2>3, <2>4, <2>5, <2>6, RootMoves
<1>4. CASE FaultStep(Root) \/ Crash
  <2>1. dirty' = dirty /\ faults' = faults + 1 /\ (disk' = disk \/ disk' = Torn)
    <3>1. CASE TornSave(Root) \/ Crash
      BY <3>1 DEF TornSave, Crash, Fault
    <3>2. CASE SaveError(Root) \/ CommitError(Root)
      BY <3>2 DEF SaveError, CommitError, Fault
    <3>3. QED
      BY <1>4, <3>1, <3>2, RootFaults DEF FaultStep
  <2>2. disk' = disk /\ Readable
    BY <2>1 DEF Readable, Torn
  <2>3. Allowed <= Allowed'
    BY <1>0, <2>1 DEF Allowed
  <2>4. QED
    BY <1>0, <1>b, <2>1, <2>2, <2>3
<1>5. CASE UNCHANGED vars
  <2>1. Readable /\ disk' = disk /\ dirty' = dirty /\ Allowed' = Allowed
    BY <1>5 DEF vars, control, Readable, Allowed
  <2>2. QED
    BY <1>0, <1>b, <2>1
<1>6. QED
  BY <1>1, <1>2, <1>3, <1>4, <1>5, RootFacts DEF Next

(* There are never more finished steps without their commit than faults,   *)
(* but for the one that is being committed.                                *)
THEOREM CommitsSafe == ASSUME FlatFlow PROVE Spec => []FewUncommitted
<1>1. CASE ~CommitLocalSteps
  <2>1. FewUncommitted
    BY <1>1 DEF FewUncommitted
  <2>2. QED
    BY <2>1, PTL
<1>2. CASE CommitLocalSteps
  <2>1. Init => FewUncommitted
    BY DEF Init, Absent, FewUncommitted, Readable
  <2>2. /\ TypeOK /\ TypeOK' /\ FlatInv /\ RootInv /\ FewUncommitted /\ [Next]_vars
        => FewUncommitted'
    BY <1>2, NextCommits
  <2>3. QED
    BY <2>1, <2>2, FlatInvariant, RootSafe, PTL DEF Spec
<1>3. QED
  BY <1>1, <1>2

-----------------------------------------------------------------------------
(* Failures.  Where a step is a child of its parent, which child the frame *)
(* of a step is waiting for, and which steps are on the Go stack.          *)

InBody(s)  == \E i \in 1..Len(Def[Def[s].parent].body) : Def[Def[s].parent].body[i] = s
InSetup(s) == \E i \in 1..Len(Def[Def[s].parent].setup) : Def[Def[s].parent].setup[i] = s

Tolerates(s) == OnErrorMode(s) = "continue" /\ Def[s].type # "loop"

Calling(s) ==
  IF loc[s].attempt = 0
    THEN loc[s].setup < Len(Def[s].setup)
    ELSE loc[s].idx < Len(Def[s].body) /\ Def[s].type \in {"loop", "workflow"}

Callee(s) ==
  IF loc[s].attempt = 0 THEN Def[s].setup[loc[s].setup + 1] ELSE Child(s)

(* S are the steps on the stack, d says how deep each of them is.          *)
Stack(S, d) ==
  /\ Root \in S /\ at \in S /\ d[Root] = 0
  /\ \A t \in S : d[t] <= d[at]
  /\ \A t, u \in S : d[t] = d[u] => t = u
  /\ \A t \in S \ {Root} :
       /\ Def[t].parent \in S /\ d[t] = d[Def[t].parent] + 1
       /\ Calling(Def[t].parent) /\ Callee(Def[t].parent) = t

(* The children that a frame has behind it have not failed; a body is run  *)
(* only behind the whole setup.                                            *)
FrameIs(f, s, F) ==
  /\ f.attempt = 0 => f.idx = 0
  /\ f.attempt > 0 => f.setup = Len(Def[s].setup)
  /\ \A i \in 1..Len(Def[s].body) : i <= f.idx => Def[s].body[i] \notin F
  /\ \A i \in 1..Len(Def[s].setup) : i <= f.setup => Def[s].setup[i] \notin F

FrameOK(s) == FrameIs(loc[s], s, failed)

(* Only steps that were called have failed.                                *)
CalledInv ==
  \A s \in failed :
    /\ s # Root
    /\ InSetup(s) \/ (InBody(s) /\ Def[Def[s].parent].type \in {"loop", "workflow"})

PlaceInv ==
  /\ pc = "loop" => Def[at].type = "loop" /\ loc[at].attempt > 0
  /\ pc \in {"start", "flow", "commit"} => Def[at].type = "workflow" /\ loc[at].attempt > 0
  /\ pc = "returned" =>
       ret \in {"ok", "fail"} /\ Calling(at) /\ (ret = "ok" => Callee(at) \notin failed)

(* The parent of a step that has failed is still on the stack, has failed  *)
(* too, or tolerates it.                                                   *)
Handed(S) ==
  \A s \in failed :
    \/ Def[s].parent \in S \cup failed
    \/ Tolerates(Def[s].parent) /\ InBody(s)

Holds(S, d) ==
  /\ \A s \in Step : FrameOK(s)
  /\ CalledInv /\ PlaceInv /\ Stack(S, d) /\ Handed(S)

FailInv ==
  (at # None /\ ret # "pause") =>
    \E S \in SUBSET Step, d \in [Step -> Nat] : Holds(S, d)

(* A step of the tree is the child of one parent, in one place.            *)
LEMMA Children ==
  ASSUME NEW p \in Step
  PROVE  /\ \A i \in 1..Len(Def[p].body) :
              /\ Def[p].body[i] \in Step \ {Root} /\ Def[Def[p].body[i]].parent = p
              /\ \A j \in 1..Len(Def[p].body) : Def[p].body[i] = Def[p].body[j] => i = j
         /\ \A i \in 1..Len(Def[p].setup) :
              /\ Def[p].setup[i] \in Step \ {Root} /\ Def[Def[p].setup[i]].parent = p
              /\ \A j \in 1..Len(Def[p].setup) : Def[p].setup[i] = Def[p].setup[j] => i = j
              /\ \A j \in 1..Len(Def[p].body) : Def[p].setup[i] # Def[p].body[j]
         /\ Len(Def[p].body) \in Nat /\ Len(Def[p].setup) \in Nat
<1>1. /\ \A i \in 1..Len(Def[p].body) :
           Def[p].body[i] \in Step /\ Def[Def[p].body[i]].parent = p
      /\ \A i \in 1..Len(Def[p].setup) :
           Def[p].setup[i] \in Step /\ Def[Def[p].setup[i]].parent = p
  BY DefFacts
<1>2. Def[Root].parent = None /\ p # None
  BY FlowAssumption
<1>3. Def[p].body \in Seq(Step) /\ Def[p].setup \in Seq(Step)
  BY DefFacts DEF StepDef
<1>4. QED
  BY <1>1, <1>2, <1>3, FlowAssumption, OnceAssumption

(* The step that a frame waits for is a child, and one that it has not     *)
(* passed.                                                                 *)
LEMMA CalleeIsNext ==
  ASSUME TypeOK, NEW p \in Step, Calling(p), FrameOK(p)
  PROVE  /\ Callee(p) \in Step \ {Root} /\ Def[Callee(p)].parent = p
         /\ \/ InSetup(Callee(p))
            \/ InBody(Callee(p)) /\ Def[p].type \in {"loop", "workflow"}
         /\ \A i \in 1..Len(Def[p].body) :
              i <= loc[p].idx => Def[p].body[i] # Callee(p)
         /\ \A i \in 1..Len(Def[p].setup) :
              i <= loc[p].setup => Def[p].setup[i] # Callee(p)
<1>1. loc[p].idx \in Nat /\ loc[p].setup \in Nat /\ loc[p].attempt \in Nat
  BY DEF TypeOK, Frame
<1>2. CASE loc[p].attempt = 0
  <2>1. loc[p].setup + 1 \in 1..Len(Def[p].setup) /\ Callee(p) = Def[p].setup[loc[p].setup + 1]
    BY <1>1, <1>2, Children DEF Calling, Callee
  <2>2. loc[p].idx = 0
    BY <1>2 DEF FrameOK, FrameIs
  <2>3. /\ Callee(p) \in Step \ {Root} /\ Def[Callee(p)].parent = p
        /\ \A i \in 1..Len(Def[p].setup) : i <= loc[p].setup => Def[p].setup[i] # Callee(p)
    BY <1>1, <2>1, Children, SMTT(30)
  <2>4. InSetup(Callee(p))
    BY <2>1, <2>3 DEF InSetup
  <2>5. \A i \in 1..Len(Def[p].body) : ~(i <= loc[p].idx)
    BY <2>2
  <2>6. QED
    BY <2>3, <2>4, <2>5
<1>3. CASE loc[p].attempt # 0
  <2>1. /\ loc[p].idx + 1 \in 1..Len(Def[p].body) /\ Callee(p) = Def[p].body[loc[p].idx + 1]
        /\ Def[p].type \in {"loop", "workflow"}
    BY <1>1, <1>3, Children DEF Calling, Callee, Child
  <2>2. /\ Callee(p) \in Step \ {Root} /\ Def[Callee(p)].parent = p
        /\ \A i \in 1..Len(Def[p].body) : i <= loc[p].idx => Def[p].body[i] # Callee(p)
    BY <1>1, <2>1, Children
  <2>3. \A i \in 1..Len(Def[p].setup) : Def[p].setup[i] # Callee(p)
    BY <2>1, Children
  <2>4. InBody(Callee(p))
    BY <2>1, <2>2 DEF InBody
  <2>5. QED
    BY <2>1, <2>2, <2>3, <2>4
<1>4. QED
  BY <1>2, <1>3

(* What a frame waits for depends on that frame only.                      *)
LEMMA SameCallee ==
  ASSUME NEW p \in Step, loc'[p] = loc[p]
  PROVE  Calling(p)' = Calling(p) /\ Callee(p)' = Callee(p)
BY DEF Calling, Callee, Child

(* The stack of a process that stays in its activation.                    *)
LEMMA StackStays ==
  ASSUME NEW S \in SUBSET Step, NEW d \in [Step -> Nat], NEW s \in Step, Stack(S, d),
         at = s, at' = s, \A q \in Step \ {s} : loc'[q] = loc[q]
  PROVE  Stack(S, d)'
<1>1. \A t \in S \ {Root} : Def[t].parent \in Step \ {s}
  BY DEF Stack
<1>2. \A t \in S \ {Root} : Calling(Def[t].parent)' /\ Callee(Def[t].parent)' = t
  BY <1>1, SameCallee DEF Stack
<1>3. QED
  BY <1>2 DEF Stack

(* When an activation returns, its caller is on top, and has waited for it. *)
LEMMA StackLeaves ==
  ASSUME NEW S \in SUBSET Step, NEW d \in [Step -> Nat], NEW s \in Step \ {Root},
         Stack(S, d), at = s, at' = Def[s].parent, \A q \in Step \ {s} : loc'[q] = loc[q]
  PROVE  /\ Stack(S \ {s}, d)'
         /\ Calling(at)' /\ Callee(at)' = s
         /\ Def[s].parent \in Step \ {s} /\ Calling(Def[s].parent) /\ Callee(Def[s].parent) = s
<1>1. \A t \in S \ {Root} : Def[t].parent \in Step \ {s} /\ Def[t].parent \in S
  BY DEF Stack
<1>2. \A t \in S \ {Root} : Calling(Def[t].parent)' /\ Callee(Def[t].parent)' = t
  BY <1>1, SameCallee DEF Stack
<1>3. s \in S /\ d[s] = d[Def[s].parent] + 1
  BY DEF Stack
<1>4. \A t \in S \ {s} : d[t] <= d[Def[s].parent]
  BY <1>1, <1>3 DEF Stack
<1>5. Stack(S \ {s}, d)'
  BY <1>1, <1>2, <1>4 DEF Stack
<1>6. QED
  BY <1>1, <1>2, <1>3, <1>5 DEF Stack

(* A step that is called is put on top of the stack.                       *)
LEMMA StackCalls ==
  ASSUME TypeOK, NEW S \in SUBSET Step, NEW d \in [Step -> Nat], NEW s \in Step,
         NEW c \in Step \ {Root}, Stack(S, d), at = s, at' = c, Def[c].parent = s,
         Calling(s), Callee(s) = c, loc' = [loc EXCEPT ![c] = Fresh]
  PROVE  \E e \in [Step -> Nat] : Stack(S \cup {c}, e)'
<1>1. c \notin S
  BY DEF Stack
<1> DEFINE e == [d EXCEPT ![c] = d[s] + 1]
<1>2. e \in [Step -> Nat] /\ e[c] = d[s] + 1 /\ \A t \in S : e[t] = d[t]
  BY <1>1
<1>3. \A q \in Step \ {c} : loc'[q] = loc[q]
  BY DEF TypeOK
<1>4. \A t \in S \ {Root} : Def[t].parent \in S
  BY DEF Stack
<1>5. \A t \in S \ {Root} : Calling(Def[t].parent)' /\ Callee(Def[t].parent)' = t
  BY <1>1, <1>3, <1>4, SameCallee DEF Stack
<1>6. s \in S /\ Calling(s)' /\ Callee(s)' = c
  BY <1>1, <1>3, SameCallee DEF Stack
<1>7. \A t \in S : e[t] <= e[c] /\ e[t] # e[c]
  BY <1>2 DEF Stack
<1> HIDE DEF e
<1>8. Stack(S \cup {c}, e)'
  <2>1. \A t, u \in S \cup {c} : e[t] = e[u] => t = u
    BY <1>2, <1>7 DEF Stack
  <2>2. \A t \in S \cup {c} : e[t] <= e[c]
    BY <1>2, <1>7
  <2>3. \A t \in (S \cup {c}) \ {Root} :
          /\ Def[t].parent \in S /\ e[t] = e[Def[t].parent] + 1
          /\ Calling(Def[t].parent)' /\ Callee(Def[t].parent)' = t
    BY <1>2, <1>4, <1>5, <1>6 DEF Stack
  <2>4. Root \in S /\ e[Root] = 0
    BY <1>2 DEF Stack
  <2>5. QED
    BY <2>1, <2>2, <2>3, <2>4 DEF Stack
<1>9. QED
  BY <1>2, <1>8

(* The stack of the root's own code has nothing but the root.              *)
LEMMA StackOfRoot ==
  ASSUME NEW S \in SUBSET Step, NEW d \in [Step -> Nat], Stack(S, d), at = Root
  PROVE  S = {Root}
BY DEF Stack

(* A frame and the steps that its callers have passed.                     *)
LEMMA FrameLater ==
  ASSUME NEW f, NEW q \in Step, NEW F, NEW G, FrameIs(f, q, F),
         \A i \in 1..Len(Def[q].body) :
           Def[q].body[i] \in G /\ i <= f.idx => Def[q].body[i] \in F,
         \A i \in 1..Len(Def[q].setup) :
           Def[q].setup[i] \in G /\ i <= f.setup => Def[q].setup[i] \in F
  PROVE  FrameIs(f, q, G)
BY DEF FrameIs

(* A frame that has its body behind it has no child that failed.           *)
LEMMA NoneFailed ==
  ASSUME CalledInv, NEW s \in Step, NEW f, FrameIs(f, s, failed),
         f.setup = Len(Def[s].setup),
         Def[s].body = << >> \/ f.idx = Len(Def[s].body) \/ Def[s].type \notin {"loop", "workflow"}
  PROVE  \A u \in failed : Def[u].parent # s
<1> SUFFICES ASSUME NEW u \in failed, Def[u].parent = s PROVE FALSE
  OBVIOUS
<1>1. Len(Def[s].body) \in Nat /\ Len(Def[s].setup) \in Nat
  BY Children
<1>2. ~InSetup(u)
  BY <1>1 DEF InSetup, FrameIs
<1>3. InBody(u) /\ Def[s].type \in {"loop", "workflow"}
  BY <1>2 DEF CalledInv
<1>4. PICK i \in 1..Len(Def[s].body) : Def[s].body[i] = u
  BY <1>3 DEF InBody
<1>5. f.idx = Len(Def[s].body)
  BY <1>1, <1>3, <1>4
<1>6. QED
  BY <1>1, <1>4, <1>5 DEF FrameIs

(* The process stays in its activation.                                    *)
LEMMA StayHanded ==
  ASSUME TypeOK, NEW S \in SUBSET Step, NEW d \in [Step -> Nat], NEW s \in Step, Holds(S, d),
         at = s, at' = s, failed' = failed, \A q \in Step \ {s} : loc'[q] = loc[q],
         FrameIs(loc'[s], s, failed), PlaceInv'
  PROVE  FailInv'
<1>1. Stack(S, d)'
  BY StackStays DEF Holds
<1>2. \A q \in Step : FrameOK(q)'
  BY DEF FrameOK, Holds
<1>3. CalledInv' /\ Handed(S)'
  BY DEF Holds, CalledInv, Handed
<1>4. QED
  BY <1>1, <1>2, <1>3 DEF FailInv, Holds

(* It calls the step that the activation waits for.                        *)
LEMMA CallHanded ==
  ASSUME TypeOK, NEW S \in SUBSET Step, NEW d \in [Step -> Nat], NEW s \in Step, Holds(S, d),
         at = s, Calling(s), NEW c, c = Callee(s), Call(c)
  PROVE  FailInv'
<1>1. c \in Step \ {Root} /\ Def[c].parent = s
  BY CalleeIsNext DEF Holds
<1>2. at' = c /\ pc' = "policy" /\ loc' = [loc EXCEPT ![c] = Fresh] /\ failed' = failed
  BY DEF Call, Continue, history
<1>3. PICK e \in [Step -> Nat] : Stack(S \cup {c}, e)'
  BY <1>1, <1>2, StackCalls DEF Holds
<1>4. loc'[c] = Fresh /\ \A q \in Step \ {c} : loc'[q] = loc[q]
  BY <1>1, <1>2 DEF TypeOK
<1>5. FrameIs(Fresh, c, failed)
  BY <1>1, Children DEF FrameIs, Fresh
<1>6. \A q \in Step : FrameOK(q)'
  BY <1>2, <1>4, <1>5 DEF FrameOK, Holds
<1>7. CalledInv' /\ PlaceInv' /\ Handed(S \cup {c})'
  BY <1>2 DEF Holds, CalledInv, Handed, PlaceInv
<1>8. S \cup {c} \in SUBSET Step
  BY <1>1
<1>9. QED
  BY <1>3, <1>6, <1>7, <1>8 DEF FailInv, Holds

(* The activation returns to its caller.                                   *)
LEMMA LeaveHanded ==
  ASSUME TypeOK, NEW S \in SUBSET Step, NEW d \in [Step -> Nat], NEW s \in Step \ {Root},
         Holds(S, d), at = s, NEW o \in Outcome, Leave(s, o),
         \A q \in Step \ {s} : loc'[q] = loc[q],
         FrameIs(loc'[s], s, failed),
         o = "ok" => \A u \in failed : Def[u].parent = s => Tolerates(s) /\ InBody(u)
  PROVE  FailInv'
<1> SUFFICES ASSUME o # "pause" PROVE FailInv'
  BY DEF Leave, FailInv
<1> DEFINE p == Def[s].parent
<1>1. /\ at' = p /\ pc' = "returned" /\ ret' = o /\ o \in {"ok", "fail"}
      /\ failed' = IF o = "fail" THEN failed \cup {s} ELSE failed \ {s}
  BY DEF Leave, Outcome
<1>2. /\ Stack(S \ {s}, d)' /\ Calling(at)' /\ Callee(at)' = s
      /\ p \in Step \ {s} /\ Calling(p) /\ Callee(p) = s
  BY <1>1, StackLeaves DEF Holds
<1>3. /\ InSetup(s) \/ (InBody(s) /\ Def[p].type \in {"loop", "workflow"})
      /\ \A i \in 1..Len(Def[p].body) : i <= loc[p].idx => Def[p].body[i] # s
      /\ \A i \in 1..Len(Def[p].setup) : i <= loc[p].setup => Def[p].setup[i] # s
  BY <1>2, CalleeIsNext, SMTT(30) DEF Holds
<1>4. \A q \in Step : FrameOK(q)'
  <2>1. TAKE q \in Step
  <2>2. CASE q = p
    <3>1. FrameIs(loc[p], p, failed)
      BY <1>2 DEF Holds, FrameOK
    <3>2. FrameIs(loc[p], p, failed')
      BY <1>1, <1>2, <1>3, <3>1, FrameLater
    <3>3. QED
      BY <1>2, <2>2, <3>2 DEF FrameOK
  <2>3. CASE q # p
    <3>1. /\ \A i \in 1..Len(Def[q].body) : Def[q].body[i] # s
          /\ \A i \in 1..Len(Def[q].setup) : Def[q].setup[i] # s
      BY <2>3, DefFacts, SMTT(30)
    <3>2. FrameIs(loc'[q], q, failed)
      BY DEF Holds, FrameOK
    <3>3. FrameIs(loc'[q], q, failed')
      BY <1>1, <3>1, <3>2, FrameLater
    <3>4. QED
      BY <3>3 DEF FrameOK
  <2>4. QED
    BY <2>2, <2>3
<1>5. CalledInv'
  BY <1>1, <1>3 DEF CalledInv, Holds, InSetup, InBody
<1>6. PlaceInv'
  BY <1>1, <1>2 DEF PlaceInv
<1>7. Handed(S \ {s})'
  <2> SUFFICES ASSUME NEW u \in failed'
               PROVE  \/ Def[u].parent \in (S \ {s}) \cup failed'
                      \/ Tolerates(Def[u].parent) /\ InBody(u)
    BY DEF Handed, Tolerates, InBody, OnErrorMode
  <2>1. CASE u = s
    BY <1>1, <1>2, <2>1 DEF Stack
  <2>2. CASE u # s
    <3>1. u \in failed
      BY <1>1, <2>2
    <3>2. CASE Def[u].parent = s
      BY <1>1, <3>1, <3>2
    <3>3. CASE Def[u].parent # s
      BY <1>1, <3>1, <3>3 DEF Holds, Handed
    <3>4. QED
      BY <3>2, <3>3
  <2>3. QED
    BY <2>1, <2>2
<1>8. S \ {s} \in SUBSET Step
  OBVIOUS
<1>9. QED
  BY <1>2, <1>4, <1>5, <1>6, <1>7, <1>8 DEF FailInv, Holds

(* Its policy retries, tolerates or returns what an attempt ended with.    *)
LEMMA SettleHanded ==
  ASSUME TypeOK, NEW S \in SUBSET Step, NEW d \in [Step -> Nat], NEW s \in Step \ {Root},
         Holds(S, d), at = s, NEW o \in Outcome, NEW n, Settle(s, o, n),
         \A q \in Step \ {s} : loc'[q] = loc[q],
         FrameIs(loc'[s], s, failed), loc'[s].setup = Len(Def[s].setup),
         o = "ok" => \A u \in failed : Def[u].parent # s
  PROVE  FailInv'
<1>1. CASE Continue(s, "policy") /\ failed' = failed
  <2>1. at' = s /\ PlaceInv'
    BY <1>1 DEF Continue, PlaceInv
  <2>2. QED
    BY <1>1, <2>1, StayHanded
<1>2. CASE ~(o = "fail" /\ n < RetryAttempts(s))
  <2> DEFINE r == IF o = "fail" /\ Tolerates(s) THEN "ok" ELSE o
  <2>1. Leave(s, r) /\ r \in Outcome
    BY <1>2 DEF Settle, Tolerates, Outcome
  <2>2. ASSUME NEW u \in failed, Def[u].parent = s, ~InBody(u) PROVE FALSE
    <3>1. InSetup(u)
      BY <2>2 DEF Holds, CalledInv
    <3>2. QED
      BY <2>2, <3>1, Children DEF InSetup, FrameIs
  <2>3. r = "ok" => \A u \in failed : Def[u].parent = s => Tolerates(s) /\ InBody(u)
    BY <2>2
  <2> HIDE DEF r
  <2>4. QED
    BY <2>1, <2>3, LeaveHanded
<1>3. QED
  BY <1>1, <1>2 DEF Settle

(* The same when post-conditions come first.                               *)
LEMMA VerifyHanded ==
  ASSUME TypeOK, NEW S \in SUBSET Step, NEW d \in [Step -> Nat], NEW s \in Step \ {Root},
         Holds(S, d), at = s, NEW n, Verify(s, n),
         \A q \in Step \ {s} : loc'[q] = loc[q],
         FrameIs(loc'[s], s, failed), loc'[s].setup = Len(Def[s].setup),
         \A u \in failed : Def[u].parent # s
  PROVE  FailInv'
<1>1. PICK o \in {"ok", "fail"} : Settle(s, o, n)
  BY DEF Verify
<1>2. QED
  BY <1>1, SettleHanded DEF Outcome

(* A new attempt starts from the first child.                              *)
LEMMA AttemptFrame ==
  ASSUME TypeOK, NEW s \in Step, FrameOK(s), loc[s].setup = Len(Def[s].setup), BeginAttempt(s)
  PROVE  /\ FrameIs(loc'[s], s, failed)
         /\ loc'[s].setup = Len(Def[s].setup) /\ loc'[s].idx = 0 /\ loc'[s].attempt > 0
         /\ \A q \in Step \ {s} : loc'[q] = loc[q]
<1>1. /\ loc'[s] = [setup |-> loc[s].setup, attempt |-> loc[s].attempt + 1,
                    idx |-> 0, iter |-> 0]
      /\ \A q \in Step \ {s} : loc'[q] = loc[q]
      /\ loc[s].attempt \in Nat
  BY DEF BeginAttempt, TypeOK, Frame
<1>2. QED
  BY <1>1, Children DEF FrameOK, FrameIs

(* A step that is disabled by its guard has no children: the second time   *)
(* such a step is called, it may be skipped where its child failed.        *)
GuardsOnLeaves == \A s \in Step : Def[s].when => Def[s].body = << >>

(* What is in a frame, and which frames an action leaves alone.            *)
LEMMA Counted ==
  ASSUME TypeOK, NEW s \in Step
  PROVE  /\ loc[s].setup \in Nat /\ loc[s].attempt \in Nat /\ loc[s].idx \in Nat
         /\ NextSetup(s) =>
              /\ loc'[s].setup = loc[s].setup + 1 /\ loc'[s].idx = loc[s].idx
              /\ loc'[s].attempt = loc[s].attempt /\ \A q \in Step \ {s} : loc'[q] = loc[q]
         /\ NextChild(s) =>
              /\ loc'[s].idx = loc[s].idx + 1 /\ loc'[s].setup = loc[s].setup
              /\ loc'[s].attempt = loc[s].attempt /\ \A q \in Step \ {s} : loc'[q] = loc[q]
BY DEF TypeOK, Frame, NextSetup, NextChild

(* A child that returned without an error is behind the frame.             *)
LEMMA ChildPassed ==
  ASSUME TypeOK, NEW s \in Step, FrameOK(s), PlaceInv, at = s, pc = "returned", ret = "ok",
         loc[s].attempt > 0, NextChild(s)
  PROVE  /\ FrameIs(loc'[s], s, failed) /\ loc'[s].attempt > 0
         /\ \A q \in Step \ {s} : loc'[q] = loc[q]
<1>1. /\ loc'[s].idx = loc[s].idx + 1 /\ loc'[s].setup = loc[s].setup
      /\ loc'[s].attempt = loc[s].attempt /\ \A q \in Step \ {s} : loc'[q] = loc[q]
      /\ loc[s].idx \in Nat /\ loc[s].attempt \in Nat
  BY Counted
<1>2. Calling(s) /\ Callee(s) \notin failed
  BY DEF PlaceInv
<1>3. Def[s].body[loc[s].idx + 1] \notin failed
  BY <1>1, <1>2 DEF Callee, Child
<1>4. QED
  BY <1>1, <1>3 DEF FrameOK, FrameIs

(* A setup step that returned without an error is behind the frame.        *)
LEMMA SetupPassed ==
  ASSUME TypeOK, NEW s \in Step, FrameOK(s), PlaceInv, at = s, pc = "returned", ret = "ok",
         loc[s].attempt = 0, NextSetup(s)
  PROVE  /\ FrameIs(loc'[s], s, failed)
         /\ \A q \in Step \ {s} : loc'[q] = loc[q]
<1>1. /\ loc'[s].idx = loc[s].idx /\ loc'[s].setup = loc[s].setup + 1
      /\ loc'[s].attempt = 0 /\ \A q \in Step \ {s} : loc'[q] = loc[q]
      /\ loc[s].setup \in Nat
  BY Counted
<1>2. Calling(s) /\ Callee(s) \notin failed
  BY DEF PlaceInv
<1>3. Def[s].setup[loc[s].setup + 1] \notin failed
  BY <1>2 DEF Callee
<1>4. QED
  BY <1>1, <1>3 DEF FrameOK, FrameIs

(* A definition that ends below the root ends an attempt of its step.      *)
LEMMA EndFlowHanded ==
  ASSUME TypeOK, NEW S \in SUBSET Step, NEW d \in [Step -> Nat], NEW s \in Step \ {Root},
         Holds(S, d), at = s, NEW o \in Outcome, EndFlow(s, o), loc' = loc,
         loc[s].attempt > 0, o = "ok" => \A u \in failed : Def[u].parent # s
  PROVE  FailInv'
<1>1. FrameIs(loc'[s], s, failed) /\ loc'[s].setup = Len(Def[s].setup)
  BY DEF Holds, FrameOK, FrameIs
<1>2. Settle(s, o, loc[s].attempt) \/ (o = "ok" /\ Verify(s, loc[s].attempt))
  BY DEF EndFlow
<1>3. QED
  BY <1>1, <1>2, SettleHanded, VerifyHanded

(* Attempts of steps below the root.                                       *)
LEMMA AttemptHanded ==
  ASSUME TypeOK, GuardsOnLeaves, NEW S \in SUBSET Step, NEW d \in [Step -> Nat],
         NEW s \in Step \ {Root}, Holds(S, d), CanAttempt(s), BeginAttempt(s),
         \/ SkipDisabled(s) \/ RunLeaf(s) \/ ApproveGate(s) \/ PauseAtGate(s)
         \/ WorkflowUnreadable(s) \/ EnterWorkflow(s) \/ EnterLoop(s)
         \/ Settle(s, "fail", loc[s].attempt + 1)
  PROVE  FailInv'
<1>1. at = s /\ FrameOK(s) /\ CalledInv
  BY DEF CanAttempt, Ready, Holds
<1>2. /\ FrameIs(loc'[s], s, failed)
      /\ loc'[s].setup = Len(Def[s].setup) /\ loc'[s].idx = 0 /\ loc'[s].attempt > 0
      /\ \A q \in Step \ {s} : loc'[q] = loc[q]
  BY <1>1, AttemptFrame DEF CanAttempt
<1>3. CASE SkipDisabled(s) \/ RunLeaf(s) \/ ApproveGate(s)
  <2>1. Def[s].body = << >> \/ Def[s].type \notin {"loop", "workflow"}
    BY <1>3 DEF SkipDisabled, RunLeaf, ApproveGate, GuardsOnLeaves, LeafType
  <2>2. \A u \in failed : Def[u].parent # s
    BY <1>1, <1>2, <2>1, NoneFailed
  <2>3. Verify(s, loc[s].attempt + 1) \/ \E o \in {"ok", "fail"} : Settle(s, o, loc[s].attempt + 1)
    BY <1>3 DEF SkipDisabled, RunLeaf, ApproveGate
  <2>4. QED
    BY <1>1, <1>2, <2>2, <2>3, SettleHanded, VerifyHanded DEF Outcome
<1>4. CASE PauseAtGate(s)
  BY <1>4 DEF PauseAtGate, Leave, FailInv
<1>5. CASE EnterWorkflow(s) \/ EnterLoop(s)
  <2>1. at' = s /\ failed' = failed /\ PlaceInv'
    BY <1>2, <1>5 DEF EnterWorkflow, EnterLoop, Continue, PlaceInv, history
  <2>2. QED
    BY <1>1, <1>2, <2>1, StayHanded
<1>6. CASE Settle(s, "fail", loc[s].attempt + 1)
  BY <1>1, <1>2, <1>6, SettleHanded DEF Outcome
<1>7. QED
  BY <1>3, <1>4, <1>5, <1>6 DEF WorkflowUnreadable

(* A loop that has its body behind it has no child that failed.            *)
LEMMA LoopEndHanded ==
  ASSUME TypeOK, NEW S \in SUBSET Step, NEW d \in [Step -> Nat], NEW s \in Step \ {Root},
         Holds(S, d), LoopIterationEnds(s)
  PROVE  FailInv'
<1>1. /\ at = s /\ pc = "loop" /\ Def[s].type = "loop" /\ loc[s].attempt > 0
      /\ FrameIs(loc[s], s, failed) /\ CalledInv /\ loc[s].setup = Len(Def[s].setup)
  BY DEF LoopIterationEnds, Ready, Holds, PlaceInv, FrameOK, FrameIs
<1>2. \A u \in failed : Def[u].parent # s
  BY <1>1, NoneFailed DEF LoopIterationEnds
<1>3. CASE loc' = loc /\ (Settle(s, "fail", loc[s].attempt) \/ Verify(s, loc[s].attempt))
  BY <1>1, <1>2, <1>3, SettleHanded, VerifyHanded DEF Outcome
<1>4. CASE /\ Continue(s, "loop") /\ failed' = failed
           /\ loc' = [loc EXCEPT ![s] =
                [setup |-> @.setup, attempt |-> @.attempt, idx |-> 0, iter |-> @.iter + 1]]
  <2>1. /\ loc'[s].setup = loc[s].setup /\ loc'[s].attempt = loc[s].attempt
        /\ loc'[s].idx = 0 /\ \A q \in Step \ {s} : loc'[q] = loc[q]
    BY <1>4 DEF TypeOK
  <2>2. FrameIs(loc'[s], s, failed)
    BY <1>1, <2>1, Children DEF FrameIs
  <2>3. at' = s /\ PlaceInv'
    BY <1>1, <1>4, <2>1 DEF Continue, PlaceInv
  <2>4. QED
    BY <1>1, <1>4, <2>1, <2>2, <2>3, StayHanded
<1>5. QED
  BY <1>3, <1>4 DEF LoopIterationEnds

(* Steps of every definition, the root included.                           *)
LEMMA FlowHanded ==
  ASSUME TypeOK, NEW S \in SUBSET Step, NEW d \in [Step -> Nat], NEW s \in Step, Holds(S, d),
         StartFlow(s) \/ FlowNext(s) \/ FlowAdvances(s) \/ CommitStep(s)
  PROVE  FailInv'
<1>1. /\ at = s /\ FrameOK(s) /\ PlaceInv
      /\ loc[s].idx \in Nat /\ loc[s].attempt \in Nat
  BY Counted DEF StartFlow, FlowNext, FlowAdvances, CommitStep, Ready, Holds
<1>2. CASE FlowNext(s)
  <2>1. loc[s].attempt > 0 /\ Def[s].type = "workflow"
    BY <1>1, <1>2 DEF FlowNext, Ready, PlaceInv
  <2>2. Calling(s) /\ Callee(s) = Child(s) /\ Call(Child(s))
    BY <1>1, <1>2, <2>1 DEF FlowNext, Calling, Callee
  <2>3. QED
    BY <1>1, <2>2, CallHanded
<1>3. CASE FlowAdvances(s)
  <2>1. /\ loc[s].attempt > 0 /\ Def[s].type = "workflow" /\ NextChild(s) /\ failed' = failed
        /\ pc = "returned" /\ ret = "ok" /\ at' = s /\ pc' \in {"flow", "commit"}
    BY <1>3 DEF FlowAdvances, Continue, Ready, history
  <2>2. /\ FrameIs(loc'[s], s, failed) /\ loc'[s].attempt > 0
        /\ \A q \in Step \ {s} : loc'[q] = loc[q]
    BY <1>1, <2>1, ChildPassed
  <2>3. PlaceInv'
    BY <2>1, <2>2 DEF PlaceInv
  <2>4. QED
    BY <1>1, <2>1, <2>2, <2>3, StayHanded
<1>4. CASE StartFlow(s) \/ CommitStep(s)
  <2>1. /\ at' = s /\ pc' = "flow" /\ loc' = loc /\ failed' = failed
        /\ pc \in {"start", "commit"}
    BY <1>4 DEF StartFlow, CommitStep, Continue, Ready, history
  <2>2. PlaceInv'
    BY <1>1, <2>1 DEF PlaceInv
  <2>3. QED
    BY <1>1, <2>1, <2>2, StayHanded DEF FrameOK
<1>5. QED
  BY <1>2, <1>3, <1>4

(* A step below the root.                                                  *)
LEMMA InnerHanded ==
  ASSUME TypeOK, GuardsOnLeaves, NEW S \in SUBSET Step, NEW d \in [Step -> Nat],
         NEW s \in Step \ {Root}, Holds(S, d), RunnerStep(s)
  PROVE  FailInv'
<1>1. /\ FrameOK(s) /\ PlaceInv /\ CalledInv /\ FrameIs(loc[s], s, failed)
      /\ loc[s].idx \in Nat /\ loc[s].attempt \in Nat /\ loc[s].setup \in Nat
  BY Counted DEF Holds, FrameOK
<1>2. CASE RunSetup(s)
  <2>1. at = s /\ Calling(s) /\ Call(Callee(s))
    BY <1>1, <1>2, Children DEF RunSetup, Ready, Calling, Callee, FrameIs
  <2>2. QED
    BY <2>1, CallHanded
<1>3. CASE SetupReturned(s)
  <2>1. at = s /\ pc = "returned" /\ loc[s].attempt = 0 /\ ret \in {"ok", "fail"}
    BY <1>1, <1>3 DEF SetupReturned, Ready, PlaceInv
  <2>2. CASE ret = "ok"
    <3>1. NextSetup(s) /\ at' = s /\ pc' = "policy" /\ failed' = failed
      BY <1>3, <2>2 DEF SetupReturned, Continue
    <3>2. QED
      BY <1>1, <2>1, <2>2, <3>1, SetupPassed, StayHanded DEF PlaceInv
  <2>3. CASE ret = "fail"
    BY <1>1, <1>3, <2>1, <2>3, LeaveHanded DEF SetupReturned, Outcome
  <2>4. QED
    BY <2>1, <2>2, <2>3
<1>4. CASE \/ SkipDisabled(s) \/ RunLeaf(s) \/ ApproveGate(s) \/ PauseAtGate(s)
           \/ WorkflowUnreadable(s) \/ EnterWorkflow(s) \/ EnterLoop(s)
  <2>1. CanAttempt(s) /\ BeginAttempt(s)
    BY <1>4 DEF SkipDisabled, RunLeaf, ApproveGate, PauseAtGate, WorkflowUnreadable,
       EnterWorkflow, EnterLoop
  <2>2. QED
    BY <1>4, <2>1, AttemptHanded
<1>5. CASE LoopNext(s)
  <2>1. at = s /\ Calling(s) /\ Child(s) = Callee(s) /\ Call(Child(s))
    BY <1>1, <1>5 DEF LoopNext, Ready, Calling, Callee, PlaceInv
  <2>2. QED
    BY <2>1, CallHanded
<1>6. CASE LoopReturned(s)
  <2>1. /\ at = s /\ pc = "returned" /\ loc[s].attempt > 0 /\ ret \in {"ok", "fail"}
        /\ Def[s].type = "loop"
    BY <1>1, <1>6 DEF LoopReturned, Ready, PlaceInv
  <2>2. CASE ret = "ok"
    <3>1. NextChild(s) /\ at' = s /\ pc' = "loop" /\ failed' = failed
      BY <1>6, <2>2 DEF LoopReturned, Continue
    <3>2. /\ FrameIs(loc'[s], s, failed) /\ loc'[s].attempt > 0
          /\ \A q \in Step \ {s} : loc'[q] = loc[q]
      BY <1>1, <2>1, <2>2, <3>1, ChildPassed
    <3>3. PlaceInv'
      BY <2>1, <3>1, <3>2 DEF PlaceInv
    <3>4. QED
      BY <2>1, <3>1, <3>2, <3>3, StayHanded
  <2>3. CASE ret = "fail"
    <3>1. Settle(s, "fail", loc[s].attempt) /\ loc' = loc
      BY <1>6, <2>3 DEF LoopReturned
    <3>2. loc[s].setup = Len(Def[s].setup)
      BY <1>1, <2>1 DEF FrameIs
    <3>3. QED
      BY <1>1, <2>1, <3>1, <3>2, SettleHanded DEF Outcome
  <2>4. QED
    BY <2>1, <2>2, <2>3
<1>7. CASE LoopIterationEnds(s)
  BY <1>7, LoopEndHanded
<1>8. CASE StartFlow(s) \/ FlowNext(s) \/ FlowAdvances(s) \/ CommitStep(s)
  BY <1>8, FlowHanded
<1>9. CASE FlowStops(s)
  <2>1. /\ at = s /\ loc[s].attempt > 0 /\ ret \in Outcome /\ ret # "ok"
        /\ EndFlow(s, ret) /\ loc' = loc
    BY <1>1, <1>9 DEF FlowStops, Ready, PlaceInv, Outcome
  <2>2. QED
    BY <2>1, EndFlowHanded
<1>10. CASE FlowEnds(s)
  <2>1. /\ at = s /\ loc[s].attempt > 0 /\ loc[s].idx = Len(Def[s].body)
        /\ EndFlow(s, "ok") /\ loc' = loc
    BY <1>1, <1>10 DEF FlowEnds, Ready, PlaceInv
  <2>2. loc[s].setup = Len(Def[s].setup)
    BY <1>1, <2>1 DEF FrameIs
  <2>3. \A u \in failed : Def[u].parent # s
    BY <1>1, <2>1, <2>2, NoneFailed
  <2>4. QED
    BY <2>1, <2>3, EndFlowHanded DEF Outcome
<1>11. QED
  BY <1>2, <1>3, <1>4, <1>5, <1>6, <1>7, <1>8, <1>9, <1>10 DEF RunnerStep

(* A fault below the root that does not end the process.                   *)
LEMMA FaultHanded ==
  ASSUME TypeOK, GuardsOnLeaves, NEW S \in SUBSET Step, NEW d \in [Step -> Nat],
         NEW s \in Step \ {Root}, Holds(S, d),
         SaveError(s) \/ CommitError(s) \/ ArtifactError(s)
  PROVE  FailInv'
<1>1. at = s /\ PlaceInv /\ FrameIs(loc[s], s, failed)
  BY DEF SaveError, SavePoint, CommitError, ArtifactError, CanAttempt, Ready, Holds, FrameOK
<1>2. CASE CanAttempt(s) /\ BeginAttempt(s) /\ Settle(s, "fail", loc[s].attempt + 1)
  BY <1>2, AttemptHanded
<1>3. CASE /\ loc' = loc /\ loc[s].attempt > 0
           /\ \/ Settle(s, "fail", loc[s].attempt)
              \/ \E o \in Outcome \ {"ok"} : EndFlow(s, o)
  <2>1. loc[s].setup = Len(Def[s].setup)
    BY <1>1, <1>3 DEF FrameIs
  <2>2. QED
    BY <1>1, <1>3, <2>1, SettleHanded, EndFlowHanded DEF Outcome
<1>4. CASE SaveError(s)
  <2>1. CASE pc = "policy"
    <3>1. CanAttempt(s)
      BY <1>4, <2>1 DEF SaveError, SavePoint, Ready
    <3>2. QED
      BY <1>2, <1>4, <2>1, <3>1 DEF SaveError
  <2>2. CASE pc # "policy"
    <3>1. loc[s].attempt > 0
      BY <1>1, <1>4, <2>2 DEF SaveError, SavePoint, CanAttempt, Ready, PlaceInv
    <3>2. Def[s].staged /\ pc = "returned" => ret \in Outcome \ {"ok"}
      BY <1>1, <1>4, <2>2 DEF SaveError, SavePoint, CanAttempt, Ready, PlaceInv, Outcome
    <3>3. loc' = loc /\ \E o \in Outcome \ {"ok"} : EndFlow(s, o)
      BY <1>4, <2>2, <3>2 DEF SaveError, Outcome
    <3>4. QED
      BY <1>3, <3>1, <3>3
  <2>3. QED
    BY <2>1, <2>2
<1>5. CASE CommitError(s)
  <2>1. loc' = loc /\ loc[s].attempt > 0 /\ EndFlow(s, "fail")
    BY <1>1, <1>5 DEF CommitError, Ready, PlaceInv
  <2>2. QED
    BY <1>3, <2>1 DEF Outcome
<1>6. CASE ArtifactError(s)
  BY <1>1, <1>2, <1>3, <1>6 DEF ArtifactError, Ready, PlaceInv
<1>7. QED
  BY <1>4, <1>5, <1>6

(* A new process starts with a frame for the root only.                    *)
LEMMA LaunchHanded ==
  ASSUME NEW p \in {"start", "flow"}, NEW i \in Nat, NEW a, Launch(p, i, a)
  PROVE  FailInv'
<1>1. /\ at' = Root /\ pc' \in {"start", "flow"} /\ failed' = {}
      /\ loc'[Root].attempt = 1 /\ loc'[Root].setup = 0
      /\ \A s \in Step \ {Root} : loc'[s] = Fresh
  BY RootFacts DEF Launch, Continue
<1>2. Root \in Step /\ Len(Def[Root].setup) = 0 /\ Def[Root].type = "workflow"
  BY FlowAssumption
<1>3. ASSUME NEW s \in Step PROVE FrameOK(s)'
  <2>1. CASE s = Root
    BY <1>1, <1>2, <2>1 DEF FrameOK, FrameIs
  <2>2. CASE s # Root
    BY <1>1, <2>2 DEF FrameOK, FrameIs, Fresh
  <2>3. QED
    BY <2>1, <2>2
<1>4. CalledInv' /\ PlaceInv' /\ Handed({Root})'
  BY <1>1, <1>2 DEF CalledInv, PlaceInv, Handed
<1> DEFINE d == [t \in Step |-> 0]
<1>5. d \in [Step -> Nat] /\ Stack({Root}, d)'
  BY <1>1, <1>2 DEF Stack
<1>6. {Root} \in SUBSET Step
  BY <1>2
<1>7. QED
  BY <1>3, <1>4, <1>5, <1>6 DEF FailInv, Holds

(* Every step of the specification keeps failures on their way up.         *)
LEMMA NextHanded ==
  ASSUME TypeOK, RootInv, PauseReturns, PausesAreSaved, GuardsOnLeaves, FailInv, [Next]_vars
  PROVE  FailInv'
<1>1. CASE \E a \in BOOLEAN : Execute(a) \/ Resume(a)
  <2>1. PICK p \in {"start", "flow"}, i \in Nat, a \in BOOLEAN : Launch(p, i, a)
    BY <1>1, RootFacts DEF Execute, Resume, TypeOK, N
  <2>2. QED
    BY <2>1, LaunchHanded
<1>2. CASE ret = "pause"
  BY <1>2, NextPause DEF FailInv, vars, control
<1>3. CASE \E s \in Step \ {Root} :
             RunnerStep(s) \/ SaveError(s) \/ CommitError(s) \/ ArtifactError(s)
  <2>1. PICK s \in Step \ {Root} :
          RunnerStep(s) \/ SaveError(s) \/ CommitError(s) \/ ArtifactError(s)
    BY <1>3
  <2>2. at = s /\ at # None
    BY <2>1, InnerMoves, InnerFaults, RootFacts
  <2>3. CASE ret # "pause"
    <3>1. PICK S \in SUBSET Step, d \in [Step -> Nat] : Holds(S, d)
      BY <2>2, <2>3 DEF FailInv
    <3>2. QED
      BY <2>1, <3>1, InnerHanded, FaultHanded
  <2>4. QED
    BY <1>2, <2>3
<1>4. CASE RunnerStep(Root)
  <2>1. CASE FlowStops(Root) \/ FlowEnds(Root)
    BY <2>1 DEF FlowStops, FlowEnds, EndFlow, FailInv
  <2>2. CASE /\ StartFlow(Root) \/ FlowNext(Root) \/ FlowAdvances(Root) \/ CommitStep(Root)
             /\ ret # "pause"
    <3>1. at = Root /\ at # None /\ Root \in Step
      BY <1>4, RootMoves, RootFacts
    <3>2. PICK S \in SUBSET Step, d \in [Step -> Nat] : Holds(S, d)
      BY <2>2, <3>1 DEF FailInv
    <3>3. QED
      BY <2>2, <3>1, <3>2, FlowHanded
  <2>3. QED
    BY <1>2, <1>4, <2>1, <2>2, RootMoves
<1>5. CASE SaveError(Root) \/ CommitError(Root) \/ ArtifactError(Root)
  BY <1>5, RootFaults DEF FailInv
<1>6. CASE Crash \/ \E s \in Step : TornSave(s)
  BY <1>6 DEF Crash, TornSave, Die, FailInv
<1>7. CASE UNCHANGED vars
  <2>1. at' = at /\ pc' = pc /\ ret' = ret /\ loc' = loc /\ failed' = failed
    BY <1>7 DEF vars, control, history
  <2>2. ASSUME NEW S \in SUBSET Step, NEW d \in [Step -> Nat], Holds(S, d)
        PROVE  Holds(S, d)'
    <3>1. (\A s \in Step : FrameOK(s))' /\ CalledInv'
      BY <2>1, <2>2 DEF Holds, FrameOK, CalledInv
    <3>2. PlaceInv'
      BY <2>1, <2>2 DEF Holds, PlaceInv, Calling, Callee, Child
    <3>3. Stack(S, d)' /\ Handed(S)'
      BY <2>1, <2>2 DEF Holds, Stack, Handed, Calling, Callee, Child
    <3>4. QED
      BY <3>1, <3>2, <3>3 DEF Holds
  <2>3. QED
    BY <2>1, <2>2 DEF FailInv
<1>8. QED
  BY <1>1, <1>3, <1>4, <1>5, <1>6, <1>7, RootFacts DEF Next, FaultStep

(* Between two processes nothing happens to the exit of the last one.      *)
LEMMA IdleKeeps ==
  ASSUME TypeOK, RootInv, at = None, [Next]_vars
  PROVE  exit' = "none" \/ UNCHANGED vars
<1>1. CASE \E a \in BOOLEAN : Execute(a) \/ Resume(a)
  BY <1>1 DEF Execute, Resume, Launch
<1>2. CASE \E s \in Step \ {Root} :
             RunnerStep(s) \/ SaveError(s) \/ CommitError(s) \/ ArtifactError(s)
  BY <1>2, InnerMoves, InnerFaults, RootFacts
<1>3. CASE RunnerStep(Root) \/ SaveError(Root) \/ CommitError(Root) \/ ArtifactError(Root)
  BY <1>3, RootMoves, RootFaults, RootFacts
<1>4. CASE Crash \/ \E s \in Step : TornSave(s)
  BY <1>4 DEF Crash, TornSave, Die
<1>5. QED
  BY <1>1, <1>2, <1>3, <1>4, RootFacts DEF Next, FaultStep

(* When the root ends well, no failure is on its way.                      *)
LEMMA RootEndsWell ==
  ASSUME TypeOK, RootInv, PauseReturns, FailInv, RunnerStep(Root), FlowEnds(Root)
  PROVE  NoSilentFailure'
<1>1. /\ at = Root /\ at # None /\ Root \in Step /\ failed' = failed
      /\ loc[Root].idx = Len(Def[Root].body) /\ loc[Root].attempt > 0
      /\ pc = "flow" /\ ret # "pause"
  BY RootFacts DEF FlowEnds, EndFlow, Ready, RootInv, PauseReturns
<1>2. PICK S \in SUBSET Step, d \in [Step -> Nat] : Holds(S, d)
  BY <1>1 DEF FailInv
<1>3. S = {Root}
  BY <1>1, <1>2, StackOfRoot DEF Holds
<1>4. FrameIs(loc[Root], Root, failed) /\ CalledInv /\ Handed({Root})
  BY <1>1, <1>2, <1>3 DEF Holds, FrameOK
<1>5. loc[Root].setup = Len(Def[Root].setup)
  BY <1>1, <1>4 DEF FrameIs
<1>6. \A u \in failed : Def[u].parent # Root
  BY <1>1, <1>4, <1>5, NoneFailed
<1>7. ASSUME NEW s \in failed
      PROVE  \/ Def[s].parent \in failed
             \/ /\ OnErrorMode(Def[s].parent) = "continue" /\ Def[Def[s].parent].type # "loop"
                /\ \E i \in 1..Len(Def[Def[s].parent].body) : Def[Def[s].parent].body[i] = s
  BY <1>4, <1>6 DEF Handed, Tolerates, InBody
<1>8. QED
  BY <1>1, <1>6, <1>7 DEF NoSilentFailure, OnErrorMode

(* Every step of the specification.                                        *)
LEMMA NextNotSilent ==
  ASSUME TypeOK, RootInv, PauseReturns, FailInv, ExitInv, NoSilentFailure, [Next]_vars
  PROVE  NoSilentFailure'
<1>1. CASE exit' = "none"
  BY <1>1 DEF NoSilentFailure
<1>2. CASE exit' = exit
  <2>1. CASE exit = "ok"
    <3>1. UNCHANGED vars
      BY <1>2, <2>1, IdleKeeps DEF ExitInv
    <3>2. QED
      BY <3>1 DEF vars, history, NoSilentFailure, OnErrorMode
  <2>2. CASE exit # "ok"
    BY <1>2, <2>2 DEF NoSilentFailure
  <2>3. QED
    BY <2>1, <2>2
<1>3. CASE FlowStops(Root)
  BY <1>3 DEF FlowStops, EndFlow, NoSilentFailure
<1>4. CASE RunnerStep(Root) /\ FlowEnds(Root)
  BY <1>4, RootEndsWell
<1>5. CASE SaveError(Root) \/ CommitError(Root)
  <2>1. pc # "policy"
    BY <1>5, RootFaults
  <2>2. exit' # "ok"
    BY <1>5, <2>1 DEF SaveError, CommitError, EndFlow, SavePoint, CanAttempt, Ready
  <2>3. QED
    BY <2>2 DEF NoSilentFailure
<1>6. QED
  BY <1>1, <1>2, <1>3, <1>4, <1>5, NextExit DEF ExitStep

(* A process that returns no error has tolerated every failure: none was   *)
(* lost on the way up, whatever the policies along it, and whatever loops  *)
(* and nested definitions it came through.                                 *)
THEOREM FailuresSafe ==
  ASSUME PausesAreSaved, GuardsOnLeaves PROVE Spec => []NoSilentFailure
<1>1. Init => PauseReturns /\ ExitInv /\ FailInv /\ NoSilentFailure
  BY DEF Init, PauseReturns, ExitInv, FailInv, NoSilentFailure
<1>2. TypeOK /\ RootInv /\ PauseReturns /\ ExitInv /\ FailInv /\ NoSilentFailure /\ [Next]_vars
      => PauseReturns' /\ ExitInv' /\ FailInv' /\ NoSilentFailure'
  BY NextPause, NextExit, NextHanded, NextNotSilent
<1>3. QED
  BY <1>1, <1>2, RootSafe, PTL DEF Spec
=============================================================================
