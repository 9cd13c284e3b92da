-------------------------- MODULE FlowRunnerProofs --------------------------
(***************************************************************************)
(* Proofs about FlowRunner: type correctness for every flow, and for flows *)
(* without nested workflows the safety of the saved index, under any       *)
(* number of processes and of the faults of FaultKinds.                    *)
(***************************************************************************)
EXTENDS FlowRunner, TLAPS

(* What the assumptions say of one step and of its definition.             *)
LEMMA DefFacts ==
  ASSUME NEW s \in Step
  PROVE  /\ Def[s] \in StepDef
         /\ Def[s].parent \in Step \cup {None}
         /\ s # Root => Def[s].parent \in Step
         /\ \A i \in 1..Len(Def[s].body) :
              Def[s].body[i] \in Step /\ Def[Def[s].body[i]].parent = s
         /\ \A i \in 1..Len(Def[s].setup) :
              Def[s].setup[i] \in Step /\ Def[Def[s].setup[i]].parent = s
         /\ Len(Def[s].body) \in Nat /\ Len(Def[s].setup) \in Nat
         /\ Def[s].top \in Step
<1>1. Def[s] \in StepDef
  BY FlowAssumption
<1>2. Def[s].body \in Seq(Step) /\ Def[s].setup \in Seq(Step)
      /\ Def[s].parent \in Step \cup {None} /\ Def[s].top \in Step
  BY <1>1 DEF StepDef
<1>3. QED
  BY <1>1, <1>2, FlowAssumption

(* The updates of one frame keep the frames' type.                         *)
LEMMA FrameUpdate ==
  ASSUME NEW s \in Step, NEW l \in [Step -> Frame], NEW f \in Frame
  PROVE  [l EXCEPT ![s] = f] \in [Step -> Frame]
OBVIOUS

(* The counters of a frame are numbers.                                    *)
LEMMA FrameSteps ==
  ASSUME NEW s \in Step, loc \in [Step -> Frame]
  PROVE  /\ Fresh \in Frame
         /\ [setup |-> loc[s].setup, attempt |-> loc[s].attempt + 1,
             idx |-> 0, iter |-> 0] \in Frame
         /\ [setup |-> loc[s].setup, attempt |-> loc[s].attempt,
             idx |-> 0, iter |-> loc[s].iter + 1] \in Frame
<1>1. loc[s] \in Frame
  OBVIOUS
<1>2. /\ loc[s].setup \in Nat /\ loc[s].attempt \in Nat
      /\ loc[s].idx \in Nat /\ loc[s].iter \in Nat
  BY <1>1 DEF Frame
<1>3. QED
  BY <1>2 DEF Fresh, Frame

(* Counting a setup step or a child keeps the frames' type.                *)
LEMMA NextFrame ==
  ASSUME NEW s \in Step, loc \in [Step -> Frame], NextSetup(s) \/ NextChild(s)
  PROVE  loc' \in [Step -> Frame]
<1>1. loc[s] \in Frame
  OBVIOUS
<1>2. loc[s].setup + 1 \in Nat /\ loc[s].idx + 1 \in Nat
  BY <1>1 DEF Frame
<1>3. QED
  BY <1>1, <1>2 DEF NextSetup, NextChild, Frame

-----------------------------------------------------------------------------
(* The conjuncts of TypeOK that a return or a settled attempt touches.     *)
ControlOK ==
  /\ at \in Step \cup {None}
  /\ pc \in {"idle", "start", "policy", "returned", "loop", "flow", "commit"}
  /\ ret \in Outcome \cup {"none"}

SettledOK ==
  /\ ControlOK
  /\ inbox \in SUBSET Step /\ done \in SUBSET Step /\ failed \in SUBSET Step

(* Returning from a step keeps the types.                                  *)
LEMMA LeaveType ==
  ASSUME TypeOK, NEW s \in Step, NEW o \in Outcome \cup {"none"}, Leave(s, o)
  PROVE  ControlOK' /\ done' \in SUBSET Step /\ failed' \in SUBSET Step
BY DefFacts DEF TypeOK, Leave, ControlOK

(* Applying the on_error policy keeps the types.                           *)
LEMMA SettleType ==
  ASSUME TypeOK, NEW s \in Step, NEW o \in Outcome \cup {"none"}, NEW n,
         Settle(s, o, n)
  PROVE  SettledOK'
<1>1. CASE o = "fail" /\ n < RetryAttempts(s)
  BY <1>1 DEF TypeOK, Settle, Continue, ControlOK, SettledOK
<1>2. CASE ~(o = "fail" /\ n < RetryAttempts(s))
  <2>1. PICK o2 \in Outcome \cup {"none"} : Leave(s, o2)
    BY <1>2 DEF Settle, Outcome
  <2>2. inbox' \in SUBSET Step
    BY <1>2 DEF Settle, TypeOK
  <2>3. QED
    BY <2>1, <2>2, LeaveType DEF SettledOK
<1>3. QED
  BY <1>1, <1>2

(* Ending an attempt by its verify list keeps the types.                   *)
LEMMA VerifyType ==
  ASSUME TypeOK, NEW s \in Step, NEW n, Verify(s, n)
  PROVE  SettledOK'
<1>1. PICK o \in {"ok", "fail"} : Settle(s, o, n)
  BY DEF Verify
<1>2. o \in Outcome
  BY DEF Outcome
<1>3. QED
  BY <1>1, <1>2, SettleType

(* Returning from Execute or resumeFromState keeps the types.              *)
LEMMA EndFlowType ==
  ASSUME TypeOK, NEW s \in Step, NEW o \in Outcome \cup {"none"}, EndFlow(s, o)
  PROVE  SettledOK' /\ exit' \in Outcome \cup {"none"}
<1>1. CASE s = Root
  BY <1>1 DEF TypeOK, EndFlow, ControlOK, SettledOK
<1>2. CASE s # Root /\ o = "ok"
  <2>1. Verify(s, loc[s].attempt) /\ UNCHANGED exit
    BY <1>2 DEF EndFlow
  <2>2. QED
    BY <2>1, VerifyType DEF TypeOK
<1>3. CASE s # Root /\ o # "ok"
  <2>1. Settle(s, o, loc[s].attempt) /\ UNCHANGED exit
    BY <1>3 DEF EndFlow
  <2>2. QED
    BY <2>1, SettleType DEF TypeOK
<1>4. QED
  BY <1>1, <1>2, <1>3

(* The variables the steps of the runner leave alone, or set to a constant. *)
RestOK ==
  /\ auto \in BOOLEAN
  /\ exit \in Outcome \cup {"none"}
  /\ disk \in [status : DiskStatus, idx : Nat, owner : Step]
  /\ dirty \in SUBSET Step
  /\ runs \in Nat /\ faults \in Nat
  /\ ran \in SUBSET Step /\ approved \in SUBSET Step

(* The parts make the type invariant up.                                   *)
LEMMA TypeParts ==
  ASSUME SettledOK', RestOK', loc' \in [Step -> Frame]
  PROVE  TypeOK'
BY DEF TypeOK, SettledOK, ControlOK, RestOK

(* A saved state has the type of state.json.                               *)
LEMMA SaveType ==
  ASSUME NEW s \in Step, NEW i \in Nat, NEW st \in DiskStatus, SaveState(s, i, st)
  PROVE  disk' \in [status : DiskStatus, idx : Nat, owner : Step]
BY DEF SaveState

(* Calling a step keeps the types.                                         *)
LEMMA CallType ==
  ASSUME TypeOK, NEW c \in Step, Call(c)
  PROVE  /\ ControlOK' /\ loc' \in [Step -> Frame]
         /\ done' = done /\ ran' = ran /\ approved' = approved /\ failed' = failed
<1>1. loc' = [loc EXCEPT ![c] = Fresh] /\ Fresh \in Frame
  BY DEF Call, Fresh, Frame
<1>2. loc' \in [Step -> Frame]
  BY <1>1, FrameUpdate DEF TypeOK
<1>3. /\ ControlOK'
      /\ done' = done /\ ran' = ran /\ approved' = approved /\ failed' = failed
  BY DEF Call, Continue, ControlOK, TypeOK, history
<1>4. QED
  BY <1>2, <1>3

(* Beginning an attempt keeps the frames' type.                            *)
LEMMA AttemptType ==
  ASSUME TypeOK, NEW s \in Step, BeginAttempt(s)
  PROVE  loc' \in [Step -> Frame]
<1>1. loc \in [Step -> Frame]
  BY DEF TypeOK
<1>2. [setup |-> loc[s].setup, attempt |-> loc[s].attempt + 1,
       idx |-> 0, iter |-> 0] \in Frame
  BY <1>1, FrameSteps
<1>3. QED
  BY <1>1, <1>2, FrameUpdate DEF BeginAttempt

(* Every action of the engine keeps the types.                             *)
LEMMA RunnerStepType ==
  ASSUME TypeOK, NEW s \in Step, RunnerStep(s)
  PROVE  TypeOK'
<1> USE DefFacts, TypeParts
<1>0. /\ loc \in [Step -> Frame] /\ loc[s] \in Frame /\ loc[s].attempt \in Nat
      /\ loc[s].idx \in Nat /\ loc[s].setup \in Nat
  BY DEF TypeOK, Frame
<1>1. CASE RunSetup(s)
  <2>1. Def[s].setup[loc[s].setup + 1] \in Step
    BY <1>0, <1>1 DEF RunSetup
  <2>2. Call(Def[s].setup[loc[s].setup + 1])
    BY <1>1 DEF RunSetup
  <2>3. SettledOK' /\ loc' \in [Step -> Frame]
    BY <1>1, <2>1, <2>2, CallType DEF RunSetup, SettledOK, TypeOK
  <2>4. RestOK'
    BY <1>1, <2>1, <2>2, CallType DEF RunSetup, RestOK, TypeOK
  <2>5. QED
    BY <2>3, <2>4
<1>2. CASE SetupReturned(s)
  <2>1. CASE ret = "ok"
    <3>1. loc' \in [Step -> Frame]
      BY <1>0, <1>2, <2>1, NextFrame DEF SetupReturned
    <3>2. SettledOK' /\ RestOK'
      BY <1>2, <2>1 DEF SetupReturned, Continue, SettledOK, ControlOK, RestOK, TypeOK
    <3>3. QED
      BY <3>1, <3>2
  <2>2. CASE ret # "ok"
    BY <1>0, <1>2, <2>2, LeaveType DEF SetupReturned, SettledOK, RestOK, TypeOK
  <2>3. QED
    BY <2>1, <2>2
<1>3. CASE SkipDisabled(s)
  <2>1. Settle(s, "ok", loc[s].attempt + 1) /\ BeginAttempt(s)
    BY <1>3 DEF SkipDisabled
  <2>2. QED
    BY <1>3, <2>1, SettleType, AttemptType DEF SkipDisabled, RestOK, Outcome, TypeOK
<1>4. CASE RunLeaf(s)
  <2>1. PICK o \in {"ok", "fail"} : Settle(s, o, loc[s].attempt + 1)
    BY <1>4 DEF RunLeaf
  <2>2. o \in Outcome /\ BeginAttempt(s)
    BY <1>4 DEF RunLeaf, Outcome
  <2>3. SettledOK' /\ loc' \in [Step -> Frame]
    BY <2>1, <2>2, SettleType, AttemptType
  <2>4. RestOK'
    BY <1>4 DEF RunLeaf, RestOK, TypeOK
  <2>5. QED
    BY <2>3, <2>4
<1>5. CASE ApproveGate(s)
  <2>1. SettledOK' /\ loc' \in [Step -> Frame]
    BY <1>5, VerifyType, AttemptType DEF ApproveGate
  <2>2. RestOK'
    BY <1>5 DEF ApproveGate, RestOK, TypeOK
  <2>3. QED
    BY <2>1, <2>2
<1>6. CASE PauseAtGate(s)
  <2>1. Leave(s, "pause") /\ "pause" \in Outcome /\ BeginAttempt(s)
    BY <1>6 DEF PauseAtGate, Outcome
  <2>2. SettledOK' /\ loc' \in [Step -> Frame]
    BY <1>6, <2>1, LeaveType, AttemptType DEF PauseAtGate, SettledOK, TypeOK
  <2>3. RestOK'
    BY <1>6 DEF PauseAtGate, RestOK, TypeOK
  <2>4. QED
    BY <2>2, <2>3
<1>7. CASE EnterWorkflow(s)
  <2>1. loc' \in [Step -> Frame]
    BY <1>7, AttemptType DEF EnterWorkflow
  <2>2. SettledOK'
    BY <1>7 DEF EnterWorkflow, Continue, SettledOK, ControlOK, history, TypeOK
  <2>3. disk' \in [status : DiskStatus, idx : Nat, owner : Step]
    BY <1>7, SaveType DEF EnterWorkflow, DiskStatus
  <2>4. RestOK'
    BY <1>7, <2>3 DEF EnterWorkflow, RestOK, history, TypeOK
  <2>5. QED
    BY <2>1, <2>2, <2>4
<1>8. CASE WorkflowUnreadable(s)
  <2>1. SettledOK' /\ loc' \in [Step -> Frame]
    BY <1>8, SettleType, AttemptType DEF WorkflowUnreadable, Outcome
  <2>2. RestOK'
    BY <1>8 DEF WorkflowUnreadable, RestOK, TypeOK
  <2>3. QED
    BY <2>1, <2>2
<1>9. CASE EnterLoop(s)
  <2>1. loc' \in [Step -> Frame]
    BY <1>9, AttemptType DEF EnterLoop
  <2>2. QED
    BY <1>9, <2>1
    DEF EnterLoop, Continue, SettledOK, ControlOK, RestOK, history, TypeOK
<1>10. CASE LoopNext(s)
  <2>1. Child(s) \in Step
    BY <1>0, <1>10 DEF LoopNext, Child
  <2>2. Call(Child(s))
    BY <1>10 DEF LoopNext
  <2>3. SettledOK' /\ loc' \in [Step -> Frame]
    BY <1>10, <2>1, <2>2, CallType DEF LoopNext, SettledOK, TypeOK
  <2>4. RestOK'
    BY <1>10, <2>1, <2>2, CallType DEF LoopNext, RestOK, TypeOK
  <2>5. QED
    BY <2>3, <2>4
<1>11. CASE LoopReturned(s)
  <2>1. RestOK'
    BY <1>11 DEF LoopReturned, RestOK, TypeOK
  <2>2. CASE ret = "ok"
    <3>1. loc' \in [Step -> Frame]
      BY <1>0, <1>11, <2>2, NextFrame DEF LoopReturned
    <3>2. SettledOK'
      BY <1>11, <2>2 DEF LoopReturned, Continue, SettledOK, ControlOK, TypeOK
    <3>3. QED
      BY <2>1, <3>1, <3>2
  <2>3. CASE ret # "ok"
    BY <1>0, <1>11, <2>1, <2>3, SettleType DEF LoopReturned, TypeOK
  <2>4. QED
    BY <2>2, <2>3
<1>12. CASE LoopIterationEnds(s)
  <2>1. RestOK'
    BY <1>12 DEF LoopIterationEnds, RestOK, TypeOK
  <2>2. SettledOK' /\ loc' \in [Step -> Frame]
    <3>1. CASE Verify(s, loc[s].attempt) /\ UNCHANGED loc
      BY <1>0, <3>1, VerifyType
    <3>2. CASE Settle(s, "fail", loc[s].attempt) /\ UNCHANGED loc
      BY <1>0, <3>2, SettleType DEF Outcome
    <3>3. CASE /\ Continue(s, "loop") /\ UNCHANGED <<inbox, done, failed>>
               /\ loc' = [loc EXCEPT ![s] =
                    [setup |-> @.setup, attempt |-> @.attempt, idx |-> 0,
                     iter |-> @.iter + 1]]
      <4>1. loc' \in [Step -> Frame]
        BY <1>0, <3>3, FrameSteps, FrameUpdate
      <4>2. SettledOK'
        BY <3>3 DEF Continue, SettledOK, ControlOK, TypeOK
      <4>3. QED
        BY <4>1, <4>2
    <3>4. QED
      BY <1>12, <3>1, <3>2, <3>3 DEF LoopIterationEnds
  <2>3. QED
    BY <2>1, <2>2
<1>13. CASE FlowNext(s)
  <2>1. Child(s) \in Step
    BY <1>0, <1>13 DEF FlowNext, Child
  <2>2. Call(Child(s))
    BY <1>13 DEF FlowNext
  <2>3. SettledOK' /\ loc' \in [Step -> Frame]
    BY <1>13, <2>1, <2>2, CallType DEF FlowNext, SettledOK, TypeOK
  <2>4. RestOK'
    BY <1>13, <2>1, <2>2, CallType DEF FlowNext, RestOK, TypeOK
  <2>5. QED
    BY <2>3, <2>4
<1>14. CASE FlowAdvances(s)
  <2>1. loc' \in [Step -> Frame]
    BY <1>0, <1>14, NextFrame DEF FlowAdvances
  <2>2. SettledOK'
    BY <1>14 DEF FlowAdvances, Continue, SettledOK, ControlOK, history, TypeOK
  <2>3. disk' \in [status : DiskStatus, idx : Nat, owner : Step]
    BY <1>0, <1>14, SaveType DEF FlowAdvances, DiskStatus, TypeOK
  <2>4. RestOK'
    BY <1>14, <2>3 DEF FlowAdvances, RestOK, history, TypeOK
  <2>5. QED
    BY <2>1, <2>2, <2>4
<1>15. CASE CommitStep(s)
  BY <1>15 DEF CommitStep, Continue, SettledOK, ControlOK, RestOK, history, TypeOK
<1>16. CASE FlowStops(s)
  <2>1. ret \in Outcome \cup {"none"} /\ EndFlow(s, ret)
    BY <1>16 DEF FlowStops, TypeOK
  <2>2. SettledOK' /\ exit' \in Outcome \cup {"none"}
    BY <2>1, EndFlowType
  <2>3. disk' \in [status : DiskStatus, idx : Nat, owner : Step]
    BY <1>0, <1>16, SaveType DEF FlowStops, DiskStatus
  <2>4. RestOK' /\ loc' = loc
    BY <1>16, <2>2, <2>3 DEF FlowStops, RestOK, TypeOK
  <2>5. QED
    BY <1>0, <2>2, <2>4
<1>17. CASE FlowEnds(s)
  <2>1. EndFlow(s, "ok") /\ "ok" \in Outcome
    BY <1>17 DEF FlowEnds, Outcome
  <2>2. SettledOK' /\ exit' \in Outcome \cup {"none"}
    BY <2>1, EndFlowType
  <2>3. disk' \in [status : DiskStatus, idx : Nat, owner : Step]
    BY <1>0, <1>17, SaveType DEF FlowEnds, SaveAtEnd, DiskStatus, TypeOK
  <2>4. RestOK' /\ loc' = loc
    BY <1>17, <2>2, <2>3 DEF FlowEnds, RestOK, TypeOK
  <2>5. QED
    BY <1>0, <2>2, <2>4
<1>18. CASE StartFlow(s)
  <2>1. disk' \in [status : DiskStatus, idx : Nat, owner : Step]
    BY <1>18, SaveType DEF StartFlow, DiskStatus
  <2>2. QED
    BY <1>0, <1>18, <2>1
    DEF StartFlow, Continue, SettledOK, ControlOK, RestOK, history, TypeOK
<1>19. QED
  BY <1>1, <1>2, <1>3, <1>4, <1>5, <1>6, <1>7, <1>8, <1>9, <1>10, <1>11, <1>12,
     <1>13, <1>14, <1>15, <1>16, <1>17, <1>18 DEF RunnerStep

(* Every fault of a step keeps the types.                                  *)
LEMMA FaultStepType ==
  ASSUME TypeOK, NEW s \in Step, FaultStep(s) \/ Crash
  PROVE  TypeOK'
<1> USE TypeParts
<1>1. /\ loc \in [Step -> Frame] /\ Root \in Step
      /\ faults + 1 \in Nat /\ ret \in Outcome \cup {"none"}
      /\ Torn \in [status : DiskStatus, idx : Nat, owner : Step]
  BY FlowAssumption DEF TypeOK, Torn, DiskStatus
<1>2. CASE TornSave(s)
  BY <1>1, <1>2
  DEF TornSave, Die, Fault, history, SettledOK, ControlOK, RestOK, TypeOK
<1>3. CASE Crash
  BY <1>1, <1>3
  DEF Crash, Die, Fault, history, SettledOK, ControlOK, RestOK, TypeOK
<1>4. CASE SaveError(s)
  <2>1. SettledOK' /\ loc' \in [Step -> Frame] /\ exit' \in Outcome \cup {"none"}
    <3>1. CASE pc = "policy"
      BY <1>4, <3>1, SettleType, AttemptType DEF SaveError, Outcome, TypeOK
    <3>2. CASE pc # "policy"
      <4>1. PICK o \in Outcome \cup {"none"} : EndFlow(s, o)
        BY <1>1, <1>4, <3>2 DEF SaveError, Outcome
      <4>2. QED
        BY <1>1, <1>4, <3>2, <4>1, EndFlowType DEF SaveError
    <3>3. QED
      BY <3>1, <3>2
  <2>2. faults' = faults + 1
    BY <1>4 DEF SaveError, Fault
  <2>3. disk' \in [status : DiskStatus, idx : Nat, owner : Step]
    BY <1>1, <1>4 DEF SaveError, TypeOK
  <2>4. RestOK'
    BY <1>1, <1>4, <2>1, <2>2, <2>3 DEF SaveError, RestOK, TypeOK
  <2>5. QED
    BY <2>1, <2>4
<1>5. CASE CommitError(s)
  <2>1. EndFlow(s, "fail") /\ "fail" \in Outcome
    BY <1>5 DEF CommitError, Outcome
  <2>2. SettledOK' /\ exit' \in Outcome \cup {"none"}
    BY <2>1, EndFlowType
  <2>3. RestOK' /\ loc' = loc
    BY <1>1, <1>5, <2>2 DEF CommitError, Fault, RestOK, TypeOK
  <2>4. QED
    BY <1>1, <2>2, <2>3
<1>6. CASE ArtifactError(s)
  <2>1. PICK n : Settle(s, "fail", n)
    BY <1>6 DEF ArtifactError
  <2>2. SettledOK'
    BY <2>1, SettleType DEF Outcome
  <2>3. loc' \in [Step -> Frame]
    BY <1>1, <1>6, AttemptType DEF ArtifactError
  <2>4. disk' \in [status : DiskStatus, idx : Nat, owner : Step]
    BY <1>6, SaveType DEF ArtifactError, SaveAtEnd, DiskStatus, TypeOK
  <2>5. RestOK'
    BY <1>1, <1>6, <2>4 DEF ArtifactError, Fault, RestOK, TypeOK
  <2>6. QED
    BY <2>2, <2>3, <2>5
<1>7. QED
  BY <1>2, <1>3, <1>4, <1>5, <1>6 DEF FaultStep

(* Starting a process keeps the types.                                     *)
LEMMA LaunchType ==
  ASSUME TypeOK, NEW a \in BOOLEAN, Execute(a) \/ Resume(a)
  PROVE  TypeOK'
<1> USE TypeParts
<1>1. PICK p \in {"start", "flow"}, i \in Nat : Launch(p, i, a)
  <2>1. N \in Nat /\ disk.idx \in Nat
    BY DefFacts, FlowAssumption DEF N, TypeOK
  <2>2. QED
    BY <2>1 DEF Execute, Resume
<1>2. [setup |-> 0, attempt |-> 1, idx |-> i, iter |-> 0] \in Frame /\ Fresh \in Frame
  BY DEF Frame, Fresh
<1>3. loc' \in [Step -> Frame]
  BY <1>1, <1>2 DEF Launch
<1>4. Root \in Step
  BY FlowAssumption
<1>5. disk' \in [status : DiskStatus, idx : Nat, owner : Step]
  BY <1>1 DEF Launch, TypeOK
<1>6. SettledOK'
  BY <1>1, <1>4 DEF Launch, Continue, SettledOK, ControlOK, TypeOK
<1>7. RestOK'
  BY <1>1, <1>5 DEF Launch, RestOK, TypeOK
<1>8. QED
  BY <1>3, <1>6, <1>7

(* The types hold before the first process.                                *)
LEMMA InitType == Init => TypeOK
<1>1. Root \in Step /\ Fresh \in Frame
  BY FlowAssumption DEF Fresh, Frame
<1>2. Init => loc \in [Step -> Frame]
  BY <1>1 DEF Init
<1>3. Init => disk \in [status : DiskStatus, idx : Nat, owner : Step]
  BY <1>1 DEF Init, Absent, DiskStatus
<1>4. Init => auto \in BOOLEAN
  BY DEF Init
<1>5. QED
  BY <1>2, <1>3, <1>4 DEF Init, TypeOK

(* Every step of the specification keeps the types.                        *)
LEMMA NextType ==
  ASSUME TypeOK, [Next]_vars
  PROVE  TypeOK'
<1>1. CASE Next
  BY <1>1, LaunchType, RunnerStepType, FaultStepType, FlowAssumption DEF Next
<1>2. CASE UNCHANGED vars
  BY <1>2 DEF vars, control, history, TypeOK
<1>3. QED
  BY <1>1, <1>2

(* Type correctness of the engine, for every flow and every bound.         *)
THEOREM TypeCorrect == Spec => []TypeOK
<1>1. TypeOK /\ [Next]_vars => TypeOK'
  BY NextType
<1>2. QED
  BY <1>1, InitType, PTL DEF Spec
=============================================================================
