----------------------------- MODULE WbsProofs ------------------------------
(***************************************************************************)
(* Proofs about the orchestrator, for every work breakdown structure that  *)
(* Validate accepts, every set of lanes and any number of faults and       *)
(* processes.                                                              *)
(***************************************************************************)
EXTENDS WbsOrchestrator, TLAPS

(* The spec an executor runs is one of the WBS, and what is posted of it   *)
(* has the status of a result.                                             *)
CurInv ==
  /\ pc = "execute" => cur \in Specs
  /\ pc = "notify" => status \in {"completed", "failed"}

TypeInv == TypeOK /\ CurInv

(* What holds between the locals of Execute and the executors' records:    *)
(* completed specs are settled, a batch waits for nothing, and as long as  *)
(* no spec has failed the specs that are done are those completed; and a   *)
(* result that says completed is of a spec that was executed to the end.   *)
BatchInv ==
  /\ completed \subseteq Settled
  /\ \A s \in ready : DependsOn[s] \subseteq completed
  /\ pc = "execute" => DependsOn[cur] \subseteq completed
  /\ pc \in {"scan", "execute"} \/ (pc = "notify" /\ verdict = "ok") => done = completed
  /\ pc = "notify" /\ verdict = "ok" => cur \in completed /\ status = "completed"
  /\ pc = "notify" /\ status = "completed" => cur \in Settled \cup unwritten
  /\ pc = "notifyCompleted" => completed = Specs

-----------------------------------------------------------------------------
(* The variables keep their types in every step.                           *)
LEMMA TypeStep == TypeInv /\ [Next]_vars => TypeInv'
<1> SUFFICES ASSUME TypeInv, [Next]_vars PROVE TypeInv'
  OBVIOUS
<1> USE WbsAssumption, WbsBounds
    DEF TypeInv, TypeOK, CurInv, Exits, Return, Goto, Fault, local, history
<1>1. CASE Start BY <1>1 DEF Start
<1>2. CASE Refuse BY <1>2 DEF Refuse
<1>3. CASE Scan BY <1>3 DEF Scan, ReadySpecs
<1>4. ASSUME NEW s \in Specs, NoExecutor(s) PROVE TypeInv'
  BY <1>4 DEF NoExecutor, NextInBatch
<1>5. ASSUME NEW s \in Specs, Skip(s) PROVE TypeInv'
  BY <1>5 DEF Skip, Record, NextInBatch
<1>6. ASSUME NEW s \in Specs, Dispatch(s) PROVE TypeInv'
  BY <1>6 DEF Dispatch, NextInBatch
<1>7. CASE ExecutorReturns BY <1>7 DEF ExecutorReturns, Record
<1>8. CASE SpecNotified BY <1>8 DEF SpecNotified, Posted, SpecMessage
<1>9. CASE SpecNotifyFails BY <1>9 DEF SpecNotifyFails, PostFails, SpecMessage
<1>10. CASE RecordFailure BY <1>10 DEF RecordFailure
<1>11. CASE FailureNotified BY <1>11 DEF FailureNotified, Posted, PostFails, RunMessage
<1>12. CASE RecordSuccess BY <1>12 DEF RecordSuccess
<1>13. CASE SuccessNotified BY <1>13 DEF SuccessNotified, Posted, PostFails, RunMessage
<1>14. CASE Crash BY <1>14 DEF Crash, UnderWay, SpecMessage, RunMessage
<1>15. CASE UNCHANGED vars BY <1>15 DEF vars, history
<1>16. CASE ResultUnwritten BY <1>16 DEF ResultUnwritten, Record
<1> QED
  BY <1>1, <1>2, <1>3, <1>4, <1>5, <1>6, <1>7, <1>8, <1>9, <1>10, <1>11, <1>12,
     <1>13, <1>14, <1>15, <1>16 DEF Next, ProcessStep

(* The variables of Orchestrator.Execute, its result file and the          *)
(* executors' records keep their types whatever crashes and callback       *)
(* failures occur.                                                         *)
THEOREM WbsTypeCorrect == Spec => []TypeOK
<1>1. Init => TypeInv
  BY WbsAssumption DEF Init, TypeInv, TypeOK, CurInv, Exits
<1>2. TypeInv => TypeOK
  BY DEF TypeInv
<1> QED
  BY <1>1, <1>2, TypeStep, PTL DEF Spec

-----------------------------------------------------------------------------
(* Scheduling.                                                             *)

(* Steps never unsettle a spec.                                            *)
LEMMA SettledGrows ==
  ASSUME TypeInv, [Next]_vars PROVE Settled \subseteq Settled'
<1> USE DEF Settled
<1>1. CASE ExecutorReturns
  <2>1. finished \subseteq finished' BY <1>1 DEF ExecutorReturns
  <2>2. succeeded \subseteq succeeded' BY <1>1 DEF ExecutorReturns
  <2> QED BY <2>1, <2>2
<1>2. CASE Crash
  BY <1>2 DEF Crash, history
<1>3. CASE ResultUnwritten
  BY <1>3 DEF ResultUnwritten
<1>4. CASE ~ExecutorReturns /\ ~ResultUnwritten /\ ~Crash
  <2>1. UNCHANGED <<finished, succeeded>>
    BY <1>4 DEF Next, ProcessStep, vars, history, Start, Refuse, Scan, NoExecutor, Skip,
       Dispatch, SpecNotified, SpecNotifyFails, RecordFailure, FailureNotified,
       RecordSuccess, SuccessNotified
  <2> QED BY <2>1
<1> QED
  BY <1>1, <1>2, <1>3, <1>4

(* The locals keep agreeing with the executors' records.                   *)
LEMMA BatchStep == TypeInv /\ BatchInv /\ [Next]_vars => BatchInv'
<1> SUFFICES ASSUME TypeInv, BatchInv, [Next]_vars PROVE BatchInv'
  OBVIOUS
<1>s. Settled \subseteq Settled'
  BY SettledGrows
<1>t. /\ ready \subseteq Specs /\ done \subseteq Specs /\ completed \subseteq Specs
      /\ pc = "execute" => cur \in Specs
      /\ verdict \in {"none", "ok", "fail"}
  BY DEF TypeInv, TypeOK, CurInv
<1> USE <1>s, <1>t DEF BatchInv, Return, Goto, local, history
<1>1. CASE Start BY <1>1 DEF Start
<1>2. CASE Refuse BY <1>2 DEF Refuse
<1>3. CASE Scan BY <1>3 DEF Scan, ReadySpecs
<1>4. ASSUME NEW s \in Specs, NoExecutor(s) PROVE BatchInv'
  BY <1>4 DEF NoExecutor, NextInBatch
<1>5. ASSUME NEW s \in Specs, Skip(s) PROVE BatchInv'
  BY <1>5 DEF Skip, Record, NextInBatch, Settled
<1>6. ASSUME NEW s \in Specs, Dispatch(s) PROVE BatchInv'
  BY <1>6 DEF Dispatch, NextInBatch
<1>7. CASE ExecutorReturns
  BY <1>7 DEF ExecutorReturns, Record, Settled
<1>8. CASE SpecNotified BY <1>8 DEF SpecNotified
<1>9. CASE SpecNotifyFails BY <1>9 DEF SpecNotifyFails
<1>10. CASE RecordFailure BY <1>10 DEF RecordFailure
<1>11. CASE FailureNotified BY <1>11 DEF FailureNotified
<1>12. CASE RecordSuccess BY <1>12 DEF RecordSuccess
<1>13. CASE SuccessNotified BY <1>13 DEF SuccessNotified
<1>14. CASE Crash BY <1>14 DEF Crash
<1>15. CASE UNCHANGED vars BY <1>15 DEF vars, history
<1>16. CASE ResultUnwritten BY <1>16 DEF ResultUnwritten, Record, Settled
<1> QED
  BY <1>1, <1>2, <1>3, <1>4, <1>5, <1>6, <1>7, <1>8, <1>9, <1>10, <1>11, <1>12,
     <1>13, <1>14, <1>15, <1>16 DEF Next, ProcessStep

(* The inductive invariant behind the theorems of this module: types, and  *)
(* the agreement of the maps done and completed of Execute with what the   *)
(* executors have recorded.                                                *)
THEOREM WbsInvariant == Spec => [](TypeInv /\ BatchInv)
<1>1. Init => TypeInv /\ BatchInv
  BY WbsAssumption DEF Init, TypeInv, TypeOK, CurInv, Exits, BatchInv
<1> QED
  BY <1>1, TypeStep, BatchStep, PTL DEF Spec

(* An executor runs only when every dependency of its spec is settled by   *)
(* that dependency's own executor, for every WBS (readySpecs).             *)
THEOREM DependenciesSafe == Spec => []DependenciesSettled
<1>1. TypeInv /\ BatchInv => DependenciesSettled
  BY DEF BatchInv, DependenciesSettled
<1> QED
  BY <1>1, WbsInvariant, PTL

-----------------------------------------------------------------------------
(* Reports.                                                                *)

(* What a callback says when it is posted is true.                         *)
LEMMA MessageIsTrue ==
  ASSUME TypeInv, BatchInv
  PROVE  /\ pc = "notify" =>
              \A s \in Specs : SpecMessage = <<"spec.completed", s, "completed">>
                                => s \in Settled \cup unwritten
         /\ pc = "notifyCompleted" => Settled = Specs
  BY DEF TypeInv, TypeOK, BatchInv, SpecMessage, Settled

(* What was once executed to the end was so.                               *)
LEMMA UnwrittenGrows == ASSUME [Next]_vars PROVE unwritten \subseteq unwritten'
  BY DEF Next, ProcessStep, vars, history, Start, Refuse, Scan, NoExecutor, Skip, Dispatch,
     ExecutorReturns, ResultUnwritten, SpecNotified, SpecNotifyFails, RecordFailure,
     FailureNotified, RecordSuccess, SuccessNotified, Crash

(* Reports that are true stay so, and new ones are true.                   *)
LEMMA ReportStep ==
  TypeInv /\ BatchInv /\ TypeInv' /\ ReportsAreTrue /\ [Next]_vars => ReportsAreTrue'
<1> SUFFICES ASSUME TypeInv, BatchInv, TypeInv', ReportsAreTrue, [Next]_vars
             PROVE  ReportsAreTrue'
  OBVIOUS
<1>s. Settled \subseteq Settled' /\ Settled' \subseteq Specs /\ unwritten \subseteq unwritten'
  BY SettledGrows, UnwrittenGrows DEF TypeInv, TypeOK, Settled
<1>f. (pc' # "idle" /\ cur' \in done' \ completed') =>
         pc' \in {"notify", "failed", "notifyFailed"}
  BY BatchStep DEF BatchInv, TypeInv, TypeOK
<1>k. ASSUME file' \in {file, "failed", "torn"}, told' = told PROVE ReportsAreTrue'
  BY <1>k, <1>s, <1>f DEF ReportsAreTrue, RunMessage
<1>m. ASSUME file' = file, NEW m, told' \in {told, told \cup {m}},
             \/ pc = "notify" /\ m = SpecMessage
             \/ m = RunMessage("failed")
             \/ pc = "notifyCompleted" /\ m = RunMessage("completed")
      PROVE  ReportsAreTrue'
  <2>1. \A s \in Specs : m = <<"spec.completed", s, "completed">>
                        => s \in Settled \cup unwritten
    BY <1>m, MessageIsTrue DEF RunMessage
  <2>2. m = RunMessage("completed") => Settled = Specs
    BY <1>m, MessageIsTrue DEF RunMessage, SpecMessage
  <2> QED
    BY <1>m, <1>s, <1>f, <2>1, <2>2 DEF ReportsAreTrue, RunMessage
<1>1. CASE SpecNotified BY <1>1, <1>m DEF SpecNotified, Posted
<1>2. CASE SpecNotifyFails BY <1>2, <1>m DEF SpecNotifyFails, PostFails
<1>3. CASE FailureNotified BY <1>3, <1>m DEF FailureNotified, Posted, PostFails
<1>4. CASE SuccessNotified BY <1>4, <1>m DEF SuccessNotified, Posted, PostFails
<1>5. CASE RecordSuccess
  <2>1. Settled = Specs
    BY <1>5 DEF RecordSuccess, BatchInv, TypeInv, TypeOK, Settled
  <2> QED
    BY <1>5, <1>s, <1>f, <2>1 DEF RecordSuccess, ReportsAreTrue, RunMessage
<1>6. CASE Crash
  <2>1. ASSUME NEW m, UnderWay(m), told' = told \cup {m}, file' = file
        PROVE  ReportsAreTrue'
    BY <2>1, <1>m DEF UnderWay
  <2> QED
    BY <1>6, <1>k, <2>1 DEF Crash
<1>7. CASE RecordFailure BY <1>7, <1>k DEF RecordFailure
<1>8. CASE \/ Start \/ Refuse \/ Scan \/ ExecutorReturns \/ ResultUnwritten \/ UNCHANGED vars
           \/ \E s \in Specs : NoExecutor(s) \/ Skip(s) \/ Dispatch(s)
  <2>1. file' = file /\ told' = told
    BY <1>8 DEF Start, Refuse, Scan, ExecutorReturns, ResultUnwritten, vars, NoExecutor, Skip, Dispatch
  <2> QED BY <2>1, <1>k
<1> QED
  BY <1>1, <1>2, <1>3, <1>4, <1>5, <1>6, <1>7, <1>8 DEF Next, ProcessStep

(* Whatever execution-orchestration.json and the callbacks say, it is      *)
(* true of the executors' records, or of a spec that was executed to the   *)
(* end and whose result could not be written, for every WBS, also when     *)
(* callbacks and saves fail and processes are killed and repeated.         *)
THEOREM ReportsSafe == Spec => []ReportsAreTrue
<1>1. Init => ReportsAreTrue
  BY DEF Init, ReportsAreTrue
<1> QED
  BY <1>1, WbsInvariant, ReportStep, PTL DEF Spec

-----------------------------------------------------------------------------
(* Blocked runs.                                                           *)

(* A process that runs has returned nothing, and what it said last of      *)
(* blocked specs is true of the map done it left.                          *)
BlockedInv ==
  /\ pc # "idle" => exit = "none"
  /\ BlockedOnlyByCycle

(* Execute reports blocked specs only when those left wait for each other: *)
(* never because of a failure or of a spec that was skipped.               *)
THEOREM BlockedSafe == Spec => []BlockedOnlyByCycle
<1>1. Init => BlockedInv
  BY DEF Init, BlockedInv, BlockedOnlyByCycle
<1>2. TypeInv /\ BatchInv /\ BlockedInv /\ [Next]_vars => BlockedInv'
  <2> SUFFICES ASSUME TypeInv, BatchInv, BlockedInv, [Next]_vars
               PROVE  BlockedInv'
    OBVIOUS
  <2>1. CASE exit' # "blocked" /\ (pc' # "idle" => exit' = "none")
    BY <2>1 DEF BlockedInv, BlockedOnlyByCycle
  <2>2. CASE Scan /\ ReadySpecs = {}
    <3> DEFINE S == Specs \ done
    <3>0. exit' = "blocked" /\ pc' = "idle" /\ done' = done
      BY <2>2 DEF Scan, Return
    <3>1. S # {}
      BY <2>2 DEF Scan, TypeInv, TypeOK
    <3>2. ASSUME NEW s \in S PROVE DependsOn[s] \cap S # {}
      <4>1. DependsOn[s] \subseteq Specs BY WbsAssumption
      <4>2. ~(DependsOn[s] \subseteq completed) BY <2>2 DEF ReadySpecs
      <4>3. done = completed BY <2>2 DEF Scan, BatchInv
      <4> QED BY <4>1, <4>2, <4>3
    <3> QED
      BY <3>0, <3>1, <3>2 DEF BlockedInv, BlockedOnlyByCycle
  <2>3. CASE UNCHANGED vars
    BY <2>3 DEF vars, local, history, BlockedInv, BlockedOnlyByCycle
  <2>4. CASE Next /\ ~(Scan /\ ReadySpecs = {})
    <3> SUFFICES exit' # "blocked" /\ (pc' # "idle" => exit' = "none")
      BY <2>1
    <3>n. pc # "idle" => exit = "none"
      BY DEF BlockedInv
    <3> USE <3>n DEF Return, Goto
    <3>1. CASE Start BY <3>1 DEF Start
    <3>2. CASE Refuse BY <3>2 DEF Refuse
    <3>3. CASE Scan BY <3>3, <2>4 DEF Scan
    <3>4. ASSUME NEW s \in Specs, NoExecutor(s) \/ Skip(s) \/ Dispatch(s)
          PROVE  exit' # "blocked" /\ (pc' # "idle" => exit' = "none")
      BY <3>4 DEF NoExecutor, Skip, Dispatch, NextInBatch, Record
    <3>5. CASE ExecutorReturns \/ ResultUnwritten
      BY <3>5 DEF ExecutorReturns, ResultUnwritten, Record
    <3>6. CASE SpecNotified \/ SpecNotifyFails
      BY <3>6 DEF SpecNotified, SpecNotifyFails
    <3>7. CASE RecordFailure \/ FailureNotified
      BY <3>7 DEF RecordFailure, FailureNotified
    <3>8. CASE RecordSuccess \/ SuccessNotified
      BY <3>8 DEF RecordSuccess, SuccessNotified
    <3>9. CASE Crash BY <3>9 DEF Crash
    <3> QED
      BY <2>4, <3>1, <3>2, <3>3, <3>4, <3>5, <3>6, <3>7, <3>8, <3>9 DEF Next, ProcessStep
  <2> QED
    BY <2>2, <2>3, <2>4
<1>3. BlockedInv => BlockedOnlyByCycle
  BY DEF BlockedInv
<1> QED
  BY <1>1, <1>2, <1>3, WbsInvariant, PTL DEF Spec

-----------------------------------------------------------------------------
(* Success.                                                                *)

(* A process that goes on to announce the run has had every completed spec *)
(* announced, and the result written; a result file does not go away.      *)
SuccessInv ==
  /\ SuccessIsComplete
  /\ pc # "idle" => exit = "none"
  /\ (CallbackURL /\ pc # "idle") =>
       \A s \in completed : \/ <<"spec.completed", s, "completed">> \in told
                            \/ pc = "notify" /\ verdict = "ok" /\ s = cur
  /\ pc = "notifyCompleted" => file = "completed"

(* Success stays complete.                                                 *)
LEMMA SuccessStep == TypeInv /\ BatchInv /\ SuccessInv /\ [Next]_vars => SuccessInv'
<1> SUFFICES ASSUME TypeInv, BatchInv, SuccessInv, [Next]_vars PROVE SuccessInv'
  OBVIOUS
<1>s. Settled \subseteq Settled' /\ Settled \subseteq Specs /\ Settled' \subseteq Specs
  BY SettledGrows, TypeStep DEF TypeInv, TypeOK, Settled
<1> USE DEF SuccessInv, SuccessIsComplete, Return, Goto, local, history
<1>k. ASSUME file' = file \/ file' # "absent", told' = told, exit' # "ok"
      PROVE  SuccessIsComplete'
  BY <1>k DEF RunMessage
<1>1. CASE Start BY <1>1, <1>k DEF Start
<1>2. CASE Refuse BY <1>2, <1>k DEF Refuse
<1>3. CASE Scan BY <1>3, <1>k DEF Scan
<1>4. ASSUME NEW s \in Specs, NoExecutor(s) PROVE SuccessInv'
  BY <1>4, <1>k DEF NoExecutor, NextInBatch
<1>5. ASSUME NEW s \in Specs, Skip(s) PROVE SuccessInv'
  BY <1>5, <1>k DEF Skip, Record, NextInBatch
<1>6. ASSUME NEW s \in Specs, Dispatch(s) PROVE SuccessInv'
  BY <1>6, <1>k DEF Dispatch, NextInBatch
<1>7. CASE ExecutorReturns \/ ResultUnwritten
  BY <1>7, <1>k DEF ExecutorReturns, ResultUnwritten, Record
<1>8. CASE SpecNotified
  <2>1. told \subseteq told' /\ (CallbackURL => SpecMessage \in told')
    BY <1>8 DEF SpecNotified, Posted
  <2>2. RunMessage("completed") \in told' => RunMessage("completed") \in told
    BY <1>8 DEF SpecNotified, Posted, SpecMessage, RunMessage
  <2> QED BY <1>8, <2>1, <2>2 DEF SpecNotified, SpecMessage, BatchInv
<1>9. CASE SpecNotifyFails
  <2>1. told \subseteq told' /\ exit' = "fail" /\ pc' = "idle" /\ file' = file
    BY <1>9 DEF SpecNotifyFails, PostFails
  <2>2. RunMessage("completed") \in told' => RunMessage("completed") \in told
    BY <1>9 DEF SpecNotifyFails, PostFails, SpecMessage, RunMessage
  <2> QED BY <2>1, <2>2
<1>10. CASE RecordFailure BY <1>10, <1>k DEF RecordFailure
<1>11. CASE FailureNotified
  <2>1. told \subseteq told' /\ exit' = "fail" /\ pc' = "idle" /\ file' = file
    BY <1>11 DEF FailureNotified, Posted, PostFails
  <2>2. RunMessage("completed") \in told' => RunMessage("completed") \in told
    BY <1>11 DEF FailureNotified, Posted, PostFails, RunMessage
  <2> QED BY <2>1, <2>2
<1>12. CASE RecordSuccess BY <1>12, <1>k DEF RecordSuccess
<1>13. CASE SuccessNotified
  <2>1. /\ file' = file /\ file = "completed" /\ pc' = "idle" /\ told \subseteq told'
        /\ Settled = Specs /\ completed = Specs
    BY <1>13, <1>s DEF SuccessNotified, Posted, PostFails, BatchInv
  <2>2. CallbackURL => \A s \in Specs : <<"spec.completed", s, "completed">> \in told
    BY <1>13, <2>1 DEF SuccessNotified
  <2>3. exit' = "ok" => (CallbackURL => RunMessage("completed") \in told')
    BY <1>13 DEF SuccessNotified, Posted, PostFails
  <2>4. ~CallbackURL => told' = told
    BY <1>13 DEF SuccessNotified, Posted, PostFails
  <2>5. RunMessage("completed")' = RunMessage("completed")
    BY DEF RunMessage
  <2> QED BY <1>s, <2>1, <2>2, <2>3, <2>4, <2>5
<1>14. CASE Crash
  <2>1. /\ exit' = "none" /\ pc' = "idle" /\ told \subseteq told'
        /\ file' = file \/ file' = "torn"
    BY <1>14 DEF Crash
  <2>2. ASSUME RunMessage("completed") \in told', RunMessage("completed") \notin told
        PROVE  pc = "notifyCompleted" /\ CallbackURL /\ file' = file
    BY <1>14, <2>2 DEF Crash, UnderWay, RunMessage, SpecMessage
  <2>3. ASSUME RunMessage("completed") \in told'
        PROVE  /\ \A s \in Specs : <<"spec.completed", s, "completed">> \in told
               /\ file' # "absent"
    BY <2>1, <2>2, <2>3 DEF BatchInv
  <2>5. RunMessage("completed")' = RunMessage("completed")
    BY DEF RunMessage
  <2> QED BY <2>1, <2>3, <2>5
<1>15. CASE UNCHANGED vars
  BY <1>15 DEF vars, history, RunMessage, Settled
<1> QED
  BY <1>1, <1>2, <1>3, <1>4, <1>5, <1>6, <1>7, <1>8, <1>9, <1>10, <1>11, <1>12,
     <1>13, <1>14, <1>15 DEF Next, ProcessStep

(* A process that returns no error leaves every spec settled, the result   *)
(* file completed and the receiver told, who hears that the run is         *)
(* completed after it has heard so of every spec, for every WBS, also when *)
(* posts and saves fail and processes are killed and repeated.             *)
THEOREM SuccessSafe == Spec => []SuccessIsComplete
<1>1. Init => SuccessInv
  BY DEF Init, SuccessInv, SuccessIsComplete
<1>2. SuccessInv => SuccessIsComplete
  BY DEF SuccessInv
<1> QED
  BY <1>1, <1>2, WbsInvariant, SuccessStep, PTL DEF Spec

-----------------------------------------------------------------------------
(* Results that were completed.                                            *)

(* A spec that fails with all of them settled is one of the Spec Kit lane  *)
(* that succeeded once: Execute does not dispatch one that is finished,    *)
(* and one of a generic flow that has succeeded is.                        *)
RerunInv ==
  /\ \A s \in succeeded : Lane[s] = "flow" => s \in finished
  /\ pc = "execute" => cur \notin finished
  /\ pc = "notify" => verdict \in {"ok", "fail"}
  /\ pc = "failed" => verdict = "fail"
  /\ (pc \in {"notify", "failed"} /\ verdict = "fail" /\ file = "completed") =>
       Lane[cur] = "worktree" /\ cur \in succeeded

(* The account of failures and of what succeeded before them stays true.   *)
LEMMA RerunStep == TypeInv /\ ReportsAreTrue /\ RerunInv /\ [Next]_vars => RerunInv'
<1> SUFFICES ASSUME TypeInv, ReportsAreTrue, RerunInv, [Next]_vars PROVE RerunInv'
  OBVIOUS
<1> USE DEF RerunInv, Return, Goto, local, history
<1>1. CASE Start BY <1>1 DEF Start
<1>2. CASE Refuse BY <1>2 DEF Refuse
<1>3. CASE Scan BY <1>3 DEF Scan
<1>4. ASSUME NEW s \in Specs, NoExecutor(s) PROVE RerunInv'
  BY <1>4 DEF NoExecutor
<1>5. ASSUME NEW s \in Specs, Skip(s) PROVE RerunInv'
  BY <1>5 DEF Skip, Record
<1>6. ASSUME NEW s \in Specs, Dispatch(s) PROVE RerunInv'
  BY <1>6 DEF Dispatch
<1>7. CASE ExecutorReturns
  <2>1. cur \in Specs /\ Lane[cur] \in {"flow", "worktree"}
    BY <1>7, WbsAssumption DEF ExecutorReturns, TypeInv, CurInv
  <2>2. cur \notin finished /\ (file = "completed" => cur \in succeeded)
    BY <1>7, <2>1 DEF ExecutorReturns, ReportsAreTrue, Settled
  <2> QED BY <1>7, <2>1, <2>2 DEF ExecutorReturns, Record
<1>8. CASE SpecNotified BY <1>8 DEF SpecNotified
<1>9. CASE SpecNotifyFails BY <1>9 DEF SpecNotifyFails
<1>10. CASE RecordFailure BY <1>10 DEF RecordFailure
<1>11. CASE FailureNotified BY <1>11 DEF FailureNotified
<1>12. CASE RecordSuccess BY <1>12 DEF RecordSuccess
<1>13. CASE SuccessNotified BY <1>13 DEF SuccessNotified
<1>14. CASE Crash BY <1>14 DEF Crash
<1>15. CASE UNCHANGED vars BY <1>15 DEF vars, history
<1>16. CASE ResultUnwritten
  <2>1. cur \in Specs /\ Lane[cur] \in {"flow", "worktree"}
    BY <1>16, WbsAssumption DEF ResultUnwritten, TypeInv, CurInv
  <2>2. cur \notin finished /\ (file = "completed" => cur \in succeeded)
    BY <1>16, <2>1 DEF ResultUnwritten, ReportsAreTrue, Settled
  <2> QED BY <1>16, <2>1, <2>2 DEF ResultUnwritten, Record
<1> QED
  BY <1>1, <1>2, <1>3, <1>4, <1>5, <1>6, <1>7, <1>8, <1>9, <1>10, <1>11, <1>12,
     <1>13, <1>14, <1>15, <1>16 DEF Next, ProcessStep

(* The step that overwrites a completed result is that of recordFailure,   *)
(* and it is right that a spec failed again.                               *)
LEMMA OverwriteStep ==
  ASSUME RerunInv, [Next]_vars, file = "completed", file' \notin {"completed", "torn"}
  PROVE  verdict = "fail" /\ Lane[cur] = "worktree" /\ cur \in succeeded
<1>1. CASE RecordFailure
  BY <1>1 DEF RecordFailure, RerunInv
<1>2. CASE ~RecordFailure
  BY <1>2 DEF Next, ProcessStep, vars, history, Start, Refuse, Scan, NoExecutor, Skip, Dispatch,
     ExecutorReturns, ResultUnwritten, SpecNotified, SpecNotifyFails, FailureNotified,
     RecordSuccess, SuccessNotified, Crash
<1> QED
  BY <1>1, <1>2

(* A result file that says completed is overwritten, but for a save cut    *)
(* short, only after the Spec Kit lane has failed a spec that it had once  *)
(* returned without an error, for every WBS and any number of processes.   *)
THEOREM CompletedSafe == Spec => CompletedOutlivesReruns
<1>1. Init => RerunInv
  BY DEF Init, RerunInv
<1>2. RerunInv /\ [Next]_vars =>
        [(file = "completed" /\ file' \notin {"completed", "torn"})
           => verdict = "fail" /\ Lane[cur] = "worktree" /\ cur \in succeeded]_vars
  BY OverwriteStep
<1> QED
  BY <1>1, <1>2, WbsInvariant, ReportsSafe, RerunStep, PTL
     DEF Spec, CompletedOutlivesReruns

-----------------------------------------------------------------------------
(* Refinement.                                                             *)

(* The orchestrator implements DagSchedule: over all processes specs are   *)
(* settled one at a time and none before its dependencies, for every WBS.  *)
THEOREM WbsRefinement == Spec => ImplementsDag
<1>1. Init => Dag!Init
  BY DEF Init, Dag!Init, Settled
<1>2. TypeInv /\ BatchInv /\ [Next]_vars => [Dag!Next]_Settled
  <2> SUFFICES ASSUME TypeInv, BatchInv, [Next]_vars
               PROVE  Dag!Next \/ UNCHANGED Settled
    OBVIOUS
  <2>1. \/ UNCHANGED <<finished, succeeded>>
        \/ /\ pc = "execute"
           /\ Settled' \in {Settled, Settled \cup {cur}}
    <3>1. CASE ExecutorReturns
      <4>1. pc = "execute" BY <3>1 DEF ExecutorReturns
      <4>2. finished' \in {finished, finished \cup {cur}} BY <3>1 DEF ExecutorReturns
      <4>3. succeeded' \in {succeeded, succeeded \cup {cur}} BY <3>1 DEF ExecutorReturns
      <4> QED BY <4>1, <4>2, <4>3 DEF Settled
    <3>2. CASE Crash
      BY <3>2 DEF Crash, Settled, history
    <3>3. CASE ResultUnwritten
      BY <3>3 DEF ResultUnwritten, Settled
    <3>4. CASE ~ExecutorReturns /\ ~ResultUnwritten /\ ~Crash
      BY <3>4 DEF Next, ProcessStep, vars, history, Start, Refuse, Scan, NoExecutor, Skip,
         Dispatch, SpecNotified, SpecNotifyFails, RecordFailure, FailureNotified,
         RecordSuccess, SuccessNotified
    <3> QED BY <3>1, <3>2, <3>3, <3>4
  <2>2. CASE UNCHANGED <<finished, succeeded>>
    BY <2>2 DEF Settled
  <2>3. CASE pc = "execute" /\ Settled' \in {Settled, Settled \cup {cur}}
    <3>1. cur \in Specs /\ DependsOn[cur] \subseteq Settled
      BY <2>3 DEF TypeInv, CurInv, BatchInv
    <3>2. cur \in Settled \/ Settled' = Settled \/ Dag!Finish(cur)
      BY <2>3, <3>1 DEF Dag!Finish
    <3>3. cur \in Settled => UNCHANGED Settled
      BY <2>3
    <3> QED
      BY <3>1, <3>2, <3>3 DEF Dag!Next
  <2> QED
    BY <2>1, <2>2, <2>3
<1> QED
  BY <1>1, <1>2, WbsInvariant, PTL DEF Spec, ImplementsDag, Dag!Spec
=============================================================================
