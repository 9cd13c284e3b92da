------------------------------ MODULE SpecLaneProofs ---------------------------
(***************************************************************************)
(* Proofs about the Spec Kit lane and its journal, for branches that start *)
(* with or without the documents of an earlier spec, for any number of     *)
(* faults of any kind, and of processes.                                   *)
(***************************************************************************)
EXTENDS LaneJournal, FiniteSetTheorems, TLAPS

(* A process that does not get as far as the lane.                         *)
TurnedAway ==
  /\ at = "idle" /\ Return("fail")
  /\ UNCHANGED <<failed, mem, disk, art, git, faults, history>>

(* The steps of the lane, with its journal or without.                     *)
LaneNext == Next \/ TurnedAway

-----------------------------------------------------------------------------
(* The steps of spec-lane.yaml.                                            *)

StepNames == {"specify", "capture-feature-directory", "ensure-speckit-branch",
  "set-phase-input", "set-plan-input", "set-analyze-input", "capture-workflow-branch",
  "review-spec", "plan", "review-plan", "set-tasks-input", "tasks", "analyze",
  "analyze-clean", "tasks-remediation", "set-implement-input", "implement-review-loop",
  "issues-from-review", "commit-before-mergeback", "capture-mergeback-branch",
  "mergeback-attempt", "resolve-mergeback", "mergeback-finalize", "verify-mergeback",
  "implement", "code-review", "review-clean", "set-remediation-implement-input"}

(* What comes after what, outside of the loop.                             *)
Successors == {
  <<"specify", "capture-feature-directory">>,
  <<"capture-feature-directory", "ensure-speckit-branch">>,
  <<"ensure-speckit-branch", "set-phase-input">>,
  <<"set-phase-input", "set-plan-input">>,
  <<"set-plan-input", "set-analyze-input">>,
  <<"set-analyze-input", "capture-workflow-branch">>,
  <<"capture-workflow-branch", "review-spec">>, <<"review-spec", "plan">>,
  <<"plan", "review-plan">>, <<"review-plan", "set-tasks-input">>,
  <<"set-tasks-input", "tasks">>, <<"tasks", "analyze">>,
  <<"analyze", "analyze-clean">>, <<"analyze-clean", "tasks-remediation">>,
  <<"tasks-remediation", "set-implement-input">>,
  <<"set-implement-input", "implement">>,
  <<"implement-review-loop", "issues-from-review">>,
  <<"issues-from-review", "commit-before-mergeback">>,
  <<"commit-before-mergeback", "capture-mergeback-branch">>,
  <<"capture-mergeback-branch", "mergeback-attempt">>,
  <<"mergeback-attempt", "resolve-mergeback">>,
  <<"resolve-mergeback", "mergeback-finalize">>,
  <<"mergeback-finalize", "verify-mergeback">> }

(* The sequence that spec-lane.yaml lists.                                 *)
LEMMA LaneIs ==
  /\ Positions = 1..24 /\ Len(Lane) = 24
  /\ Lane[1] = "specify" /\ Lane[2] = "capture-feature-directory"
  /\ Lane[3] = "ensure-speckit-branch" /\ Lane[4] = "set-phase-input"
  /\ Lane[5] = "set-plan-input" /\ Lane[6] = "set-analyze-input"
  /\ Lane[7] = "capture-workflow-branch" /\ Lane[8] = "review-spec"
  /\ Lane[9] = "plan" /\ Lane[10] = "review-plan" /\ Lane[11] = "set-tasks-input"
  /\ Lane[12] = "tasks" /\ Lane[13] = "analyze" /\ Lane[14] = "analyze-clean"
  /\ Lane[15] = "tasks-remediation" /\ Lane[16] = "set-implement-input"
  /\ Lane[17] = "implement-review-loop" /\ Lane[18] = "issues-from-review"
  /\ Lane[19] = "commit-before-mergeback" /\ Lane[20] = "capture-mergeback-branch"
  /\ Lane[21] = "mergeback-attempt" /\ Lane[22] = "resolve-mergeback"
  /\ Lane[23] = "mergeback-finalize" /\ Lane[24] = "verify-mergeback"
  BY DEF Positions, Lane

(* The steps of its loop.                                                  *)
LEMMA LoopIs ==
  /\ DOMAIN Loop = 1..4 /\ Len(Loop) = 4
  /\ Loop[1] = "implement" /\ Loop[2] = "code-review" /\ Loop[3] = "review-clean"
  /\ Loop[4] = "set-remediation-implement-input"
  BY DEF Loop

(* A process is at one of these steps.                                     *)
LEMMA NamesAre ==
  {"idle"} \cup {Lane[i] : i \in Positions} \cup {Loop[i] : i \in DOMAIN Loop}
    = {"idle"} \cup StepNames
<1>1. {Lane[i] : i \in Positions} \subseteq StepNames
  BY LaneIs DEF StepNames
<1>2. {Loop[i] : i \in DOMAIN Loop} \subseteq StepNames
  BY LoopIs DEF StepNames
<1>3. StepNames \subseteq {Lane[i] : i \in Positions} \cup {Loop[i] : i \in DOMAIN Loop}
  <2>1. \A i \in 1..24 : Lane[i] \in {Lane[j] : j \in Positions}
    BY LaneIs
  <2>2. \A i \in 1..4 : Loop[i] \in {Loop[j] : j \in DOMAIN Loop}
    BY LoopIs
  <2> QED BY <2>1, <2>2, LaneIs, LoopIs DEF StepNames
<1> QED
  BY <1>1, <1>2, <1>3

(* A step that is saved is followed by its successor.                      *)
LEMMA SaveMoves ==
  ASSUME Save
  PROVE  /\ phase = "save" /\ phase' = "run" /\ disk' = mem
         /\ UNCHANGED <<failed, mem, art, git, faults, history>>
         /\ \/ /\ <<at, at'>> \in Successors /\ exit' = exit
               /\ iter' = 1 /\ tries' = Retries(at')
            \/ /\ at = "verify-mergeback" /\ at' = "idle"
               /\ exit' = (IF failed THEN "fail" ELSE "ok") /\ UNCHANGED <<iter, tries>>
<1>1. PICK i \in Positions :
       /\ at = Lane[i]
       /\ IF i < Len(Lane) THEN Enter(Lane[i + 1]) /\ UNCHANGED exit
                           ELSE Return(IF failed THEN "fail" ELSE "ok")
  BY DEF Save
<1>2. i \in 1..24 BY LaneIs
<1>3. CASE i = 24
   BY <1>1, <1>3, LaneIs DEF Save, Return
<1>4. CASE i < 24
  <2>1. i \in 1..23 BY <1>2, <1>4
  <2>2. Enter(Lane[i+1]) /\ exit' = exit BY <1>1, <1>4, LaneIs
  <2>3. Lane[i+1] = "implement-review-loop" <=> i = 16
    BY <2>1, LaneIs
  <2>4. /\ at' = IF i = 16 THEN "implement" ELSE Lane[i+1]
        /\ phase' = "run" /\ iter' = 1 /\ tries' = Retries(Lane[i+1])
    BY <2>2, <2>3, LoopIs DEF Enter
  <2>5. tries' = Retries(at')
    BY <2>3, <2>4 DEF Retries
  <2>6. <<at, at'>> \in Successors
    BY <1>1, <2>1, <2>4, LaneIs DEF Successors
  <2> QED BY <2>2, <2>4, <2>5, <2>6 DEF Save
<1> QED BY <1>2, <1>3, <1>4

(* The loop goes on with its next step, begins again, or is over.          *)
LEMMA AdvanceMoves ==
  ASSUME Advance
  PROVE  /\ phase = "save"
         /\ UNCHANGED <<tries, failed, exit, mem, disk, art, git, faults, fresh, merged,
                        fixes>>
         /\ unfinished' = (unfinished \/ (at' = "implement-review-loop" /\ ~LoopIsDone))
         /\ \/ /\ <<at, at'>> \in {<<"implement", "code-review">>,
                                   <<"code-review", "review-clean">>,
                                   <<"review-clean", "set-remediation-implement-input">>}
               /\ phase' = "run" /\ iter' = iter
            \/ /\ at = "set-remediation-implement-input" /\ at' = "implement-review-loop"
               /\ (art.review = "clean" \/ iter = MaxIterations)
               /\ phase' = "save" /\ iter' = iter
            \/ /\ at = "set-remediation-implement-input" /\ at' = "implement"
               /\ art.review # "clean" /\ iter < MaxIterations
               /\ phase' = "run" /\ iter' = iter + 1
<1>1. PICK i \in DOMAIN Loop :
       /\ at = Loop[i]
       /\ \/ i < Len(Loop) /\ at' = Loop[i + 1] /\ phase' = "run" /\ UNCHANGED iter
          \/ /\ i = Len(Loop) /\ (art.review = "clean" \/ iter = MaxIterations)
             /\ at' = "implement-review-loop" /\ UNCHANGED <<iter, phase>>
          \/ /\ i = Len(Loop) /\ art.review # "clean" /\ iter < MaxIterations
             /\ at' = Loop[1] /\ phase' = "run" /\ iter' = iter + 1
  BY DEF Advance
<1>2. i \in 1..4
  BY LoopIs
<1> QED
  BY <1>1, <1>2, LoopIs DEF Advance

-----------------------------------------------------------------------------
(* Where a lane is resumed.                                                *)

SpecDone     == art.spec = "concrete"
PlanDone     == art.plan = "concrete"
TasksDone    == art.tasks \in {"open", "checked"}
AnalyzeDone  == art.analyze # "none"
FindingsDone == ~(art.analyze = "blocking" /\ ~art.touched)

(* All stages up to the mergeback.                                         *)
StagesDone ==
  SpecDone /\ PlanDone /\ TasksDone /\ AnalyzeDone /\ FindingsDone /\ LoopIsDone /\ art.issues

ResumePoints == {"specify", "plan", "tasks", "analyze", "tasks-remediation",
  "implement-review-loop", "issues-from-review", "resolve-mergeback",
  "mergeback-finalize", "commit-before-mergeback"}

(* What the assessment asks, entry by entry.                               *)
LEMMA OpenIs ==
  /\ DOMAIN Open(art) = 1..10
  /\ Open(art)[1][1] = "specify" /\ (Open(art)[1][2] <=> ~SpecDone)
  /\ Open(art)[2][1] = "plan" /\ (Open(art)[2][2] <=> ~PlanDone)
  /\ Open(art)[3][1] = "tasks" /\ (Open(art)[3][2] <=> ~TasksDone)
  /\ Open(art)[4][1] = "analyze" /\ (Open(art)[4][2] <=> ~AnalyzeDone)
  /\ Open(art)[5][1] = "tasks-remediation" /\ (Open(art)[5][2] <=> ~FindingsDone)
  /\ Open(art)[6][1] = "implement-review-loop" /\ (Open(art)[6][2] <=> ~LoopIsDone)
  /\ Open(art)[7][1] = "issues-from-review" /\ (Open(art)[7][2] <=> ~art.issues)
  /\ Open(art)[8][1] = "resolve-mergeback"
  /\ (Open(art)[8][2] <=> ~art.final /\ art.attempt = "conflict")
  /\ Open(art)[9][1] = "mergeback-finalize"
  /\ (Open(art)[9][2] <=> ~art.final /\ art.attempt = "rebased")
  /\ Open(art)[10][1] = "commit-before-mergeback" /\ (Open(art)[10][2] <=> ~art.final)
<1> USE DEF Open, SpecDone, PlanDone, TasksDone, AnalyzeDone, FindingsDone, LoopIsDone
<1>0. DOMAIN Open(art) = 1..10
  OBVIOUS
<1>1. Open(art)[1][1] = "specify" /\ (Open(art)[1][2] <=> ~SpecDone)
  OBVIOUS
<1>2. Open(art)[2][1] = "plan" /\ (Open(art)[2][2] <=> ~PlanDone)
  OBVIOUS
<1>3. Open(art)[3][1] = "tasks" /\ (Open(art)[3][2] <=> ~TasksDone)
  OBVIOUS
<1>4. Open(art)[4][1] = "analyze" /\ (Open(art)[4][2] <=> ~AnalyzeDone)
  OBVIOUS
<1>5. Open(art)[5][1] = "tasks-remediation" /\ (Open(art)[5][2] <=> ~FindingsDone)
  OBVIOUS
<1>6. Open(art)[6][1] = "implement-review-loop" /\ (Open(art)[6][2] <=> ~LoopIsDone)
  OBVIOUS
<1>7. Open(art)[7][1] = "issues-from-review" /\ (Open(art)[7][2] <=> ~art.issues)
  OBVIOUS
<1>8. /\ Open(art)[8][1] = "resolve-mergeback"
      /\ (Open(art)[8][2] <=> ~art.final /\ art.attempt = "conflict")
  OBVIOUS
<1>9. /\ Open(art)[9][1] = "mergeback-finalize"
      /\ (Open(art)[9][2] <=> ~art.final /\ art.attempt = "rebased")
  OBVIOUS
<1>10. Open(art)[10][1] = "commit-before-mergeback" /\ (Open(art)[10][2] <=> ~art.final)
  OBVIOUS
<1> QED
  BY <1>0, <1>1, <1>2, <1>3, <1>4, <1>5, <1>6, <1>7, <1>8, <1>9, <1>10

(* A lane is resumed at a stage only if those before it are done.          *)
LEMMA ResumeFacts ==
  ASSUME NEW s, ResumesAt(s)
  PROVE  /\ s \in ResumePoints
         /\ s = "specify" => ~SpecDone
         /\ s # "specify" => SpecDone
         /\ s = "plan" => ~PlanDone
         /\ s \notin {"specify", "plan"} => PlanDone
         /\ s = "tasks" => ~TasksDone
         /\ s \notin {"specify", "plan", "tasks"} => TasksDone
         /\ s = "analyze" => ~AnalyzeDone
         /\ s \notin {"specify", "plan", "tasks", "analyze"} => AnalyzeDone
         /\ s = "tasks-remediation" => ~FindingsDone
         /\ s \notin {"specify", "plan", "tasks", "analyze", "tasks-remediation"} =>
              FindingsDone
         /\ s = "implement-review-loop" => ~LoopIsDone
         /\ s \in {"issues-from-review", "resolve-mergeback", "mergeback-finalize",
                   "commit-before-mergeback"} => LoopIsDone
         /\ s = "issues-from-review" => ~art.issues
         /\ s \in {"resolve-mergeback", "mergeback-finalize", "commit-before-mergeback"} =>
              art.issues /\ ~art.final
         /\ s = "resolve-mergeback" => art.attempt = "conflict"
         /\ s = "mergeback-finalize" => art.attempt = "rebased"
         /\ s = "commit-before-mergeback" => art.attempt \notin {"conflict", "rebased"}
<1>1. PICK i \in DOMAIN Open(art) :
        /\ Open(art)[i] = <<s, TRUE>>
        /\ \A j \in 1 .. i - 1 : ~Open(art)[j][2]
  BY DEF ResumesAt
<1>2. i \in 1..10
  BY OpenIs
<1>3. Open(art)[i][1] = s /\ Open(art)[i][2]
  BY <1>1
<1>4. \A j \in 1..10 : j < i => ~Open(art)[j][2]
  BY <1>1, <1>2
<1>5. /\ i > 1 => SpecDone
      /\ i > 2 => PlanDone
      /\ i > 3 => TasksDone
      /\ i > 4 => AnalyzeDone
      /\ i > 5 => FindingsDone
      /\ i > 6 => LoopIsDone
      /\ i > 7 => art.issues
      /\ i > 8 => (art.final \/ art.attempt # "conflict")
      /\ i > 9 => (art.final \/ art.attempt # "rebased")
  BY <1>2, <1>4, OpenIs
<1>6. /\ i = 1 => s = "specify" /\ ~SpecDone
      /\ i = 2 => s = "plan" /\ ~PlanDone
      /\ i = 3 => s = "tasks" /\ ~TasksDone
      /\ i = 4 => s = "analyze" /\ ~AnalyzeDone
      /\ i = 5 => s = "tasks-remediation" /\ ~FindingsDone
      /\ i = 6 => s = "implement-review-loop" /\ ~LoopIsDone
      /\ i = 7 => s = "issues-from-review" /\ ~art.issues
      /\ i = 8 => s = "resolve-mergeback" /\ ~art.final /\ art.attempt = "conflict"
      /\ i = 9 => s = "mergeback-finalize" /\ ~art.final /\ art.attempt = "rebased"
      /\ i = 10 => s = "commit-before-mergeback" /\ ~art.final
  BY <1>3, OpenIs
<1> QED
  BY <1>2, <1>5, <1>6 DEF ResumePoints

(* A lane is completed when all stages are, and the mergeback is recorded. *)
LEMMA CompletedIs == Completed <=> StagesDone /\ art.final
  BY OpenIs DEF Completed, StagesDone

(* A lane that is resumed goes on at the step, or at the head of the loop. *)
LEMMA ResumeMoves ==
  ASSUME ResumeLane
  PROVE  /\ at = "idle" /\ ~Completed /\ phase' = "run" /\ iter' = 1 /\ tries' = Retries(at')
         /\ failed' = FALSE /\ exit' = "none"
         /\ disk.exists /\ mem' = disk /\ UNCHANGED <<disk, art, git, faults, history>>
         /\ \E s \in ResumePoints \ {"specify"} :
              ResumesAt(s) /\ at' = IF s = "implement-review-loop" THEN "implement" ELSE s
<1>1. PICK i \in Positions : ResumesAt(Lane[i]) /\ Enter(Lane[i])
  BY DEF ResumeLane
<1>2. Lane[i] \in ResumePoints /\ Lane[i] # "specify"
  BY <1>1, ResumeFacts DEF ResumeLane
<1>3. /\ at' = IF Lane[i] = "implement-review-loop" THEN "implement" ELSE Lane[i]
      /\ phase' = "run" /\ iter' = 1 /\ tries' = Retries(Lane[i])
  BY <1>1, LoopIs DEF Enter
<1>4. tries' = Retries(at')
  BY <1>3 DEF Retries
<1> QED
  BY <1>1, <1>2, <1>3, <1>4 DEF ResumeLane

-----------------------------------------------------------------------------
(* What has been done by the time that a process is at a step.             *)

(* The steps from the one that merges, is behind the review, and so on.    *)
Finalized == {"verify-mergeback"}
Attempted == {"resolve-mergeback", "mergeback-finalize"} \cup Finalized
Merging   == {"commit-before-mergeback", "capture-mergeback-branch", "mergeback-attempt"}
               \cup Attempted
Looped    == {"implement-review-loop", "issues-from-review"} \cup Merging
Looping   == {"implement", "code-review", "review-clean", "set-remediation-implement-input"}
Analyzed  == {"analyze-clean", "tasks-remediation", "set-implement-input"}
               \cup Looping \cup Looped
Tasked    == {"analyze"} \cup Analyzed
Planned   == {"review-plan", "set-tasks-input", "tasks"} \cup Tasked
Specified == {"capture-feature-directory", "ensure-speckit-branch", "set-phase-input",
              "set-plan-input", "set-analyze-input", "capture-workflow-branch",
              "review-spec", "plan"} \cup Planned

(* A process has the step behind it, whose successors are these.           *)
Past(step, successors) == at \in successors \/ (at = step /\ phase = "save")

(* The loop is never failed itself; only the three commands that make a    *)
(* document are tried twice.                                               *)
ControlInv ==
  /\ at = "idle" => phase = "run"
  /\ at = "implement-review-loop" => phase = "save"
  /\ at \notin {"idle", "specify", "plan", "tasks"} => tries = 0

(* The artifacts that the stages before leave, good ones or not.           *)
LeftInv ==
  /\ Past("specify", Specified) => art.spec # "none"
  /\ Past("plan", Planned) => art.plan # "none"
  /\ Past("tasks", Tasked) => art.tasks # "none"
  /\ Past("analyze", Analyzed) => art.analyze # "none"
  /\ Past("code-review", (Looping \ {"implement", "code-review"}) \cup Looped) =>
       art.review # "none"
  /\ Past("issues-from-review", Merging) => art.issues
  /\ Past("mergeback-attempt", Attempted) => art.attempt # "none"
  /\ Past("mergeback-finalize", Finalized) => art.final

(* tasks.md was written after the analysis if it was remediated.           *)
FixesInv ==
  /\ fixes \in 0..1
  /\ fixes > 0 => art.touched
  /\ at = "analyze-clean" \/ Runs("tasks-remediation") \/ (at = "analyze" /\ phase = "save")
       => fixes = 0

-----------------------------------------------------------------------------
(* Types.                                                                  *)

(* The variables of the lane.                                              *)
LEMMA VariablesAre ==
  /\ Variables = {"feature_directory", "phase_input", "plan_input", "analyze_input",
                  "tasks_input", "implement_input", "analyze", "code-review",
                  "current_branch"}
  /\ \A s : {b[2] : b \in {c \in Binds : c[1] = s}} \subseteq Variables
<1>1. {b[2] : b \in Binds} = {"feature_directory", "phase_input", "plan_input",
                              "analyze_input", "tasks_input", "implement_input"}
  BY DEF Binds
<1>2. \A s : {b[2] : b \in {c \in Binds : c[1] = s}} \subseteq {b[2] : b \in Binds}
  OBVIOUS
<1> QED
  BY <1>1, <1>2 DEF Variables

(* A step that fails, for a reason or another, or does not.                *)
LEMMA FaultsStep ==
  [LaneNext]_vars => (faults' = faults \/ \E k \in Kinds : Fault(k))
<1> SUFFICES ASSUME [LaneNext]_vars PROVE (faults' = faults \/ \E k \in Kinds : Fault(k))
  OBVIOUS
<1>k. \A k : Fault(k) => k \in Kinds
  BY DEF Fault
<1> USE <1>k DEF Runs, AgentFails, NoFault, history
<1>1. CASE StartLane
  BY <1>1 DEF StartLane, Enter, Retries, Blank
<1>2. CASE ResumeLane
  BY <1>2, ResumeMoves DEF ResumeLane, Enter, Retries
<1>3. CASE ResumeFails
  BY <1>3 DEF ResumeFails, Return
<1>4. CASE SkipLane
  BY <1>4 DEF SkipLane, Return
<1>5. CASE Specify
  BY <1>5 DEF Specify, Generate, Writes
<1>6. CASE Plan
  BY <1>6 DEF Plan, Generate, Writes
<1>7. CASE Tasks
  BY <1>7 DEF Tasks, Generate, Writes
<1>8. CASE Analyze
  BY <1>8 DEF Analyze
<1>9. CASE AnalyzeClean
  BY <1>9 DEF AnalyzeClean
<1>10. CASE Remediate
  BY <1>10 DEF Remediate, Writes
<1>11. CASE Implement
  BY <1>11 DEF Implement, Writes
<1>12. CASE CodeReview
  BY <1>12 DEF CodeReview
<1>13. CASE ReviewClean
  BY <1>13 DEF ReviewClean
<1>14. CASE Issues
  BY <1>14 DEF Issues
<1>15. CASE EnsureBranch
  BY <1>15 DEF EnsureBranch
<1>16. ASSUME NEW s \in Plain, Plainly(s) PROVE (faults' = faults \/ \E k \in Kinds : Fault(k))
  BY <1>16 DEF Plainly, Plain, Bind
<1>17. ASSUME NEW s \in {"capture-workflow-branch", "capture-mergeback-branch"},
              CaptureBranch(s)
       PROVE  (faults' = faults \/ \E k \in Kinds : Fault(k))
  BY <1>17 DEF CaptureBranch, Bind
<1>18. CASE MergebackAttempt
  BY <1>18 DEF MergebackAttempt, Conflict
<1>19. CASE ResolveMergeback
  BY <1>19 DEF ResolveMergeback
<1>20. CASE Finalize
  BY <1>20 DEF Finalize, FinalizePart
<1>21. CASE Advance
  BY <1>21, AdvanceMoves DEF Advance
<1>22. CASE Save
  BY <1>22, SaveMoves DEF Save
<1>23. CASE CommitFails
  BY <1>23 DEF CommitFails, Return
<1>24. CASE SaveFailed
  BY <1>24 DEF SaveFailed, Return
<1>25. CASE Crash
  BY <1>25 DEF Crash, Return, FinalizePart, Conflict
<1>26. CASE TurnedAway
  BY <1>26 DEF TurnedAway, Return
<1>27. CASE UNCHANGED vars
  BY <1>27 DEF vars
<1> QED
  BY <1>1, <1>2, <1>3, <1>4, <1>5, <1>6, <1>7, <1>8, <1>9, <1>10,
     <1>11, <1>12, <1>13, <1>14, <1>15, <1>16, <1>17, <1>18, <1>19, <1>20,
     <1>21, <1>22, <1>23, <1>24, <1>25, <1>26, <1>27
     DEF LaneNext, Next, Begin, Step

(* The artifacts keep their types.                                         *)
LEMMA ArtifactsStep == art \in Artifacts /\ [LaneNext]_vars => art' \in Artifacts
<1> SUFFICES ASSUME art \in Artifacts, [LaneNext]_vars PROVE art' \in Artifacts
  OBVIOUS
<1> USE DEF Runs, Succeeds, Fails, Tolerated, AgentFails, Fault, NoFault, process,
            history, Artifacts
<1>1. CASE StartLane
  BY <1>1 DEF StartLane
<1>2. CASE ResumeLane
  BY <1>2, ResumeMoves DEF ResumeLane, Enter, Retries
<1>3. CASE ResumeFails
  BY <1>3 DEF ResumeFails, Return
<1>4. CASE SkipLane
  BY <1>4 DEF SkipLane, Return
<1>5. CASE Specify
  BY <1>5, ZenonT(60) DEF Specify, Generate, Writes
<1>6. CASE Plan
  BY <1>6, ZenonT(60) DEF Plan, Generate, Writes
<1>7. CASE Tasks
  BY <1>7, ZenonT(60) DEF Tasks, Generate, Writes
<1>8. CASE Analyze
  BY <1>8, ZenonT(60) DEF Analyze
<1>9. CASE AnalyzeClean
  BY <1>9 DEF AnalyzeClean
<1>10. CASE Remediate
  BY <1>10 DEF Remediate, Writes
<1>11. CASE Implement
  BY <1>11 DEF Implement, Writes
<1>12. CASE CodeReview
  BY <1>12 DEF CodeReview
<1>13. CASE ReviewClean
  BY <1>13 DEF ReviewClean
<1>14. CASE Issues
  BY <1>14 DEF Issues
<1>15. CASE EnsureBranch
  BY <1>15 DEF EnsureBranch
<1>16. ASSUME NEW s \in Plain, Plainly(s) PROVE art' \in Artifacts
  BY <1>16 DEF Plainly, Plain, Bind
<1>17. ASSUME NEW s \in {"capture-workflow-branch", "capture-mergeback-branch"},
              CaptureBranch(s)
       PROVE  art' \in Artifacts
  BY <1>17 DEF CaptureBranch, Bind
<1>18. CASE MergebackAttempt
  BY <1>18 DEF MergebackAttempt, Conflict
<1>19. CASE ResolveMergeback
  BY <1>19 DEF ResolveMergeback
<1>20. CASE Finalize
  BY <1>20 DEF Finalize, FinalizePart
<1>21. CASE Advance
  BY <1>21, AdvanceMoves DEF Advance
<1>22. CASE Save
  BY <1>22, SaveMoves DEF Save
<1>23. CASE CommitFails
  BY <1>23 DEF CommitFails, Return
<1>24. CASE SaveFailed
  BY <1>24 DEF SaveFailed, Return
<1>25. CASE Crash
  BY <1>25 DEF Crash, Return, FinalizePart, Conflict
<1>26. CASE TurnedAway
  BY <1>26 DEF TurnedAway, Return
<1>27. CASE UNCHANGED vars
  BY <1>27 DEF vars
<1> QED
  BY <1>1, <1>2, <1>3, <1>4, <1>5, <1>6, <1>7, <1>8, <1>9, <1>10,
     <1>11, <1>12, <1>13, <1>14, <1>15, <1>16, <1>17, <1>18, <1>19, <1>20,
     <1>21, <1>22, <1>23, <1>24, <1>25, <1>26, <1>27
     DEF LaneNext, Next, Begin, Step

(* In a rebase, the branch that it is about is known.                      *)
WorktreeInv == git \in Worktrees /\ (git.head = "rebasing" => git.rebase # "")

(* What the worktree has checked out, and in a rebase the branch it is     *)
(* about, is one of the branches there may be.                             *)
LEMMA WorktreesStep == mem \in Records /\ WorktreeInv /\ [LaneNext]_vars => WorktreeInv'
<1> SUFFICES ASSUME mem \in Records, WorktreeInv, [LaneNext]_vars PROVE WorktreeInv'
  OBVIOUS
<1>p. 4 \in 1..4
  OBVIOUS
<1>f. ASSUME NEW n \in 1..4, FinalizePart(n) PROVE WorktreeInv'
  <2>1. git' = [git EXCEPT !.head = IF n < 4 THEN "target" ELSE "detached",
                           !.branches = IF n < 3 THEN git.branches
                                                 ELSE git.branches \ {mem.branch}]
    BY <1>f DEF FinalizePart
  <2>2. /\ git'.head \in {"target", "detached"} /\ git'.rebase = git.rebase
        /\ git'.branches \in {git.branches, git.branches \ {mem.branch}}
    BY <2>1 DEF WorktreeInv, Worktrees
  <2>3. git' = [head |-> git'.head, branches |-> git'.branches, rebase |-> git'.rebase]
    BY <2>1 DEF WorktreeInv, Worktrees
  <2> QED BY <2>2, <2>3 DEF WorktreeInv, Worktrees
<1> USE DEF Runs, Succeeds, Fails, Tolerated, AgentFails, Fault, NoFault, process,
            history, Worktrees, Records, WorktreeInv
<1>1. CASE StartLane
  BY <1>1 DEF StartLane, Enter, Retries, Blank
<1>2. CASE ResumeLane
  BY <1>2, ResumeMoves DEF ResumeLane, Enter, Retries
<1>3. CASE ResumeFails
  BY <1>3 DEF ResumeFails, Return
<1>4. CASE SkipLane
  BY <1>4 DEF SkipLane, Return
<1>5. CASE Specify
  BY <1>5 DEF Specify, Generate, Writes
<1>6. CASE Plan
  BY <1>6 DEF Plan, Generate, Writes
<1>7. CASE Tasks
  BY <1>7 DEF Tasks, Generate, Writes
<1>8. CASE Analyze
  BY <1>8 DEF Analyze
<1>9. CASE AnalyzeClean
  BY <1>9 DEF AnalyzeClean
<1>10. CASE Remediate
  BY <1>10 DEF Remediate, Writes
<1>11. CASE Implement
  BY <1>11 DEF Implement, Writes
<1>12. CASE CodeReview
  BY <1>12 DEF CodeReview
<1>13. CASE ReviewClean
  BY <1>13 DEF ReviewClean
<1>14. CASE Issues
  BY <1>14 DEF Issues
<1>15. CASE EnsureBranch
  BY <1>15, ZenonT(60) DEF EnsureBranch
<1>16. ASSUME NEW s \in Plain, Plainly(s) PROVE WorktreeInv'
  BY <1>16 DEF Plainly, Plain, Bind
<1>17. ASSUME NEW s \in {"capture-workflow-branch", "capture-mergeback-branch"},
              CaptureBranch(s)
       PROVE  WorktreeInv'
  BY <1>17 DEF CaptureBranch, Bind
<1>18. CASE MergebackAttempt
  BY <1>18 DEF MergebackAttempt, Conflict
<1>19. CASE ResolveMergeback
  BY <1>19 DEF ResolveMergeback
<1>20. CASE Finalize
  <2>1. \/ git' = git
        \/ git' = [git EXCEPT !.head = "target"]
        \/ git' = [git EXCEPT !.head = IF git.head = "target" THEN "detached" ELSE git.head]
        \/ FinalizePart(4)
        \/ \E n \in 1..4 : FinalizePart(n)
    BY <1>20 DEF Finalize
  <2>2. git' = [git EXCEPT !.head = "target"] => WorktreeInv'
    OBVIOUS
  <2>3. git' = [git EXCEPT !.head = IF git.head = "target" THEN "detached" ELSE git.head]
          => WorktreeInv'
    OBVIOUS
  <2>4. git' = git => WorktreeInv'
    OBVIOUS
  <2>6. FinalizePart(4) => WorktreeInv'
    BY <1>f, <1>p, Zenon
  <2> QED BY <2>1, <2>2, <2>3, <2>4, <2>6, <1>f
<1>21. CASE Advance
  BY <1>21, AdvanceMoves DEF Advance
<1>22. CASE Save
  BY <1>22, SaveMoves DEF Save
<1>23. CASE CommitFails
  BY <1>23 DEF CommitFails, Return
<1>24. CASE SaveFailed
  BY <1>24 DEF SaveFailed, Return
<1>25. CASE Crash
  <2>1. git' = git \/ (mem.branch \in git.branches /\ Conflict) \/ \E n \in 1..4 : FinalizePart(n)
    BY <1>25 DEF Crash
  <2>2. CASE mem.branch \in git.branches /\ Conflict
    BY <2>2 DEF Conflict
  <2> QED BY <2>1, <2>2, <1>f
<1>26. CASE TurnedAway
  BY <1>26 DEF TurnedAway, Return
<1>27. CASE UNCHANGED vars
  BY <1>27 DEF vars
<1> QED
  BY <1>1, <1>2, <1>3, <1>4, <1>5, <1>6, <1>7, <1>8, <1>9, <1>10,
     <1>11, <1>12, <1>13, <1>14, <1>15, <1>16, <1>17, <1>18, <1>19, <1>20,
     <1>21, <1>22, <1>23, <1>24, <1>25, <1>26, <1>27
     DEF LaneNext, Next, Begin, Step

(* The variables that are bound are those of the lane.                     *)
LEMMA RecordsStep ==
  mem \in Records /\ disk \in Records /\ git \in Worktrees /\ [LaneNext]_vars
    => (mem \in Records /\ disk \in Records)'
<1> SUFFICES ASSUME mem \in Records, disk \in Records, git \in Worktrees,
                    [LaneNext]_vars
             PROVE  (mem \in Records /\ disk \in Records)'
  OBVIOUS
<1>b. ASSUME NEW x \in SUBSET Variables, NEW r \in Records
      PROVE  [r EXCEPT !.bound = r.bound \cup x] \in Records
  BY DEF Records
<1> USE DEF Runs, Succeeds, Fails, Tolerated, AgentFails, Fault, NoFault, process,
            history, Worktrees, Records
<1>1. CASE StartLane
  BY <1>1, VariablesAre DEF StartLane, Enter, Retries, Blank
<1>2. CASE ResumeLane
  BY <1>2, ResumeMoves, VariablesAre DEF ResumeLane, Enter, Retries
<1>3. CASE ResumeFails
  BY <1>3, VariablesAre DEF ResumeFails, Return
<1>4. CASE SkipLane
  BY <1>4, VariablesAre DEF SkipLane, Return
<1>5. CASE Specify
  BY <1>5, VariablesAre DEF Specify, Generate, Writes
<1>6. CASE Plan
  BY <1>6, VariablesAre DEF Plan, Generate, Writes
<1>7. CASE Tasks
  BY <1>7, VariablesAre DEF Tasks, Generate, Writes
<1>8. CASE Analyze
  <2>1. {"analyze"} \subseteq Variables BY VariablesAre
  <2>2. \/ mem' = mem
        \/ \E v \in {"clean", "blocking"} :
             mem' = [mem EXCEPT !.analyze = v, !.bound = mem.bound \cup {"analyze"}]
    BY <1>8 DEF Analyze
  <2>3. disk' = disk BY <1>8 DEF Analyze
  <2>4. \A v \in {"clean", "blocking"} :
          [mem EXCEPT !.analyze = v, !.bound = mem.bound \cup {"analyze"}] \in Records
    BY <2>1 DEF Records
  <2>5. mem' \in Records BY <2>2, <2>4
  <2> QED BY <2>3, <2>5
<1>9. CASE AnalyzeClean
  BY <1>9, VariablesAre DEF AnalyzeClean
<1>10. CASE Remediate
  BY <1>10, VariablesAre DEF Remediate, Writes
<1>11. CASE Implement
  BY <1>11, VariablesAre DEF Implement, Writes
<1>12. CASE CodeReview
  <2>1. {"code-review"} \subseteq Variables BY VariablesAre
  <2>2. mem' = mem \/ mem' = [mem EXCEPT !.bound = mem.bound \cup {"code-review"}]
    BY <1>12 DEF CodeReview
  <2>3. [mem EXCEPT !.bound = mem.bound \cup {"code-review"}] \in Records BY <2>1, <1>b
  <2>5. mem' \in Records BY <2>2, <2>3
  <2>4. disk' = disk BY <1>12 DEF CodeReview
  <2> QED BY <2>4, <2>5
<1>13. CASE ReviewClean
  BY <1>13, VariablesAre DEF ReviewClean
<1>14. CASE Issues
  BY <1>14, VariablesAre DEF Issues
<1>15. CASE EnsureBranch
  BY <1>15, VariablesAre DEF EnsureBranch
<1>16. ASSUME NEW s \in Plain, Plainly(s) PROVE (mem \in Records /\ disk \in Records)'
  <2>1. mem' = mem \/ mem' = Bind({b[2] : b \in {c \in Binds : c[1] = s}})
    BY <1>16 DEF Plainly
  <2>2. {b[2] : b \in {c \in Binds : c[1] = s}} \subseteq Variables BY VariablesAre, ZenonT(60)
  <2>3. Bind({b[2] : b \in {c \in Binds : c[1] = s}}) \in Records BY <2>2, <1>b DEF Bind
  <2>4. mem' \in Records BY <2>1, <2>3
  <2>5. disk' = disk BY <1>16 DEF Plainly
  <2> QED BY <2>4, <2>5
<1>17. ASSUME NEW s \in {"capture-workflow-branch", "capture-mergeback-branch"},
              CaptureBranch(s)
       PROVE  (mem \in Records /\ disk \in Records)'
  BY <1>17, VariablesAre DEF CaptureBranch, Bind
<1>18. CASE MergebackAttempt
  BY <1>18, VariablesAre DEF MergebackAttempt, Conflict
<1>19. CASE ResolveMergeback
  BY <1>19, VariablesAre DEF ResolveMergeback
<1>20. CASE Finalize
  BY <1>20, VariablesAre DEF Finalize, FinalizePart
<1>21. CASE Advance
  BY <1>21, AdvanceMoves, VariablesAre, ZenonT(60) DEF Advance
<1>22. CASE Save
  BY <1>22, SaveMoves, VariablesAre DEF Save
<1>23. CASE CommitFails
  BY <1>23, VariablesAre DEF CommitFails, Return
<1>24. CASE SaveFailed
  BY <1>24, VariablesAre DEF SaveFailed, Return
<1>25. CASE Crash
  BY <1>25, VariablesAre DEF Crash, Return, FinalizePart, Conflict
<1>26. CASE TurnedAway
  BY <1>26, VariablesAre DEF TurnedAway, Return
<1>27. CASE UNCHANGED vars
  BY <1>27, VariablesAre DEF vars
<1> QED
  BY <1>1, <1>2, <1>3, <1>4, <1>5, <1>6, <1>7, <1>8, <1>9, <1>10,
     <1>11, <1>12, <1>13, <1>14, <1>15, <1>16, <1>17, <1>18, <1>19, <1>20,
     <1>21, <1>22, <1>23, <1>24, <1>25, <1>26, <1>27
     DEF LaneNext, Next, Begin, Step

-----------------------------------------------------------------------------
(* Where a process is.                                                     *)

ProcessInv ==
  /\ at \in {"idle"} \cup StepNames /\ phase \in {"run", "save", "fail"}
  /\ iter \in 1..MaxIterations /\ tries \in 0..1
  /\ exit \in {"none", "ok", "fail", "crash", "skipped"}
  /\ ControlInv

(* A process is at a step of the lane, on one of max_iterations iterations *)
(* of its loop.                                                            *)
LEMMA ProcessStep == ProcessInv /\ [LaneNext]_vars => ProcessInv'
<1> SUFFICES ASSUME ProcessInv, [LaneNext]_vars PROVE ProcessInv'
  OBVIOUS
<1>s. ASSUME at \notin {"idle", "implement-review-loop"},
             Fails \/ (phase' = "save" /\ UNCHANGED <<at, iter, tries, exit>>)
      PROVE  ProcessInv'
  BY <1>s DEF ProcessInv, ControlInv, StepNames, MaxIterations, Fails
<1> USE DEF Runs, Succeeds, Tolerated, AgentFails, process, ProcessInv, ControlInv,
            StepNames, MaxIterations, Retries
<1>1. CASE StartLane
  <2>1. at' = "specify" /\ phase' = "run" /\ iter' = 1 /\ tries' = 1 /\ exit' = "none"
    BY <1>1 DEF StartLane, Enter, Retries
  <2> QED BY <2>1
<1>2. CASE ResumeLane
  <2>1. at' \in {"plan", "tasks", "analyze", "tasks-remediation", "implement",
                 "issues-from-review", "resolve-mergeback", "mergeback-finalize",
                 "commit-before-mergeback"}
    BY <1>2, ResumeMoves DEF ResumePoints
  <2>2. tries' = IF at' \in {"plan", "tasks"} THEN 1 ELSE 0
    BY <1>2, <2>1, ResumeMoves DEF Retries
  <2>3. phase' = "run" /\ iter' = 1 /\ exit' = "none"
    BY <1>2, ResumeMoves
  <2> QED BY <2>1, <2>2, <2>3
<1>3. CASE ResumeFails
  BY <1>3, <1>s DEF ResumeFails, Return
<1>4. CASE SkipLane
  BY <1>4, <1>s DEF SkipLane, Return
<1>5. CASE Specify
  <2>1. at = "specify"
    BY <1>5 DEF Specify, Generate
  <2>2. Fails \/ (phase' = "save" /\ UNCHANGED <<at, iter, tries, exit>>)
    BY <1>5 DEF Specify, Generate
  <2> QED BY <2>1, <2>2, <1>s
<1>6. CASE Plan
  <2>1. at = "plan"
    BY <1>6 DEF Plan, Generate
  <2>2. Fails \/ (phase' = "save" /\ UNCHANGED <<at, iter, tries, exit>>)
    BY <1>6 DEF Plan, Generate
  <2> QED BY <2>1, <2>2, <1>s
<1>7. CASE Tasks
  <2>1. at = "tasks"
    BY <1>7 DEF Tasks, Generate
  <2>2. Fails \/ (phase' = "save" /\ UNCHANGED <<at, iter, tries, exit>>)
    BY <1>7 DEF Tasks, Generate
  <2> QED BY <2>1, <2>2, <1>s
<1>8. CASE Analyze
  BY <1>8, <1>s DEF Analyze
<1>9. CASE AnalyzeClean
  BY <1>9, <1>s DEF AnalyzeClean
<1>10. CASE Remediate
  <2>1. at = "tasks-remediation"
    BY <1>10 DEF Remediate
  <2>2. Fails \/ (phase' = "save" /\ UNCHANGED <<at, iter, tries, exit>>)
    BY <1>10 DEF Remediate
  <2> QED BY <2>1, <2>2, <1>s
<1>11. CASE Implement
  <2>1. at = "implement"
    BY <1>11 DEF Implement
  <2>2. Fails \/ (phase' = "save" /\ UNCHANGED <<at, iter, tries, exit>>)
    BY <1>11 DEF Implement
  <2> QED BY <2>1, <2>2, <1>s
<1>12. CASE CodeReview
  BY <1>12, <1>s DEF CodeReview
<1>13. CASE ReviewClean
  BY <1>13, <1>s DEF ReviewClean
<1>14. CASE Issues
  BY <1>14, <1>s DEF Issues
<1>15. CASE EnsureBranch
  BY <1>15, <1>s DEF EnsureBranch
<1>16. ASSUME NEW s \in Plain, Plainly(s) PROVE ProcessInv'
  BY <1>16, <1>s DEF Plainly, Plain, Bind
<1>17. ASSUME NEW s \in {"capture-workflow-branch", "capture-mergeback-branch"},
              CaptureBranch(s)
       PROVE  ProcessInv'
  BY <1>17, <1>s DEF CaptureBranch, Bind
<1>18. CASE MergebackAttempt
  BY <1>18, <1>s DEF MergebackAttempt, Conflict
<1>19. CASE ResolveMergeback
  BY <1>19, <1>s DEF ResolveMergeback
<1>20. CASE Finalize
  <2>1. at = "mergeback-finalize"
    BY <1>20 DEF Finalize
  <2>2. Fails \/ (phase' = "save" /\ UNCHANGED <<at, iter, tries, exit>>)
    BY <1>20 DEF Finalize
  <2> QED BY <2>1, <2>2, <1>s
<1>21. CASE Advance
  BY <1>21, AdvanceMoves, <1>s DEF Advance
<1>22. CASE Save
  BY <1>22, SaveMoves, <1>s DEF Save, Successors
<1>23. CASE CommitFails
  BY <1>23, <1>s DEF CommitFails, Return
<1>24. CASE SaveFailed
  BY <1>24, <1>s DEF SaveFailed, Return
<1>25. CASE Crash
  BY <1>25, <1>s DEF Crash, Return, FinalizePart, Conflict
<1>26. CASE TurnedAway
  BY <1>26, <1>s DEF TurnedAway, Return
<1>27. CASE UNCHANGED vars
  BY <1>27, <1>s DEF vars
<1> QED
  BY <1>1, <1>2, <1>3, <1>4, <1>5, <1>6, <1>7, <1>8, <1>9, <1>10,
     <1>11, <1>12, <1>13, <1>14, <1>15, <1>16, <1>17, <1>18, <1>19, <1>20,
     <1>21, <1>22, <1>23, <1>24, <1>25, <1>26, <1>27
     DEF LaneNext, Next, Begin, Step

(* The flags.                                                              *)
Flags == failed \in BOOLEAN /\ fresh \in BOOLEAN /\ merged \in BOOLEAN /\ unfinished \in BOOLEAN

(* The flags of a process, and of the history.                             *)
LEMMA FlagsStep == Flags /\ [LaneNext]_vars => Flags'
<1> SUFFICES ASSUME Flags, [LaneNext]_vars PROVE Flags'
  OBVIOUS
<1> USE DEF Runs, Succeeds, Fails, Tolerated, AgentFails, process, history, Flags
<1>1. CASE StartLane
  BY <1>1 DEF StartLane
<1>2. CASE ResumeLane
  BY <1>2 DEF ResumeLane
<1>3. CASE ResumeFails
  BY <1>3 DEF ResumeFails, Return
<1>4. CASE SkipLane
  BY <1>4 DEF SkipLane, Return
<1>5. CASE Specify
  <2>1. failed' = failed \/ failed' = TRUE
    BY <1>5 DEF Specify, Generate
  <2>2. UNCHANGED fresh
    BY <1>5 DEF Specify, Generate
  <2>3. merged' = (merged /\ art' = art)
    BY <1>5 DEF Specify, Generate
  <2>4. UNCHANGED unfinished
    BY <1>5 DEF Specify, Generate
  <2> QED BY <2>1, <2>2, <2>3, <2>4
<1>6. CASE Plan
  <2>1. failed' = failed \/ failed' = TRUE
    BY <1>6 DEF Plan, Generate
  <2>2. UNCHANGED fresh
    BY <1>6 DEF Plan, Generate
  <2>3. merged' = (merged /\ art' = art)
    BY <1>6 DEF Plan, Generate
  <2>4. UNCHANGED unfinished
    BY <1>6 DEF Plan, Generate
  <2> QED BY <2>1, <2>2, <2>3, <2>4
<1>7. CASE Tasks
  <2>1. failed' = failed \/ failed' = TRUE
    BY <1>7 DEF Tasks, Generate
  <2>2. UNCHANGED fresh
    BY <1>7 DEF Tasks, Generate
  <2>3. merged' = (merged /\ art' = art)
    BY <1>7 DEF Tasks, Generate
  <2>4. UNCHANGED unfinished
    BY <1>7 DEF Tasks, Generate
  <2> QED BY <2>1, <2>2, <2>3, <2>4
<1>8. CASE Analyze
  BY <1>8 DEF Analyze
<1>9. CASE AnalyzeClean
  BY <1>9 DEF AnalyzeClean
<1>10. CASE Remediate
  <2>1. failed' = failed \/ failed' = TRUE
    BY <1>10 DEF Remediate
  <2>2. UNCHANGED fresh
    BY <1>10 DEF Remediate
  <2>3. merged' = merged \/ merged' = FALSE
    BY <1>10 DEF Remediate
  <2>4. UNCHANGED unfinished
    BY <1>10 DEF Remediate
  <2> QED BY <2>1, <2>2, <2>3, <2>4
<1>11. CASE Implement
  <2>1. failed' = failed \/ failed' = TRUE
    BY <1>11 DEF Implement
  <2>2. fresh' = fresh \/ fresh' = FALSE
    BY <1>11 DEF Implement
  <2>3. merged' = merged \/ merged' = FALSE
    BY <1>11 DEF Implement
  <2>4. UNCHANGED unfinished
    BY <1>11 DEF Implement
  <2> QED BY <2>1, <2>2, <2>3, <2>4
<1>12. CASE CodeReview
  BY <1>12 DEF CodeReview
<1>13. CASE ReviewClean
  BY <1>13 DEF ReviewClean
<1>14. CASE Issues
  BY <1>14 DEF Issues
<1>15. CASE EnsureBranch
  BY <1>15 DEF EnsureBranch
<1>16. ASSUME NEW s \in Plain, Plainly(s) PROVE Flags'
  BY <1>16 DEF Plainly, Plain, Bind
<1>17. ASSUME NEW s \in {"capture-workflow-branch", "capture-mergeback-branch"},
              CaptureBranch(s)
       PROVE  Flags'
  BY <1>17 DEF CaptureBranch, Bind
<1>18. CASE MergebackAttempt
  BY <1>18 DEF MergebackAttempt, Conflict
<1>19. CASE ResolveMergeback
  BY <1>19 DEF ResolveMergeback
<1>20. CASE Finalize
  <2>1. failed' = failed \/ failed' = TRUE
    BY <1>20 DEF Finalize
  <2>2. UNCHANGED fresh
    BY <1>20 DEF Finalize
  <2>3. merged' = merged \/ FinalizePart(4) \/ \E n \in 1..4 : FinalizePart(n)
    BY <1>20 DEF Finalize
  <2>4. UNCHANGED unfinished
    BY <1>20 DEF Finalize
  <2> QED BY <2>1, <2>2, <2>3, <2>4 DEF FinalizePart
<1>21. CASE Advance
  BY <1>21, AdvanceMoves DEF Advance
<1>22. CASE Save
  BY <1>22, SaveMoves DEF Save
<1>23. CASE CommitFails
  BY <1>23 DEF CommitFails, Return
<1>24. CASE SaveFailed
  BY <1>24 DEF SaveFailed, Return
<1>25. CASE Crash
  BY <1>25 DEF Crash, Return, FinalizePart, Conflict
<1>26. CASE TurnedAway
  BY <1>26 DEF TurnedAway, Return
<1>27. CASE UNCHANGED vars
  BY <1>27 DEF vars
<1> QED
  BY <1>1, <1>2, <1>3, <1>4, <1>5, <1>6, <1>7, <1>8, <1>9, <1>10,
     <1>11, <1>12, <1>13, <1>14, <1>15, <1>16, <1>17, <1>18, <1>19, <1>20,
     <1>21, <1>22, <1>23, <1>24, <1>25, <1>26, <1>27
     DEF LaneNext, Next, Begin, Step

-----------------------------------------------------------------------------
(* What the stages before leave.                                           *)

(* Every stage that succeeds leaves its artifact, and the assessment does  *)
(* not pass over one that is not there.                                    *)
LEMMA LeftStep ==
  ProcessInv /\ art \in Artifacts /\ LeftInv /\ [LaneNext]_vars => LeftInv'
<1> SUFFICES ASSUME ProcessInv, art \in Artifacts, LeftInv, [LaneNext]_vars PROVE LeftInv'
  OBVIOUS
<1> USE DEF Runs, Succeeds, Fails, Tolerated, AgentFails, process, history, Artifacts,
            ControlInv, ProcessInv, StepNames, Past, LeftInv, Finalized, Attempted,
            Merging, Looped, Looping, Analyzed, Tasked, Planned, Specified
<1>1. CASE StartLane
  BY <1>1, ZenonT(60) DEF StartLane, Enter, Retries, Blank
<1>2. CASE ResumeLane
  <2>1. PICK s \in ResumePoints \ {"specify"} :
          ResumesAt(s) /\ at' = IF s = "implement-review-loop" THEN "implement" ELSE s
    BY <1>2, ResumeMoves
  <2>2. art' = art /\ fixes' = fixes /\ phase' = "run"
    BY <1>2, ResumeMoves
  <2>3. /\ at' \in {"plan", "tasks", "analyze", "tasks-remediation", "implement",
                   "issues-from-review", "resolve-mergeback", "mergeback-finalize",
                   "commit-before-mergeback"}
        /\ SpecDone
        /\ at' # "plan" => PlanDone
        /\ at' \notin {"plan", "tasks"} => TasksDone
        /\ at' \notin {"plan", "tasks", "analyze"} => AnalyzeDone
        /\ at' \notin {"plan", "tasks", "analyze", "tasks-remediation", "implement"} =>
             LoopIsDone
        /\ at' \in {"resolve-mergeback", "mergeback-finalize", "commit-before-mergeback"} =>
             art.issues
        /\ at' \in {"resolve-mergeback", "mergeback-finalize"} => art.attempt # "none"
    BY <2>1, ResumeFacts DEF ResumePoints
  <2> QED
    BY <2>2, <2>3 DEF SpecDone, PlanDone, TasksDone, AnalyzeDone, LoopIsDone
<1>3. CASE ResumeFails
  BY <1>3 DEF ResumeFails, Return
<1>4. CASE SkipLane
  BY <1>4 DEF SkipLane, Return
<1>5. CASE Specify
  BY <1>5 DEF Specify, Generate, Writes
<1>6. CASE Plan
  BY <1>6 DEF Plan, Generate, Writes
<1>7. CASE Tasks
  BY <1>7, ZenonT(60) DEF Tasks, Generate, Writes
<1>8. CASE Analyze
  BY <1>8, ZenonT(60) DEF Analyze
<1>9. CASE AnalyzeClean
  BY <1>9 DEF AnalyzeClean
<1>10. CASE Remediate
  BY <1>10 DEF Remediate, Writes
<1>11. CASE Implement
  BY <1>11, ZenonT(60) DEF Implement, Writes
<1>12. CASE CodeReview
  BY <1>12 DEF CodeReview
<1>13. CASE ReviewClean
  BY <1>13 DEF ReviewClean
<1>14. CASE Issues
  BY <1>14 DEF Issues
<1>15. CASE EnsureBranch
  BY <1>15 DEF EnsureBranch
<1>16. ASSUME NEW s \in Plain, Plainly(s) PROVE LeftInv'
  BY <1>16 DEF Plainly, Plain, Bind
<1>17. ASSUME NEW s \in {"capture-workflow-branch", "capture-mergeback-branch"},
              CaptureBranch(s)
       PROVE  LeftInv'
  BY <1>17 DEF CaptureBranch, Bind
<1>18. CASE MergebackAttempt
  BY <1>18 DEF MergebackAttempt, Conflict
<1>19. CASE ResolveMergeback
  BY <1>19 DEF ResolveMergeback
<1>20. CASE Finalize
  <2>1. at = "mergeback-finalize" /\ at' = at /\ phase = "run"
    BY <1>20 DEF Finalize
  <2>2. \/ art' = art /\ phase' # "save"
        \/ art' = [art EXCEPT !.final = TRUE]
    BY <1>20 DEF Finalize
  <2>3. /\ art'.spec = art.spec /\ art'.plan = art.plan /\ art'.tasks = art.tasks
        /\ art'.analyze = art.analyze /\ art'.review = art.review
        /\ art'.issues = art.issues /\ art'.attempt = art.attempt
        /\ phase' = "save" \/ art.final => art'.final
    BY <2>2
  <2> QED
    BY <2>1, <2>3
<1>21. CASE Advance
  BY <1>21, AdvanceMoves DEF Advance, Successors
<1>22. CASE Save
  BY <1>22, SaveMoves DEF Save, Successors
<1>23. CASE CommitFails
  BY <1>23 DEF CommitFails, Return
<1>24. CASE SaveFailed
  BY <1>24 DEF SaveFailed, Return
<1>25. CASE Crash
  BY <1>25 DEF Crash, Return, FinalizePart, Conflict
<1>26. CASE TurnedAway
  BY <1>26 DEF TurnedAway, Return
<1>27. CASE UNCHANGED vars
  BY <1>27 DEF vars
<1> QED
  BY <1>1, <1>2, <1>3, <1>4, <1>5, <1>6, <1>7, <1>8, <1>9, <1>10,
     <1>11, <1>12, <1>13, <1>14, <1>15, <1>16, <1>17, <1>18, <1>19, <1>20,
     <1>21, <1>22, <1>23, <1>24, <1>25, <1>26, <1>27
     DEF LaneNext, Next, Begin, Step

(* A remediation writes tasks.md after the analysis, which is enough for   *)
(* the assessment; and only an analysis goes before it in a process.       *)
LEMMA FixesStep ==
  ProcessInv /\ art \in Artifacts /\ LeftInv /\ FixesInv /\ [LaneNext]_vars => FixesInv'
<1> SUFFICES ASSUME ProcessInv, art \in Artifacts, LeftInv, FixesInv, [LaneNext]_vars
             PROVE  FixesInv'
  OBVIOUS
<1> USE DEF Runs, Succeeds, Fails, Tolerated, AgentFails, process, history, Artifacts,
            ControlInv, ProcessInv, StepNames, FixesInv
<1>1. CASE StartLane
  BY <1>1 DEF StartLane, Enter, Retries, Blank
<1>2. CASE ResumeLane
  <2>1. PICK s \in ResumePoints \ {"specify"} :
          ResumesAt(s) /\ at' = IF s = "implement-review-loop" THEN "implement" ELSE s
    BY <1>2, ResumeMoves
  <2>2. art' = art /\ fixes' = fixes /\ phase' = "run"
    BY <1>2, ResumeMoves
  <2>3. at' = "tasks-remediation" => ~art.touched
    BY <2>1, ResumeFacts DEF FindingsDone
  <2>4. at' \notin {"analyze-clean"}
    BY <2>1 DEF ResumePoints
  <2> QED
    BY <2>2, <2>3, <2>4
<1>3. CASE ResumeFails
  BY <1>3 DEF ResumeFails, Return
<1>4. CASE SkipLane
  BY <1>4 DEF SkipLane, Return
<1>5. CASE Specify
  BY <1>5 DEF Specify, Generate, Writes
<1>6. CASE Plan
  BY <1>6 DEF Plan, Generate, Writes
<1>7. CASE Tasks
  <2>1. fixes' = 0 /\ (phase' # "save" \/ at' = "tasks") /\ at' = "tasks"
    BY <1>7 DEF Tasks, Generate
  <2> QED BY <2>1
<1>8. CASE Analyze
  BY <1>8 DEF Analyze
<1>9. CASE AnalyzeClean
  BY <1>9 DEF AnalyzeClean
<1>10. CASE Remediate
  <2>1. fixes = 0 /\ at = "tasks-remediation" /\ at' = at /\ tries = 0 /\ phase' # "run"
    BY <1>10 DEF Remediate
  <2>2. \/ fixes' = fixes /\ art' = art /\ (phase' = "save" \/ at' = at)
        \/ fixes' = fixes + 1 /\ Writes("tasks", "open")
    BY <1>10 DEF Remediate
  <2>3. CASE Writes("tasks", "open") /\ fixes' = fixes + 1
    <3>1. art'.touched = (art.touched \/ "tasks" = "tasks")
      BY <2>3 DEF Writes
    <3>2. art'.touched
      BY <3>1
    <3> QED BY <2>1, <2>3, <3>2
  <2> QED BY <2>1, <2>2, <2>3
<1>11. CASE Implement
  BY <1>11 DEF Implement, Writes
<1>12. CASE CodeReview
  BY <1>12 DEF CodeReview
<1>13. CASE ReviewClean
  BY <1>13 DEF ReviewClean
<1>14. CASE Issues
  BY <1>14 DEF Issues
<1>15. CASE EnsureBranch
  BY <1>15 DEF EnsureBranch
<1>16. ASSUME NEW s \in Plain, Plainly(s) PROVE FixesInv'
  BY <1>16 DEF Plainly, Plain, Bind
<1>17. ASSUME NEW s \in {"capture-workflow-branch", "capture-mergeback-branch"},
              CaptureBranch(s)
       PROVE  FixesInv'
  BY <1>17 DEF CaptureBranch, Bind
<1>18. CASE MergebackAttempt
  BY <1>18 DEF MergebackAttempt, Conflict
<1>19. CASE ResolveMergeback
  BY <1>19 DEF ResolveMergeback
<1>20. CASE Finalize
  BY <1>20 DEF Finalize, FinalizePart
<1>21. CASE Advance
  BY <1>21, AdvanceMoves DEF Advance
<1>22. CASE Save
  BY <1>22, SaveMoves DEF Save, Successors
<1>23. CASE CommitFails
  BY <1>23 DEF CommitFails, Return
<1>24. CASE SaveFailed
  BY <1>24 DEF SaveFailed, Return
<1>25. CASE Crash
  BY <1>25 DEF Crash, Return, FinalizePart, Conflict
<1>26. CASE TurnedAway
  BY <1>26 DEF TurnedAway, Return
<1>27. CASE UNCHANGED vars
  BY <1>27 DEF vars
<1> QED
  BY <1>1, <1>2, <1>3, <1>4, <1>5, <1>6, <1>7, <1>8, <1>9, <1>10,
     <1>11, <1>12, <1>13, <1>14, <1>15, <1>16, <1>17, <1>18, <1>19, <1>20,
     <1>21, <1>22, <1>23, <1>24, <1>25, <1>26, <1>27
     DEF LaneNext, Next, Begin, Step

-----------------------------------------------------------------------------
(* The lane, with its journal or without.                                  *)

TypeInv ==
  /\ ProcessInv /\ Flags
  /\ mem \in Records /\ disk \in Records /\ art \in Artifacts /\ WorktreeInv
  /\ faults \in 0..MaxFaults

LaneInv == TypeInv /\ LeftInv /\ FixesInv

(* No process has run, and the branch may have the documents of a spec     *)
(* before.                                                                 *)
LEMMA LaneInit == Init => LaneInv
<1> SUFFICES ASSUME Init PROVE LaneInv
  OBVIOUS
<1>a. at = "idle" /\ phase = "run" /\ iter = 1 /\ tries = 0 /\ exit = "none"
      /\ faults = 0 /\ fixes = 0
  BY DEF Init
<1>b. PICK d \in {"none", "concrete"}, t \in {"none", "open", "checked"} :
        art = [spec |-> d, plan |-> d, tasks |-> t, touched |-> FALSE, analyze |-> "none",
               review |-> "none", issues |-> FALSE, attempt |-> "none", final |-> FALSE]
  BY DEF Init
<1>1. ProcessInv
  BY <1>a DEF ProcessInv, ControlInv, MaxIterations
<1>2. Flags
  BY DEF Init, Flags
<1>3. mem \in Records /\ disk \in Records
  BY DEF Init, Blank, Records
<1>4. art \in Artifacts
  BY <1>b DEF Artifacts
<1>5. WorktreeInv
  BY DEF Init, WorktreeInv, Worktrees
<1>6. faults \in 0..MaxFaults
  BY <1>a, LaneAssumption
<1>7. LeftInv
  BY DEF Init, LeftInv, Past, Finalized, Attempted, Merging, Looped, Looping, Analyzed,
         Tasked, Planned, Specified
<1>8. FixesInv
  BY <1>a DEF FixesInv, Runs
<1> QED
  BY <1>1, <1>2, <1>3, <1>4, <1>5, <1>6, <1>7, <1>8 DEF LaneInv, TypeInv

(* No step changes the types.                                              *)
LEMMA TypeStep == TypeInv /\ [LaneNext]_vars => TypeInv'
<1> SUFFICES ASSUME TypeInv, [LaneNext]_vars PROVE TypeInv'
  OBVIOUS
<1>1. ProcessInv /\ Flags /\ mem \in Records /\ disk \in Records /\ art \in Artifacts
        /\ WorktreeInv /\ git \in Worktrees /\ faults \in 0..MaxFaults
  BY DEF TypeInv, WorktreeInv
<1>2. faults' \in 0..MaxFaults
  <2>1. faults' = faults \/ \E k \in Kinds : Fault(k)
    BY FaultsStep
  <2>2. MaxFaults \in Nat
    BY LaneAssumption
  <2> QED BY <1>1, <2>1, <2>2 DEF Fault
<1>3. ProcessInv'
  BY <1>1, ProcessStep
<1>4. Flags'
  BY <1>1, FlagsStep
<1>5. mem' \in Records /\ disk' \in Records
  BY <1>1, RecordsStep
<1>6. art' \in Artifacts
  BY <1>1, ArtifactsStep
<1>7. WorktreeInv'
  BY <1>1, WorktreesStep
<1> QED
  BY <1>2, <1>3, <1>4, <1>5, <1>6, <1>7 DEF TypeInv

(* Nor what is left behind.                                                *)
LEMMA LaneStep == LaneInv /\ [LaneNext]_vars => LaneInv'
<1> SUFFICES ASSUME LaneInv, [LaneNext]_vars PROVE LaneInv'
  OBVIOUS
<1>1. TypeInv /\ LeftInv /\ FixesInv /\ ProcessInv /\ art \in Artifacts
  BY DEF LaneInv, TypeInv
<1>2. TypeInv'
  BY <1>1, TypeStep
<1>3. LeftInv'
  BY <1>1, LeftStep
<1>4. FixesInv'
  BY <1>1, FixesStep
<1> QED
  BY <1>2, <1>3, <1>4 DEF LaneInv

(* A step with the journal is a step of the lane, or of the journal alone, *)
(* which changes nothing else.                                             *)
LEMMA JournalledStep == [JournalNext]_<<vars, journalVars>> => [LaneNext]_vars
<1> SUFFICES ASSUME [JournalNext]_<<vars, journalVars>> PROVE [LaneNext]_vars
  OBVIOUS
<1>1. CASE BeginWithJournal
  BY <1>1 DEF BeginWithJournal, LaneNext, Next
<1>2. CASE SkipWithoutJournal
  BY <1>2 DEF SkipWithoutJournal, LaneNext, Next, Begin
<1>3. CASE JournalUnreadable
  BY <1>3 DEF JournalUnreadable, LaneNext, TurnedAway
<1>4. CASE StepStarted
  BY <1>4 DEF StepStarted
<1>5. CASE RunStep
  BY <1>5 DEF RunStep, LaneNext, Next
<1>6. CASE StepCompleted
  BY <1>6 DEF StepCompleted
<1>7. CASE AfterStep
  BY <1>7 DEF AfterStep, LaneNext, Next
<1>8. CASE CrashWithJournal
  BY <1>8 DEF CrashWithJournal, LaneNext, Next
<1>9. CASE UNCHANGED <<vars, journalVars>>
  BY <1>9
<1> QED
  BY <1>1, <1>2, <1>3, <1>4, <1>5, <1>6, <1>7, <1>8, <1>9 DEF JournalNext

(* The invariant of the lane, with its journal or without.                 *)
LEMMA LaneInvariant == (Spec => []LaneInv) /\ (JournalSpec => []LaneInv)
<1>1. Spec => []LaneInv
  <2>1. [Next]_vars => [LaneNext]_vars
    BY DEF LaneNext
  <2> QED BY LaneInit, LaneStep, <2>1, PTL DEF Spec
<1>2. JournalSpec => []LaneInv
  <2>1. JournalInit => Init
    BY DEF JournalInit
  <2> QED BY LaneInit, LaneStep, JournalledStep, <2>1, PTL DEF JournalSpec
<1> QED
  BY <1>1, <1>2

(* Every variable of the lane has its type, and its loop runs at most      *)
(* max_iterations times, whatever fails and wherever it is resumed.        *)
THEOREM LaneTypeCorrect == (Spec => []TypeOK) /\ (JournalSpec => []TypeOK)
<1>1. LaneInv => TypeOK
  <2> SUFFICES ASSUME LaneInv PROVE TypeOK
    OBVIOUS
  <2>1. at \in {"idle"} \cup {Lane[i] : i \in Positions} \cup {Loop[i] : i \in DOMAIN Loop}
    BY NamesAre DEF LaneInv, TypeInv, ProcessInv
  <2>2. /\ phase \in {"run", "save", "fail"} /\ iter \in 1 .. MaxIterations
        /\ tries \in 0 .. 1 /\ exit \in {"none", "ok", "fail", "crash", "skipped"}
    BY DEF LaneInv, TypeInv, ProcessInv
  <2>3. /\ failed \in BOOLEAN /\ fresh \in BOOLEAN /\ merged \in BOOLEAN
        /\ unfinished \in BOOLEAN
    BY DEF LaneInv, TypeInv, Flags
  <2>4. /\ mem \in Records /\ disk \in Records /\ art \in Artifacts /\ git \in Worktrees
        /\ faults \in 0 .. MaxFaults
    BY DEF LaneInv, TypeInv, WorktreeInv
  <2>5. fixes \in Nat
    BY DEF LaneInv, FixesInv
  <2> QED BY <2>1, <2>2, <2>3, <2>4, <2>5 DEF TypeOK
<1> QED
  BY <1>1, LaneInvariant, PTL

(* Wherever a lane is resumed, and whatever has failed before, a step of   *)
(* the lane runs only when the stages before its own have left their       *)
(* artifacts (speckit_artifact_state.go:29-73).                            *)
THEOREM PrerequisitesSafe ==
  (Spec => []PrerequisitesExist) /\ (JournalSpec => []PrerequisitesExist)
<1>1. LaneInv => PrerequisitesExist
  BY DEF LaneInv, LeftInv, PrerequisitesExist, Past, Finalized, Attempted, Merging,
         Looped,
         Looping, Analyzed, Tasked, Planned, Specified
<1> QED
  BY <1>1, LaneInvariant, PTL

(* A remediation that was interrupted after it wrote tasks.md is not       *)
(* repeated: one analysis is remediated once                               *)
(* (speckit_artifact_state.go:118-141).                                    *)
THEOREM RemediationSafe == (Spec => []RemediatedOnce) /\ (JournalSpec => []RemediatedOnce)
<1>1. LaneInv => RemediatedOnce
  BY DEF LaneInv, FixesInv, RemediatedOnce
<1> QED
  BY <1>1, LaneInvariant, PTL

-----------------------------------------------------------------------------
(* When an agent that succeeds leaves what the assessment accepts.         *)

(* No agent succeeds with documents that do not count as concrete.         *)
Dependable == "vague" \notin Kinds

(* The steps before the analysis, before the review, and before the loop   *)
(* is over.                                                                *)
Preparing  == {"specify", "capture-feature-directory", "ensure-speckit-branch",
               "set-phase-input", "set-plan-input", "set-analyze-input",
               "capture-workflow-branch", "review-spec", "plan", "review-plan",
               "set-tasks-input", "tasks"}
Analyzing  == {"analyze", "analyze-clean", "tasks-remediation", "set-implement-input"}
Remediated == {"set-implement-input"} \cup Looping \cup Looped
Building   == Preparing \cup Analyzing \cup Looping

(* A step that a process has behind it has done its stage.                 *)
StageInv ==
  /\ Past("specify", Specified) => SpecDone
  /\ Past("plan", Planned) => PlanDone
  /\ Past("tasks", Tasked) => TasksDone
  /\ Past("tasks-remediation", Remediated) => FindingsDone

(* An artifact is there only when the stages before its own are done, and  *)
(* a stage that is done is not run again.                                  *)
ChainInv ==
  /\ AnalyzeDone => SpecDone /\ PlanDone /\ TasksDone
  /\ art.review # "none" => AnalyzeDone /\ FindingsDone
  /\ art.issues => art.review # "none"
  /\ art.attempt # "none" => art.issues
  /\ art.final => art.attempt # "none"
  /\ at \in Preparing \/ Runs("analyze") => ~AnalyzeDone
  /\ at \in Analyzing => art.review = "none"

(* What a process or state.json knows of the analysis is what it found.    *)
FindingsInv == mem.analyze \in {"none", art.analyze} /\ disk.analyze \in {"none", art.analyze}

(* A lane that never went on with unfinished work has reviewed the code it *)
(* has, and does not come back to the loop.                                *)
LoopInv ==
  ~unfinished =>
    /\ art.review = "clean" => art.tasks = "checked" /\ fresh
    /\ Runs("implement") => art.review # "clean"
    /\ at \in Looped => LoopIsDone
    /\ art.attempt # "none" => LoopIsDone
    /\ at \in Building => art.attempt = "none"

(* All branches that the worktree, a process and state.json name are there. *)
BranchesKept ==
  /\ mem.branch \in git.branches \cup {"", "target"}
  /\ disk.branch \in git.branches \cup {"", "target"}
  /\ git.head \in git.branches \cup {"target", "detached", "rebasing"}
  /\ git.rebase \in git.branches \cup {""}

(* A branch goes when the target has what it had.                          *)
BranchInv ==
  /\ merged => art.attempt # "none"
  /\ ~merged /\ ~unfinished => BranchesKept
  /\ art.attempt = "none" => BranchesKept
  /\ art.final /\ ~unfinished => merged

(* A process that returned success was the last one.                       *)
OkInv == exit = "ok" => at = "idle" /\ (unfinished \/ (StagesDone /\ art.final))

SoundInv ==
  TypeInv /\ LeftInv /\ StageInv /\ ChainInv /\ FindingsInv /\ LoopInv /\ BranchInv /\ OkInv

(* A command changes its own document, and no other artifact.              *)
LEMMA WritesOne ==
  ASSUME art \in Artifacts, NEW f \in {"spec", "plan", "tasks"}, NEW p, Writes(f, p)
  PROVE  /\ art'.analyze = art.analyze /\ art'.review = art.review
         /\ art'.issues = art.issues /\ art'.attempt = art.attempt /\ art'.final = art.final
         /\ art'.spec = IF f = "spec" THEN p ELSE art.spec
         /\ art'.plan = IF f = "plan" THEN p ELSE art.plan
         /\ art'.tasks = IF f = "tasks" THEN p ELSE art.tasks
         /\ art'.touched = (art.touched \/ f = "tasks")
<1>1. art' = [art EXCEPT ![f] = p, !.touched = art.touched \/ f = "tasks"]
  BY DEF Writes
<1>2. art = [spec |-> art.spec, plan |-> art.plan, tasks |-> art.tasks,
             touched |-> art.touched, analyze |-> art.analyze, review |-> art.review,
             issues |-> art.issues, attempt |-> art.attempt, final |-> art.final]
  BY DEF Artifacts
<1>3. DOMAIN art = {"spec", "plan", "tasks", "touched", "analyze", "review", "issues",
                    "attempt", "final"}
  BY <1>2
<1>4. \A g \in DOMAIN art : g \notin {f, "touched"} => art'[g] = art[g]
  BY <1>1, <1>3
<1>5. art'[f] = p
  BY <1>1, <1>3
<1>6. art'["touched"] = (art.touched \/ f = "tasks")
  BY <1>1, <1>3
<1> QED
  BY <1>3, <1>4, <1>5, <1>6

(* A command is done when its step succeeds, and a remediation whenever    *)
(* there was something to remediate.                                       *)
LEMMA StageStep ==
  Dependable /\ ProcessInv /\ art \in Artifacts /\ FindingsInv /\ StageInv
    /\ [LaneNext]_vars => StageInv'
<1> SUFFICES ASSUME Dependable, ProcessInv, art \in Artifacts, FindingsInv, StageInv,
                    [LaneNext]_vars
             PROVE  StageInv'
  OBVIOUS
<1>v. ~Fault("vague")
  BY DEF Fault, Dependable
<1> USE DEF Runs, Succeeds, Fails, Tolerated, AgentFails, process, history, Artifacts,
            ControlInv, ProcessInv, StepNames, Past, StageInv, SpecDone, PlanDone,
            TasksDone, AnalyzeDone, FindingsDone, Remediated, Finalized, Attempted,
            Merging, Looped, Looping, Analyzed, Tasked, Planned, Specified
<1>1. CASE StartLane
  BY <1>1, <1>v DEF StartLane, Enter, Retries, Blank
<1>2. CASE ResumeLane
  <2>1. PICK s \in ResumePoints \ {"specify"} :
          ResumesAt(s) /\ at' = IF s = "implement-review-loop" THEN "implement" ELSE s
    BY <1>2, ResumeMoves
  <2>2. art' = art /\ fixes' = fixes /\ phase' = "run"
    BY <1>2, ResumeMoves
  <2>3. /\ at' \in {"plan", "tasks", "analyze", "tasks-remediation", "implement",
                   "issues-from-review", "resolve-mergeback", "mergeback-finalize",
                   "commit-before-mergeback"}
        /\ SpecDone
        /\ at' # "plan" => PlanDone
        /\ at' \notin {"plan", "tasks"} => TasksDone
        /\ at' \notin {"plan", "tasks", "analyze", "tasks-remediation"} => FindingsDone
    BY <2>1, ResumeFacts DEF ResumePoints
  <2> QED
    BY <2>2, <2>3
<1>3. CASE ResumeFails
  BY <1>3, <1>v DEF ResumeFails, Return
<1>4. CASE SkipLane
  BY <1>4, <1>v DEF SkipLane, Return
<1>5. CASE Specify
  BY <1>5, <1>v DEF Specify, Generate, Writes
<1>6. CASE Plan
  BY <1>6, <1>v DEF Plan, Generate, Writes
<1>7. CASE Tasks
  BY <1>7, <1>v DEF Tasks, Generate, Writes
<1>8. CASE Analyze
  BY <1>8, <1>v, ZenonT(60) DEF Analyze
<1>9. CASE AnalyzeClean
  BY <1>9, <1>v DEF AnalyzeClean
<1>10. CASE Remediate
  BY <1>10, <1>v, ZenonT(60) DEF Remediate, Writes, FindingsInv
<1>11. CASE Implement
  BY <1>11, <1>v DEF Implement, Writes
<1>12. CASE CodeReview
  BY <1>12, <1>v DEF CodeReview
<1>13. CASE ReviewClean
  BY <1>13, <1>v DEF ReviewClean
<1>14. CASE Issues
  BY <1>14, <1>v DEF Issues
<1>15. CASE EnsureBranch
  BY <1>15, <1>v DEF EnsureBranch
<1>16. ASSUME NEW s \in Plain, Plainly(s) PROVE StageInv'
  BY <1>16, <1>v DEF Plainly, Plain, Bind
<1>17. ASSUME NEW s \in {"capture-workflow-branch", "capture-mergeback-branch"},
              CaptureBranch(s)
       PROVE  StageInv'
  BY <1>17, <1>v DEF CaptureBranch, Bind
<1>18. CASE MergebackAttempt
  BY <1>18, <1>v DEF MergebackAttempt, Conflict
<1>19. CASE ResolveMergeback
  BY <1>19, <1>v DEF ResolveMergeback
<1>20. CASE Finalize
  BY <1>20, <1>v DEF Finalize, FinalizePart
<1>21. CASE Advance
  BY <1>21, AdvanceMoves, <1>v DEF Advance, Successors
<1>22. CASE Save
  BY <1>22, SaveMoves, <1>v DEF Save, Successors
<1>23. CASE CommitFails
  BY <1>23, <1>v DEF CommitFails, Return
<1>24. CASE SaveFailed
  BY <1>24, <1>v DEF SaveFailed, Return
<1>25. CASE Crash
  BY <1>25, <1>v DEF Crash, Return, FinalizePart, Conflict
<1>26. CASE TurnedAway
  BY <1>26, <1>v DEF TurnedAway, Return
<1>27. CASE UNCHANGED vars
  BY <1>27, <1>v DEF vars
<1> QED
  BY <1>1, <1>2, <1>3, <1>4, <1>5, <1>6, <1>7, <1>8, <1>9, <1>10,
     <1>11, <1>12, <1>13, <1>14, <1>15, <1>16, <1>17, <1>18, <1>19, <1>20,
     <1>21, <1>22, <1>23, <1>24, <1>25, <1>26, <1>27
     DEF LaneNext, Next, Begin, Step

(* Nothing but an analysis changes what is known of one, and it is not     *)
(* run when there is one.                                                  *)
LEMMA FindingsStep ==
  ProcessInv /\ mem \in Records /\ art \in Artifacts /\ ChainInv /\ FindingsInv
    /\ [LaneNext]_vars => FindingsInv'
<1> SUFFICES ASSUME ProcessInv, mem \in Records, art \in Artifacts, ChainInv,
                    FindingsInv, [LaneNext]_vars
             PROVE  FindingsInv'
  OBVIOUS
<1> USE DEF Runs, Succeeds, Fails, Tolerated, AgentFails, process, history, Artifacts,
            Records, ProcessInv, ControlInv, AnalyzeDone, FindingsInv
<1>1. CASE StartLane
  BY <1>1 DEF StartLane, Enter, Retries, Blank
<1>2. CASE ResumeLane
  BY <1>2, ResumeMoves DEF ResumeLane, Enter, Retries
<1>3. CASE ResumeFails
  BY <1>3 DEF ResumeFails, Return
<1>4. CASE SkipLane
  BY <1>4 DEF SkipLane, Return
<1>5. CASE Specify
  BY <1>5 DEF Specify, Generate, Writes
<1>6. CASE Plan
  BY <1>6 DEF Plan, Generate, Writes
<1>7. CASE Tasks
  BY <1>7 DEF Tasks, Generate, Writes
<1>8. CASE Analyze
  <2>1. art.analyze = "none" /\ disk' = disk
    BY <1>8 DEF Analyze, ChainInv
  <2>2. \/ art' = art /\ mem' = mem
        \/ \E v \in {"clean", "blocking"} :
             /\ art' = [art EXCEPT !.analyze = v, !.touched = FALSE]
             /\ mem' = [mem EXCEPT !.analyze = v, !.bound = mem.bound \cup {"analyze"}]
    BY <1>8 DEF Analyze
  <2>3. (art' = art /\ mem' = mem) \/ mem'.analyze = art'.analyze
    BY <2>2
  <2> QED
    BY <2>1, <2>3
<1>9. CASE AnalyzeClean
  BY <1>9 DEF AnalyzeClean
<1>10. CASE Remediate
  BY <1>10 DEF Remediate, Writes
<1>11. CASE Implement
  BY <1>11 DEF Implement, Writes
<1>12. CASE CodeReview
  BY <1>12 DEF CodeReview
<1>13. CASE ReviewClean
  BY <1>13 DEF ReviewClean
<1>14. CASE Issues
  BY <1>14 DEF Issues
<1>15. CASE EnsureBranch
  BY <1>15 DEF EnsureBranch
<1>16. ASSUME NEW s \in Plain, Plainly(s) PROVE FindingsInv'
  BY <1>16 DEF Plainly, Plain, Bind
<1>17. ASSUME NEW s \in {"capture-workflow-branch", "capture-mergeback-branch"},
              CaptureBranch(s)
       PROVE  FindingsInv'
  BY <1>17 DEF CaptureBranch, Bind
<1>18. CASE MergebackAttempt
  BY <1>18 DEF MergebackAttempt, Conflict
<1>19. CASE ResolveMergeback
  BY <1>19 DEF ResolveMergeback
<1>20. CASE Finalize
  BY <1>20 DEF Finalize, FinalizePart
<1>21. CASE Advance
  BY <1>21, AdvanceMoves DEF Advance
<1>22. CASE Save
  BY <1>22, SaveMoves DEF Save
<1>23. CASE CommitFails
  BY <1>23 DEF CommitFails, Return
<1>24. CASE SaveFailed
  BY <1>24 DEF SaveFailed, Return
<1>25. CASE Crash
  BY <1>25 DEF Crash, Return, FinalizePart, Conflict
<1>26. CASE TurnedAway
  BY <1>26 DEF TurnedAway, Return
<1>27. CASE UNCHANGED vars
  BY <1>27 DEF vars
<1> QED
  BY <1>1, <1>2, <1>3, <1>4, <1>5, <1>6, <1>7, <1>8, <1>9, <1>10,
     <1>11, <1>12, <1>13, <1>14, <1>15, <1>16, <1>17, <1>18, <1>19, <1>20,
     <1>21, <1>22, <1>23, <1>24, <1>25, <1>26, <1>27
     DEF LaneNext, Next, Begin, Step

(* The stages are done in their order.                                     *)
LEMMA ChainStep ==
  ProcessInv /\ art \in Artifacts /\ LeftInv /\ StageInv /\ ChainInv
    /\ [LaneNext]_vars => ChainInv'
<1> SUFFICES ASSUME ProcessInv, art \in Artifacts, LeftInv, StageInv, ChainInv,
                    [LaneNext]_vars
             PROVE  ChainInv'
  OBVIOUS
<1> USE DEF Runs, Succeeds, Fails, Tolerated, AgentFails, process, history, Artifacts,
            ProcessInv, ControlInv, ChainInv, Past, LeftInv, StageInv, SpecDone,
            PlanDone, TasksDone, AnalyzeDone, FindingsDone, Preparing, Analyzing,
            Remediated, Building, Finalized, Attempted, Merging, Looped, Looping,
            Analyzed, Tasked, Planned, Specified
<1>1. CASE StartLane
  <2>1. at' = "specify" /\ art' = art /\ phase' = "run" /\ ~SpecDone
    BY <1>1, ResumeFacts DEF StartLane, Enter
  <2> QED
    BY <2>1
<1>2. CASE ResumeLane
  <2>1. PICK s \in ResumePoints \ {"specify"} :
          ResumesAt(s) /\ at' = IF s = "implement-review-loop" THEN "implement" ELSE s
    BY <1>2, ResumeMoves
  <2>2. art' = art /\ fixes' = fixes /\ phase' = "run"
    BY <1>2, ResumeMoves
  <2>3. /\ at' \in {"plan", "tasks", "analyze", "tasks-remediation", "implement",
                   "issues-from-review", "resolve-mergeback", "mergeback-finalize",
                   "commit-before-mergeback"}
        /\ at' = "plan" => ~PlanDone
        /\ at' = "tasks" => ~TasksDone
        /\ at' = "analyze" => ~AnalyzeDone
        /\ at' = "tasks-remediation" => ~FindingsDone
        /\ at' = "implement" => ~LoopIsDone
        /\ at' \notin {"plan", "tasks", "analyze", "tasks-remediation", "implement"} =>
             LoopIsDone
    BY <2>1, ResumeFacts DEF ResumePoints
  <2> QED
    BY <2>2, <2>3
<1>3. CASE ResumeFails
  BY <1>3 DEF ResumeFails, Return
<1>4. CASE SkipLane
  BY <1>4 DEF SkipLane, Return
<1>5. CASE Specify
  <2>1. /\ at = "specify" /\ at' = at /\ phase = "run"
        /\ UNCHANGED <<fresh, unfinished>>
    BY <1>5 DEF Specify, Generate
  <2>2. art' = art \/ \E p \in {"concrete", "poor", "open"} : Writes("spec", p)
    BY <1>5 DEF Specify, Generate
  <2>3. /\ art'.plan = art.plan /\ art'.tasks = art.tasks
        /\ art'.analyze = art.analyze /\ art'.review = art.review
        /\ art'.issues = art.issues /\ art'.attempt = art.attempt /\ art'.final = art.final
    BY <2>2, WritesOne
  <2> QED
    BY <2>1, <2>3
<1>6. CASE Plan
  <2>1. /\ at = "plan" /\ at' = at /\ phase = "run"
        /\ UNCHANGED <<fresh, unfinished>>
    BY <1>6 DEF Plan, Generate
  <2>2. art' = art \/ \E p \in {"concrete", "poor", "open"} : Writes("plan", p)
    BY <1>6 DEF Plan, Generate
  <2>3. /\ art'.spec = art.spec /\ art'.tasks = art.tasks
        /\ art'.analyze = art.analyze /\ art'.review = art.review
        /\ art'.issues = art.issues /\ art'.attempt = art.attempt /\ art'.final = art.final
    BY <2>2, WritesOne
  <2> QED
    BY <2>1, <2>3
<1>7. CASE Tasks
  <2>1. /\ at = "tasks" /\ at' = at /\ phase = "run"
        /\ UNCHANGED <<fresh, unfinished>>
    BY <1>7 DEF Tasks, Generate
  <2>2. art' = art \/ \E p \in {"concrete", "poor", "open"} : Writes("tasks", p)
    BY <1>7 DEF Tasks, Generate
  <2>3. /\ art'.spec = art.spec /\ art'.plan = art.plan
        /\ art'.analyze = art.analyze /\ art'.review = art.review
        /\ art'.issues = art.issues /\ art'.attempt = art.attempt /\ art'.final = art.final
    BY <2>2, WritesOne
  <2> QED
    BY <2>1, <2>3
<1>8. CASE Analyze
  <2>1. at = "analyze" /\ phase = "run" /\ at' = at /\ (art' # art => phase' # "run")
    BY <1>8 DEF Analyze
  <2>2. \/ art' = art
        \/ \E v \in {"clean", "blocking"} :
             art' = [art EXCEPT !.analyze = v, !.touched = FALSE]
    BY <1>8 DEF Analyze
  <2>3. /\ art'.spec = art.spec /\ art'.plan = art.plan /\ art'.tasks = art.tasks
        /\ art'.review = art.review /\ art'.issues = art.issues
        /\ art'.attempt = art.attempt /\ art'.final = art.final
    <3>1. CASE art' = art
      BY <3>1
    <3>2. ASSUME NEW v, art' = [art EXCEPT !.analyze = v, !.touched = FALSE]
          PROVE  /\ art'.spec = art.spec /\ art'.plan = art.plan
                 /\ art'.tasks = art.tasks /\ art'.review = art.review
                 /\ art'.issues = art.issues /\ art'.attempt = art.attempt
                 /\ art'.final = art.final
      BY <3>2
    <3>3. QED
      BY <2>2, <3>1, <3>2, ZenonT(60)
  <2>4. /\ art.review = "none" /\ ~art.issues /\ art.attempt = "none" /\ ~art.final
        /\ art.analyze = "none"
    BY <2>1
  <2>5. SpecDone /\ PlanDone /\ TasksDone
    BY <2>1
  <2>6. SpecDone' /\ PlanDone' /\ TasksDone'
    BY <2>3, <2>5
  <2> QED
    BY <2>1, <2>3, <2>4, <2>6
<1>9. CASE AnalyzeClean
  BY <1>9 DEF AnalyzeClean
<1>10. CASE Remediate
  <2>1. at = "tasks-remediation" /\ phase = "run" /\ at' = at
    BY <1>10 DEF Remediate
  <2>2. art' = art \/ Writes("tasks", "open")
    BY <1>10 DEF Remediate
  <2>3. /\ art'.spec = art.spec /\ art'.plan = art.plan /\ art'.analyze = art.analyze
        /\ art'.review = art.review /\ art'.issues = art.issues
        /\ art'.attempt = art.attempt /\ art'.final = art.final
        /\ art'.tasks \in {art.tasks, "open"}
    BY <2>2, WritesOne
  <2> QED
    BY <2>1, <2>3
<1>11. CASE Implement
  <2>1. at = "implement" /\ phase = "run" /\ at' = at
    BY <1>11 DEF Implement
  <2>2. \/ art' = art
        \/ Writes("tasks", IF art.tasks = "open" THEN "checked" ELSE art.tasks)
        \/ Writes("tasks", art.tasks)
    BY <1>11 DEF Implement
  <2>3. /\ art'.spec = art.spec /\ art'.plan = art.plan /\ art'.analyze = art.analyze
        /\ art'.review = art.review /\ art'.issues = art.issues
        /\ art'.attempt = art.attempt /\ art'.final = art.final
        /\ (art'.touched = art.touched \/ art'.touched = TRUE)
        /\ art'.tasks \in {art.tasks, IF art.tasks = "open" THEN "checked" ELSE art.tasks}
    BY <2>2, WritesOne
  <2> QED
    BY <2>1, <2>3
<1>12. CASE CodeReview
  BY <1>12 DEF CodeReview
<1>13. CASE ReviewClean
  BY <1>13 DEF ReviewClean
<1>14. CASE Issues
  BY <1>14 DEF Issues
<1>15. CASE EnsureBranch
  BY <1>15 DEF EnsureBranch
<1>16. ASSUME NEW s \in Plain, Plainly(s) PROVE ChainInv'
  BY <1>16 DEF Plainly, Plain, Bind
<1>17. ASSUME NEW s \in {"capture-workflow-branch", "capture-mergeback-branch"},
              CaptureBranch(s)
       PROVE  ChainInv'
  BY <1>17 DEF CaptureBranch, Bind
<1>18. CASE MergebackAttempt
  BY <1>18 DEF MergebackAttempt, Conflict
<1>19. CASE ResolveMergeback
  BY <1>19 DEF ResolveMergeback
<1>20. CASE Finalize
  BY <1>20, ZenonT(60) DEF Finalize, FinalizePart
<1>21. CASE Advance
  BY <1>21, AdvanceMoves DEF Advance
<1>22. CASE Save
  BY <1>22, SaveMoves DEF Save, Successors
<1>23. CASE CommitFails
  BY <1>23 DEF CommitFails, Return
<1>24. CASE SaveFailed
  BY <1>24 DEF SaveFailed, Return
<1>25. CASE Crash
  BY <1>25 DEF Crash, Return, FinalizePart, Conflict
<1>26. CASE TurnedAway
  BY <1>26 DEF TurnedAway, Return
<1>27. CASE UNCHANGED vars
  BY <1>27 DEF vars
<1> QED
  BY <1>1, <1>2, <1>3, <1>4, <1>5, <1>6, <1>7, <1>8, <1>9, <1>10,
     <1>11, <1>12, <1>13, <1>14, <1>15, <1>16, <1>17, <1>18, <1>19, <1>20,
     <1>21, <1>22, <1>23, <1>24, <1>25, <1>26, <1>27
     DEF LaneNext, Next, Begin, Step

(* What is implemented is reviewed.                                        *)
LEMMA LoopStep ==
  ProcessInv /\ art \in Artifacts /\ LeftInv /\ ChainInv /\ LoopInv
    /\ [LaneNext]_vars => LoopInv'
<1> SUFFICES ASSUME ProcessInv, art \in Artifacts, LeftInv, ChainInv, LoopInv,
                    [LaneNext]_vars
             PROVE  LoopInv'
  OBVIOUS
<1> USE DEF Runs, Succeeds, Fails, Tolerated, AgentFails, process, history, Artifacts,
            ProcessInv, ControlInv, ChainInv, LoopInv, LoopIsDone, Past, LeftInv,
            SpecDone, PlanDone, TasksDone, AnalyzeDone, FindingsDone, Preparing,
            Analyzing, Remediated, Building, Finalized, Attempted, Merging, Looped,
            Looping, Analyzed, Tasked, Planned, Specified
<1>1. CASE StartLane
  <2>1. at' = "specify" /\ art' = art /\ phase' = "run" /\ ~SpecDone /\ history' = history
    BY <1>1, ResumeFacts DEF StartLane, Enter
  <2> QED
    BY <2>1
<1>2. CASE ResumeLane
  <2>1. PICK s \in ResumePoints \ {"specify"} :
          ResumesAt(s) /\ at' = IF s = "implement-review-loop" THEN "implement" ELSE s
    BY <1>2, ResumeMoves
  <2>2. art' = art /\ fixes' = fixes /\ phase' = "run"
    BY <1>2, ResumeMoves
  <2>3. /\ at' \in {"plan", "tasks", "analyze", "tasks-remediation", "implement",
                   "issues-from-review", "resolve-mergeback", "mergeback-finalize",
                   "commit-before-mergeback"}
        /\ at' = "plan" => ~PlanDone
        /\ at' = "tasks" => ~TasksDone
        /\ at' = "analyze" => ~AnalyzeDone
        /\ at' = "tasks-remediation" => ~FindingsDone
        /\ at' = "implement" => ~LoopIsDone
        /\ at' \notin {"plan", "tasks", "analyze", "tasks-remediation", "implement"} =>
             LoopIsDone
    BY <2>1, ResumeFacts DEF ResumePoints
  <2>4. UNCHANGED history
    BY <1>2, ResumeMoves
  <2> QED
    BY <2>2, <2>3, <2>4
<1>3. CASE ResumeFails
  BY <1>3 DEF ResumeFails, Return
<1>4. CASE SkipLane
  BY <1>4 DEF SkipLane, Return
<1>5. CASE Specify
  <2>1. /\ at = "specify" /\ at' = at /\ phase = "run"
        /\ UNCHANGED <<fresh, unfinished>>
    BY <1>5 DEF Specify, Generate
  <2>2. art' = art \/ \E p \in {"concrete", "poor", "open"} : Writes("spec", p)
    BY <1>5 DEF Specify, Generate
  <2>3. /\ art'.plan = art.plan /\ art'.tasks = art.tasks
        /\ art'.analyze = art.analyze /\ art'.review = art.review
        /\ art'.issues = art.issues /\ art'.attempt = art.attempt /\ art'.final = art.final
    BY <2>2, WritesOne
  <2> QED
    BY <2>1, <2>3
<1>6. CASE Plan
  <2>1. /\ at = "plan" /\ at' = at /\ phase = "run"
        /\ UNCHANGED <<fresh, unfinished>>
    BY <1>6 DEF Plan, Generate
  <2>2. art' = art \/ \E p \in {"concrete", "poor", "open"} : Writes("plan", p)
    BY <1>6 DEF Plan, Generate
  <2>3. /\ art'.spec = art.spec /\ art'.tasks = art.tasks
        /\ art'.analyze = art.analyze /\ art'.review = art.review
        /\ art'.issues = art.issues /\ art'.attempt = art.attempt /\ art'.final = art.final
    BY <2>2, WritesOne
  <2> QED
    BY <2>1, <2>3
<1>7. CASE Tasks
  <2>1. /\ at = "tasks" /\ at' = at /\ phase = "run"
        /\ UNCHANGED <<fresh, unfinished>>
    BY <1>7 DEF Tasks, Generate
  <2>2. art' = art \/ \E p \in {"concrete", "poor", "open"} : Writes("tasks", p)
    BY <1>7 DEF Tasks, Generate
  <2>3. /\ art'.spec = art.spec /\ art'.plan = art.plan
        /\ art'.analyze = art.analyze /\ art'.review = art.review
        /\ art'.issues = art.issues /\ art'.attempt = art.attempt /\ art'.final = art.final
    BY <2>2, WritesOne
  <2> QED
    BY <2>1, <2>3
<1>8. CASE Analyze
  BY <1>8 DEF Analyze
<1>9. CASE AnalyzeClean
  BY <1>9 DEF AnalyzeClean
<1>10. CASE Remediate
  BY <1>10, ZenonT(60) DEF Remediate, Writes
<1>11. CASE Implement
  BY <1>11, ZenonT(60) DEF Implement, Writes
<1>12. CASE CodeReview
  BY <1>12, ZenonT(60) DEF CodeReview
<1>13. CASE ReviewClean
  BY <1>13 DEF ReviewClean
<1>14. CASE Issues
  BY <1>14 DEF Issues
<1>15. CASE EnsureBranch
  BY <1>15 DEF EnsureBranch
<1>16. ASSUME NEW s \in Plain, Plainly(s) PROVE LoopInv'
  BY <1>16 DEF Plainly, Plain, Bind
<1>17. ASSUME NEW s \in {"capture-workflow-branch", "capture-mergeback-branch"},
              CaptureBranch(s)
       PROVE  LoopInv'
  BY <1>17 DEF CaptureBranch, Bind
<1>18. CASE MergebackAttempt
  BY <1>18 DEF MergebackAttempt, Conflict
<1>19. CASE ResolveMergeback
  BY <1>19 DEF ResolveMergeback
<1>20. CASE Finalize
  BY <1>20 DEF Finalize, FinalizePart
<1>21. CASE Advance
  BY <1>21, AdvanceMoves DEF Advance
<1>22. CASE Save
  BY <1>22, SaveMoves DEF Save, Successors
<1>23. CASE CommitFails
  BY <1>23 DEF CommitFails, Return
<1>24. CASE SaveFailed
  BY <1>24 DEF SaveFailed, Return
<1>25. CASE Crash
  BY <1>25 DEF Crash, Return, FinalizePart, Conflict
<1>26. CASE TurnedAway
  BY <1>26 DEF TurnedAway, Return
<1>27. CASE UNCHANGED vars
  BY <1>27 DEF vars
<1> QED
  BY <1>1, <1>2, <1>3, <1>4, <1>5, <1>6, <1>7, <1>8, <1>9, <1>10,
     <1>11, <1>12, <1>13, <1>14, <1>15, <1>16, <1>17, <1>18, <1>19, <1>20,
     <1>21, <1>22, <1>23, <1>24, <1>25, <1>26, <1>27
     DEF LaneNext, Next, Begin, Step

(* What leaves the branches and the records of their merge alone keeps the *)
(* invariant about them.                                                   *)
LEMMA BranchStays ==
  ASSUME BranchInv, UNCHANGED <<git, mem, disk, merged, unfinished>>,
         art'.attempt = art.attempt, art'.final = art.final
  PROVE  BranchInv'
BY DEF BranchInv, BranchesKept

(* A branch is deleted only when the target has what the worktree has.     *)
LEMMA BranchStep ==
  TypeInv /\ LeftInv /\ ChainInv /\ LoopInv /\ BranchInv /\ [LaneNext]_vars => BranchInv'
<1> SUFFICES ASSUME TypeInv, LeftInv, ChainInv, LoopInv, BranchInv, [LaneNext]_vars
             PROVE  BranchInv'
  OBVIOUS
<1>p. 4 > 1
  OBVIOUS
<1>t. /\ mem \in Records /\ disk \in Records /\ art \in Artifacts /\ WorktreeInv
      /\ git \in Worktrees
  BY DEF TypeInv, WorktreeInv
<1>a. /\ ~unfinished /\ at \in {"specify", "plan", "tasks", "tasks-remediation", "implement"}
           => art.attempt = "none"
      /\ art.final => art.attempt # "none"
      /\ Runs("mergeback-finalize") => art.attempt # "none"
  BY DEF LoopInv, ChainInv, LeftInv, Past, Attempted, Runs, Building, Preparing,
         Analyzing,
         Looping
<1>f. ASSUME \E n \in 1..4 : FinalizePart(n), at = "mergeback-finalize", phase = "run",
             UNCHANGED <<mem, disk, art, unfinished>>
      PROVE  BranchInv'
  <2>1. PICK n \in 1..4 : FinalizePart(n)
    BY <1>f
  <2>2. at = "mergeback-finalize" /\ art.attempt # "none"
    BY <1>f, <1>a DEF Runs
  <2>3. merged' = (merged \/ n > 1)
    BY <2>1 DEF FinalizePart
  <2>4. CASE n > 1
    BY <1>f, <2>2, <2>3, <2>4 DEF BranchInv
  <2>5. CASE n = 1
    <3>1. git' = [git EXCEPT !.head = "target", !.branches = git.branches]
      BY <2>1, <2>5 DEF FinalizePart
    <3>2. git'.head = "target" /\ git'.branches = git.branches /\ git'.rebase = git.rebase
      BY <1>t, <3>1 DEF Worktrees
    <3>3. merged' = merged
      BY <2>3, <2>5, <1>t DEF TypeInv, Flags
    <3> QED BY <1>f, <2>2, <3>2, <3>3 DEF BranchInv, BranchesKept
  <2> QED BY <2>4, <2>5
<1> USE DEF Runs, Succeeds, Fails, Tolerated, AgentFails, process, history, Artifacts,
            Records, Worktrees, WorktreeInv, BranchInv, BranchesKept
<1>1. CASE StartLane
  BY <1>1, <1>t, <1>a DEF StartLane, Enter, Retries, Blank
<1>2. CASE ResumeLane
  BY <1>2, ResumeMoves, <1>t, <1>a, ZenonT(60) DEF ResumeLane, Enter, Retries
<1>3. CASE ResumeFails
  BY <1>3, <1>t, <1>a, ZenonT(60) DEF ResumeFails, Return
<1>4. CASE SkipLane
  BY <1>4, <1>t, <1>a, ZenonT(60) DEF SkipLane, Return
<1>5. CASE Specify
  <2>1. /\ at = "specify" /\ at' = at /\ phase = "run"
        /\ UNCHANGED <<git, mem, disk, unfinished>>
    BY <1>5 DEF Specify, Generate
  <2>2. art' = art \/ \E p \in {"concrete", "poor", "open"} : Writes("spec", p)
    BY <1>5 DEF Specify, Generate
  <2>3. /\ art'.plan = art.plan /\ art'.tasks = art.tasks
        /\ art'.analyze = art.analyze /\ art'.review = art.review
        /\ art'.issues = art.issues /\ art'.attempt = art.attempt /\ art'.final = art.final
    BY <2>2, <1>t, WritesOne
  <2>4. merged' => merged
    BY <1>5 DEF Specify, Generate
  <2> QED
    BY <2>1, <2>3, <2>4, <1>t, <1>a
<1>6. CASE Plan
  <2>1. /\ at = "plan" /\ at' = at /\ phase = "run"
        /\ UNCHANGED <<git, mem, disk, unfinished>>
    BY <1>6 DEF Plan, Generate
  <2>2. art' = art \/ \E p \in {"concrete", "poor", "open"} : Writes("plan", p)
    BY <1>6 DEF Plan, Generate
  <2>3. /\ art'.spec = art.spec /\ art'.tasks = art.tasks
        /\ art'.analyze = art.analyze /\ art'.review = art.review
        /\ art'.issues = art.issues /\ art'.attempt = art.attempt /\ art'.final = art.final
    BY <2>2, <1>t, WritesOne
  <2>4. merged' => merged
    BY <1>6 DEF Plan, Generate
  <2> QED
    BY <2>1, <2>3, <2>4, <1>t, <1>a
<1>7. CASE Tasks
  <2>1. /\ at = "tasks" /\ at' = at /\ phase = "run"
        /\ UNCHANGED <<git, mem, disk, unfinished>>
    BY <1>7 DEF Tasks, Generate
  <2>2. art' = art \/ \E p \in {"concrete", "poor", "open"} : Writes("tasks", p)
    BY <1>7 DEF Tasks, Generate
  <2>3. /\ art'.spec = art.spec /\ art'.plan = art.plan
        /\ art'.analyze = art.analyze /\ art'.review = art.review
        /\ art'.issues = art.issues /\ art'.attempt = art.attempt /\ art'.final = art.final
    BY <2>2, <1>t, WritesOne
  <2>4. merged' => merged
    BY <1>7 DEF Tasks, Generate
  <2> QED
    BY <2>1, <2>3, <2>4, <1>t, <1>a
<1>8. CASE Analyze
  <2>1. UNCHANGED <<disk, git, merged, unfinished>> /\ mem'.branch = mem.branch
    BY <1>8, <1>t DEF Analyze
  <2>2. art'.attempt = art.attempt /\ art'.final = art.final
    BY <1>8, <1>t, ZenonT(60) DEF Analyze
  <2> QED BY <2>1, <2>2
<1>9. CASE AnalyzeClean
  BY <1>9, <1>t, <1>a, ZenonT(60) DEF AnalyzeClean
<1>10. CASE Remediate
  <2>1. at = "tasks-remediation" /\ phase = "run" /\ at' = at
        /\ UNCHANGED <<git, mem, disk, unfinished>>
    BY <1>10 DEF Remediate
  <2>2. art' = art \/ Writes("tasks", "open")
    BY <1>10 DEF Remediate
  <2>3. /\ art'.spec = art.spec /\ art'.plan = art.plan /\ art'.analyze = art.analyze
        /\ art'.review = art.review /\ art'.issues = art.issues
        /\ art'.attempt = art.attempt /\ art'.final = art.final
        /\ art'.tasks \in {art.tasks, "open"}
    BY <2>2, <1>t, WritesOne, ZenonT(60)
  <2>4. merged' => merged
    BY <1>10 DEF Remediate
  <2> QED
    BY <2>1, <2>3, <2>4, <1>t, <1>a, ZenonT(60)
<1>11. CASE Implement
  <2>1. at = "implement" /\ phase = "run" /\ at' = at
        /\ UNCHANGED <<git, mem, disk, unfinished>>
    BY <1>11 DEF Implement
  <2>2. \/ art' = art
        \/ Writes("tasks", IF art.tasks = "open" THEN "checked" ELSE art.tasks)
        \/ Writes("tasks", art.tasks)
    BY <1>11 DEF Implement
  <2>3. /\ art'.spec = art.spec /\ art'.plan = art.plan /\ art'.analyze = art.analyze
        /\ art'.review = art.review /\ art'.issues = art.issues
        /\ art'.attempt = art.attempt /\ art'.final = art.final
        /\ (art'.touched = art.touched \/ art'.touched = TRUE)
        /\ art'.tasks \in {art.tasks, IF art.tasks = "open" THEN "checked" ELSE art.tasks}
    BY <2>2, <1>t, WritesOne, ZenonT(60)
  <2>4. merged' => merged
    BY <1>11 DEF Implement
  <2> QED
    BY <2>1, <2>3, <2>4, <1>t, <1>a
<1>12. CASE CodeReview
  BY <1>12, <1>t, <1>a, ZenonT(60) DEF CodeReview
<1>13. CASE ReviewClean
  BY <1>13, <1>t, <1>a, ZenonT(60) DEF ReviewClean
<1>14. CASE Issues
  <2>1. UNCHANGED <<git, mem, disk, merged, unfinished>>
    BY <1>14 DEF Issues
  <2>2. art'.attempt = art.attempt /\ art'.final = art.final
    BY <1>14, <1>t DEF Issues
  <2> QED
    BY <2>1, <2>2, BranchStays
<1>15. CASE EnsureBranch
  <2>1. UNCHANGED <<disk, mem, art, merged, unfinished>>
    BY <1>15 DEF EnsureBranch
  <2>2. \/ git' = git
        \/ /\ git'.head = "feature" /\ git'.branches = git.branches \cup {"feature"}
           /\ git'.rebase = git.rebase
    BY <1>15, <1>t DEF EnsureBranch
  <2> QED BY <2>1, <2>2
<1>16. ASSUME NEW s \in Plain, Plainly(s) PROVE BranchInv'
  BY <1>16, <1>t, <1>a, ZenonT(60) DEF Plainly, Plain, Bind
<1>17. ASSUME NEW s \in {"capture-workflow-branch", "capture-mergeback-branch"},
              CaptureBranch(s)
       PROVE  BranchInv'
  BY <1>17, <1>t, <1>a, ZenonT(60) DEF CaptureBranch, Bind
<1>18. CASE MergebackAttempt
  <2>1. UNCHANGED <<disk, mem, merged, unfinished>> /\ art'.final = art.final
        /\ (art'.attempt = art.attempt \/ art'.attempt # "none")
    BY <1>18, <1>t, ZenonT(60) DEF MergebackAttempt
  <2>2. \/ git' = git
        \/ /\ mem.branch \in git.branches \cup {"target"}
           /\ git'.head = mem.branch /\ git'.branches = git.branches
           /\ git'.rebase = git.rebase
        \/ /\ mem.branch \in git.branches
           /\ git'.head = "rebasing" /\ git'.branches = git.branches
           /\ git'.rebase = mem.branch
    BY <1>18, <1>t, ZenonT(60) DEF MergebackAttempt, Conflict
  <2> QED BY <2>1, <2>2
<1>19. CASE ResolveMergeback
  BY <1>19, <1>t, <1>a DEF ResolveMergeback
<1>20. CASE Finalize
  <2>1. /\ at = "mergeback-finalize" /\ UNCHANGED <<mem, disk, unfinished>>
        /\ art.attempt # "none"
    BY <1>20, <1>a DEF Finalize
  <2>2. art' = art \/ art' = [art EXCEPT !.final = TRUE]
    BY <1>20 DEF Finalize
  <2>3. art'.attempt = art.attempt /\ (art'.final => art.final \/ art'.final = TRUE)
    BY <2>2, <1>t
  <2>4. CASE git' = git /\ merged' = merged /\ art' = art
    BY <1>t, <1>a, <2>1, <2>4, ZenonT(60)
  <2>5. CASE git' = [git EXCEPT !.head = "target"] /\ merged' = merged /\ art' = art
    BY <1>t, <1>a, <2>1, <2>5
  <2>6. CASE /\ git.head # "rebasing" /\ mem.branch \notin git.branches \cup {"", "target"}
             /\ git' = [git EXCEPT !.head = IF git.head = "target" THEN "detached" ELSE git.head]
             /\ merged' = merged
    BY <1>t, <1>a, <2>1, <2>2, <2>3, <2>6
  <2>7. CASE FinalizePart(4)
    <3>1. merged' = (merged \/ 4 > 1)
      BY <2>7 DEF FinalizePart
    <3>2. merged'
      BY <3>1, <1>p, Zenon
    <3> QED BY <1>t, <1>a, <2>1, <2>3, <3>2
  <2>8. CASE (\E n \in 1..4 : FinalizePart(n)) /\ art' = art
    BY <1>20, <2>1, <2>8, <1>f DEF Finalize
  <2> QED BY <1>20, <2>4, <2>5, <2>6, <2>7, <2>8 DEF Finalize
<1>21. CASE Advance
  <2>1. UNCHANGED <<mem, disk, art, git, merged>> /\ (unfinished => unfinished')
    BY <1>21, AdvanceMoves
  <2> QED BY <2>1
<1>22. CASE Save
  BY <1>22, SaveMoves, <1>t, <1>a DEF Save
<1>23. CASE CommitFails
  BY <1>23, <1>t, <1>a DEF CommitFails, Return
<1>24. CASE SaveFailed
  BY <1>24, <1>t, <1>a DEF SaveFailed, Return
<1>25. CASE Crash
  <2>1. UNCHANGED <<mem, disk, art, unfinished>>
    BY <1>25 DEF Crash
  <2>2. CASE git' = git /\ merged' = merged
    BY <1>t, <1>a, <2>1, <2>2, ZenonT(60)
  <2>3. CASE mem.branch \in git.branches /\ Conflict /\ merged' = merged
    BY <1>t, <1>a, <2>1, <2>3 DEF Conflict
  <2>4. CASE Runs("mergeback-finalize") /\ \E n \in 1..4 : FinalizePart(n)
    BY <2>1, <2>4, <1>f
  <2> QED BY <1>25, <2>2, <2>3, <2>4 DEF Crash
<1>26. CASE TurnedAway
  BY <1>26, <1>t, <1>a, ZenonT(60) DEF TurnedAway, Return
<1>27. CASE UNCHANGED vars
  BY <1>27, <1>t, <1>a, ZenonT(60) DEF vars
<1> QED
  BY <1>1, <1>2, <1>3, <1>4, <1>5, <1>6, <1>7, <1>8, <1>9, <1>10,
     <1>11, <1>12, <1>13, <1>14, <1>15, <1>16, <1>17, <1>18, <1>19, <1>20,
     <1>21, <1>22, <1>23, <1>24, <1>25, <1>26, <1>27
     DEF LaneNext, Next, Begin, Step

(* Success is the last thing that a process says.                          *)
LEMMA OkStep ==
  ProcessInv /\ LeftInv /\ StageInv /\ ChainInv /\ LoopInv /\ OkInv
    /\ [LaneNext]_vars => OkInv'
<1> SUFFICES ASSUME ProcessInv, LeftInv, StageInv, ChainInv, LoopInv, OkInv,
                    [LaneNext]_vars
             PROVE  OkInv'
  OBVIOUS
<1> USE DEF Runs, Succeeds, Fails, Tolerated, AgentFails, process, history, OkInv,
            ProcessInv, StepNames
<1>1. CASE StartLane
  BY <1>1 DEF StartLane, Enter, Retries, Blank
<1>2. CASE ResumeLane
  BY <1>2, ResumeMoves DEF ResumeLane, Enter, Retries
<1>3. CASE ResumeFails
  BY <1>3 DEF ResumeFails, Return
<1>4. CASE SkipLane
  BY <1>4 DEF SkipLane, Return
<1>5. CASE Specify
  BY <1>5 DEF Specify, Generate, Writes
<1>6. CASE Plan
  BY <1>6 DEF Plan, Generate, Writes
<1>7. CASE Tasks
  BY <1>7 DEF Tasks, Generate, Writes
<1>8. CASE Analyze
  BY <1>8 DEF Analyze
<1>9. CASE AnalyzeClean
  BY <1>9 DEF AnalyzeClean
<1>10. CASE Remediate
  BY <1>10 DEF Remediate, Writes
<1>11. CASE Implement
  BY <1>11 DEF Implement, Writes
<1>12. CASE CodeReview
  BY <1>12 DEF CodeReview
<1>13. CASE ReviewClean
  BY <1>13 DEF ReviewClean
<1>14. CASE Issues
  BY <1>14 DEF Issues
<1>15. CASE EnsureBranch
  BY <1>15 DEF EnsureBranch
<1>16. ASSUME NEW s \in Plain, Plainly(s) PROVE OkInv'
  BY <1>16 DEF Plainly, Plain, Bind
<1>17. ASSUME NEW s \in {"capture-workflow-branch", "capture-mergeback-branch"},
              CaptureBranch(s)
       PROVE  OkInv'
  BY <1>17 DEF CaptureBranch, Bind
<1>18. CASE MergebackAttempt
  BY <1>18 DEF MergebackAttempt, Conflict
<1>19. CASE ResolveMergeback
  BY <1>19 DEF ResolveMergeback
<1>20. CASE Finalize
  BY <1>20 DEF Finalize, FinalizePart
<1>21. CASE Advance
  BY <1>21, AdvanceMoves DEF Advance
<1>22. CASE Save
  <2>1. CASE at' # "idle"
    BY <1>22, <2>1, SaveMoves DEF Successors
  <2>2. CASE at = "verify-mergeback" /\ UNCHANGED <<art, unfinished>> /\ at' = "idle"
    <3>1. art.final /\ (unfinished \/ LoopIsDone)
      BY <2>2 DEF LeftInv, LoopInv, Past, Finalized, Looped, Merging, Attempted
    <3>2. AnalyzeDone /\ FindingsDone /\ SpecDone /\ PlanDone /\ TasksDone /\ art.issues
      BY <3>1 DEF ChainInv
    <3>3. (StagesDone' /\ art'.final) \/ unfinished'
      BY <2>2, <3>1, <3>2 DEF StagesDone, SpecDone, PlanDone, TasksDone, AnalyzeDone,
                              FindingsDone, LoopIsDone
    <3> QED BY <2>2, <3>3
  <2>3. at' # "idle" \/ (at = "verify-mergeback" /\ at' = "idle")
    BY <1>22, SaveMoves DEF Successors
  <2>4. UNCHANGED <<art, unfinished>>
    BY <1>22, SaveMoves
  <2> QED BY <2>1, <2>2, <2>3, <2>4
<1>23. CASE CommitFails
  BY <1>23 DEF CommitFails, Return
<1>24. CASE SaveFailed
  BY <1>24 DEF SaveFailed, Return
<1>25. CASE Crash
  BY <1>25 DEF Crash, Return, FinalizePart, Conflict
<1>26. CASE TurnedAway
  BY <1>26 DEF TurnedAway, Return
<1>27. CASE UNCHANGED vars
  <2>1. art' = art /\ unfinished' = unfinished /\ exit' = exit /\ at' = at
    BY <1>27 DEF vars
  <2> QED BY <2>1 DEF StagesDone, SpecDone, PlanDone, TasksDone, AnalyzeDone,
                      FindingsDone, LoopIsDone
<1> QED
  BY <1>1, <1>2, <1>3, <1>4, <1>5, <1>6, <1>7, <1>8, <1>9, <1>10,
     <1>11, <1>12, <1>13, <1>14, <1>15, <1>16, <1>17, <1>18, <1>19, <1>20,
     <1>21, <1>22, <1>23, <1>24, <1>25, <1>26, <1>27
     DEF LaneNext, Next, Begin, Step

(* It holds at first: nothing has been done.                               *)
LEMMA SoundInit == Init => SoundInv
<1> SUFFICES ASSUME Init PROVE SoundInv
  OBVIOUS
<1>1. TypeInv /\ LeftInv
  BY LaneInit DEF LaneInv
<1>2. PICK d \in {"none", "concrete"}, t \in {"none", "open", "checked"} :
        art = [spec |-> d, plan |-> d, tasks |-> t, touched |-> FALSE, analyze |-> "none",
               review |-> "none", issues |-> FALSE, attempt |-> "none", final |-> FALSE]
  BY DEF Init
<1>3. /\ art.analyze = "none" /\ art.review = "none" /\ ~art.issues
      /\ art.attempt = "none" /\ ~art.final
  BY <1>2
<1>4. /\ at = "idle" /\ exit = "none" /\ ~merged
      /\ mem.analyze = "none" /\ disk.analyze = "none" /\ mem.branch = "" /\ disk.branch = ""
      /\ git.head = "spec" /\ git.branches = {"spec"} /\ git.rebase = ""
  BY DEF Init, Blank
<1>5. StageInv
  BY <1>4 DEF StageInv, Past, Specified, Planned, Tasked, Remediated, Analyzed, Looping,
              Looped, Merging, Attempted, Finalized
<1>6. ChainInv
  BY <1>3, <1>4 DEF ChainInv, Preparing, Analyzing, Runs, AnalyzeDone
<1>7. FindingsInv
  BY <1>4 DEF FindingsInv
<1>8. LoopInv
  BY <1>3, <1>4 DEF LoopInv, Runs, Looped, Merging, Attempted, Finalized
<1>9. BranchInv
  BY <1>3, <1>4 DEF BranchInv, BranchesKept
<1>10. OkInv
  BY <1>4 DEF OkInv
<1> QED
  BY <1>1, <1>5, <1>6, <1>7, <1>8, <1>9, <1>10 DEF SoundInv

(* And no step changes it.                                                 *)
LEMMA SoundStep == Dependable /\ SoundInv /\ [LaneNext]_vars => SoundInv'
<1> SUFFICES ASSUME Dependable, SoundInv, [LaneNext]_vars PROVE SoundInv'
  OBVIOUS
<1>1. /\ TypeInv /\ LeftInv /\ StageInv /\ ChainInv /\ FindingsInv /\ LoopInv /\ BranchInv
      /\ OkInv
  BY DEF SoundInv
<1>2. ProcessInv /\ art \in Artifacts /\ mem \in Records
  BY <1>1 DEF TypeInv
<1>3. TypeInv'
  BY <1>1, TypeStep
<1>4. LeftInv'
  BY <1>1, <1>2, LeftStep
<1>5. StageInv'
  BY <1>1, <1>2, StageStep
<1>6. ChainInv'
  BY <1>1, <1>2, ChainStep
<1>7. FindingsInv'
  BY <1>1, <1>2, FindingsStep
<1>8. LoopInv'
  BY <1>1, <1>2, LoopStep
<1>9. BranchInv'
  BY <1>1, BranchStep
<1>10. OkInv'
  BY <1>1, <1>2, OkStep
<1> QED
  BY <1>3, <1>4, <1>5, <1>6, <1>7, <1>8, <1>9, <1>10 DEF SoundInv

(* It is an invariant of the lane, with its journal or without.            *)
LEMMA SoundInvariant ==
  ASSUME Dependable
  PROVE  (Spec => []SoundInv) /\ (JournalSpec => []SoundInv)
<1>0. SoundInv /\ [LaneNext]_vars => SoundInv'
  BY SoundStep
<1>1. Spec => []SoundInv
  <2>1. [Next]_vars => [LaneNext]_vars
    BY DEF LaneNext
  <2> QED BY SoundInit, <1>0, <2>1, PTL DEF Spec
<1>2. JournalSpec => []SoundInv
  <2>1. JournalInit => Init
    BY DEF JournalInit
  <2> QED BY SoundInit, <1>0, JournalledStep, <2>1, PTL DEF JournalSpec
<1> QED
  BY <1>1, <1>2

(* A lane counts as completed only when the increment branch has what the  *)
(* worktree had, whatever crashed in the middle of the merge, and however  *)
(* often: a branch that is gone has been merged                            *)
(* (adapters/git/mergeback.go, speckit_artifact_state.go:164-207).         *)
THEOREM CompletionSafe ==
  ASSUME Dependable
  PROVE  (Spec => []CompletedIsMerged) /\ (JournalSpec => []CompletedIsMerged)
<1>1. SoundInv => CompletedIsMerged
  BY CompletedIs DEF SoundInv, BranchInv, CompletedIsMerged
<1> QED
  BY <1>1, SoundInvariant, PTL

(* What is merged is what the last review has seen, as long as no review   *)
(* has passed unfinished work                                              *)
(* (speckit_artifact_state.go:143-160).                                    *)
THEOREM ReviewSafe ==
  ASSUME Dependable
  PROVE  (Spec => []ReviewIsCurrent) /\ (JournalSpec => []ReviewIsCurrent)
<1>1. SoundInv => ReviewIsCurrent
  <2> SUFFICES ASSUME SoundInv, Runs("mergeback-finalize"), ~unfinished PROVE fresh
    BY DEF ReviewIsCurrent
  <2>1. LoopInv /\ at \in Looped
    BY DEF SoundInv, Runs, Looped, Merging, Attempted
  <2> QED BY <2>1 DEF LoopInv, LoopIsDone
<1> QED
  BY <1>1, SoundInvariant, PTL

(* A process that reports success has completed the lane, unless the loop  *)
(* was once over and not done (worktree_executor.go:118-138).              *)
THEOREM SuccessSafe ==
  ASSUME Dependable
  PROVE  (Spec => []OkMeansCompleted) /\ (JournalSpec => []OkMeansCompleted)
<1>1. SoundInv => OkMeansCompleted
  BY CompletedIs DEF SoundInv, OkInv, OkMeansCompleted
<1> QED
  BY <1>1, SoundInvariant, PTL

-----------------------------------------------------------------------------
(* The journal.                                                            *)

Statuses == {"none", "running", "succeeded", "failed", "blocked"}

(* What the observer has heard is about the step that the process is at:   *)
(* of a step of a stage it has written that it began.                      *)
HeardInv ==
  /\ heard \in {"nothing", "started", "succeeded", "failed"}
  /\ heard = "started" => at \in Stages /\ latest[at] = "running"
  /\ heard \in {"succeeded", "failed"} => at \in Observed
  /\ heard = "failed" => ~(at = "verify-mergeback" /\ phase = "save")
  /\ heard = "succeeded" =>
       /\ phase = "save"
       /\ at = "analyze-clean" => art.analyze = "clean"
       /\ at = "review-clean" => art.review = "clean"

(* What the journal says: an attempt that is begun is never forgotten, and *)
(* the last one of the mergeback is ended by the last step.                *)
WrittenInv ==
  /\ latest \in [Stages -> Statuses]
  /\ \A s \in Stages : latest[s] = "succeeded" => Left(s)
  /\ art.attempt # "none" => latest["mergeback-attempt"] # "none"
  /\ at = "verify-mergeback" /\ phase = "save" /\ heard = "nothing" =>
       latest["mergeback-attempt"] = "succeeded"
  /\ exit = "ok" => at = "idle" /\ latest["mergeback-attempt"] = "succeeded"

JournalInv == LaneInv /\ HeardInv /\ WrittenInv

(* Artifacts are not lost, and the findings change only when their step    *)
(* runs; only the last step of the lane ends in success.                   *)
ArtifactsKept ==
  /\ art.spec # "none" => art'.spec # "none"
  /\ art.plan # "none" => art'.plan # "none"
  /\ art.tasks # "none" => art'.tasks # "none"
  /\ art.issues => art'.issues
  /\ art.final => art'.final
  /\ ~Runs("analyze") => art'.analyze = art.analyze
  /\ ~Runs("code-review") => art'.review = art.review
  /\ ~Runs("mergeback-attempt") => art'.attempt = art.attempt

StepMoves ==
  /\ ArtifactsKept
  /\ phase = "run" => at' = at /\ exit' = exit
  /\ phase # "run" => art' = art /\ (at' = "verify-mergeback" => phase' = "run")
  /\ exit' = "ok" => exit = "ok" \/ (at = "verify-mergeback" /\ phase = "save" /\ at' = "idle")

(* Every step of a process moves so.                                       *)
LEMMA StepIsMove == art \in Artifacts /\ Step => StepMoves
<1> SUFFICES ASSUME art \in Artifacts, Step PROVE StepMoves
  OBVIOUS
<1> USE DEF Runs, Succeeds, Fails, Tolerated, AgentFails, process, history, Artifacts,
            StepMoves, ArtifactsKept
<1>1. CASE Specify
  <2>1. /\ at = "specify" /\ at' = at /\ phase = "run"
        /\ exit' = exit
    BY <1>1 DEF Specify, Generate
  <2>2. art' = art \/ \E p \in {"concrete", "poor", "open"} : Writes("spec", p)
    BY <1>1 DEF Specify, Generate
  <2>3. /\ art'.plan = art.plan /\ art'.tasks = art.tasks
        /\ art'.analyze = art.analyze /\ art'.review = art.review
        /\ art'.issues = art.issues /\ art'.attempt = art.attempt /\ art'.final = art.final
    BY <2>2, WritesOne
  <2>4. art'.spec = art.spec \/ art'.spec \in {"concrete", "poor", "open"}
    BY <2>2, WritesOne
  <2> QED
    BY <2>1, <2>3, <2>4
<1>2. CASE Plan
  <2>1. /\ at = "plan" /\ at' = at /\ phase = "run"
        /\ exit' = exit
    BY <1>2 DEF Plan, Generate
  <2>2. art' = art \/ \E p \in {"concrete", "poor", "open"} : Writes("plan", p)
    BY <1>2 DEF Plan, Generate
  <2>3. /\ art'.spec = art.spec /\ art'.tasks = art.tasks
        /\ art'.analyze = art.analyze /\ art'.review = art.review
        /\ art'.issues = art.issues /\ art'.attempt = art.attempt /\ art'.final = art.final
    BY <2>2, WritesOne
  <2>4. art'.plan = art.plan \/ art'.plan \in {"concrete", "poor", "open"}
    BY <2>2, WritesOne
  <2> QED
    BY <2>1, <2>3, <2>4
<1>3. CASE Tasks
  <2>1. /\ at = "tasks" /\ at' = at /\ phase = "run"
        /\ exit' = exit
    BY <1>3 DEF Tasks, Generate
  <2>2. art' = art \/ \E p \in {"concrete", "poor", "open"} : Writes("tasks", p)
    BY <1>3 DEF Tasks, Generate
  <2>3. /\ art'.spec = art.spec /\ art'.plan = art.plan
        /\ art'.analyze = art.analyze /\ art'.review = art.review
        /\ art'.issues = art.issues /\ art'.attempt = art.attempt /\ art'.final = art.final
    BY <2>2, WritesOne
  <2>4. art'.tasks = art.tasks \/ art'.tasks \in {"concrete", "poor", "open"}
    BY <2>2, WritesOne
  <2> QED
    BY <2>1, <2>3, <2>4
<1>4. CASE Analyze
  <2>1. at = "analyze" /\ phase = "run" /\ at' = at /\ exit' = exit
    BY <1>4 DEF Analyze
  <2>2. \/ art' = art
        \/ \E v \in {"clean", "blocking"} :
             art' = [art EXCEPT !.analyze = v, !.touched = FALSE]
    BY <1>4 DEF Analyze
  <2>3. /\ art'.spec = art.spec /\ art'.plan = art.plan /\ art'.tasks = art.tasks
        /\ art'.review = art.review /\ art'.issues = art.issues
        /\ art'.attempt = art.attempt /\ art'.final = art.final
    BY <2>2
  <2> QED
    BY <2>1, <2>3
<1>5. CASE AnalyzeClean
  BY <1>5 DEF AnalyzeClean
<1>6. CASE Remediate
  <2>1. at = "tasks-remediation" /\ phase = "run" /\ at' = at /\ exit' = exit
    BY <1>6 DEF Remediate
  <2>2. art' = art \/ Writes("tasks", "open")
    BY <1>6 DEF Remediate
  <2>3. /\ art'.spec = art.spec /\ art'.plan = art.plan /\ art'.analyze = art.analyze
        /\ art'.review = art.review /\ art'.issues = art.issues
        /\ art'.attempt = art.attempt /\ art'.final = art.final
        /\ art'.tasks \in {art.tasks, "open"}
    BY <2>2, WritesOne
  <2> QED
    BY <2>1, <2>3
<1>7. CASE Implement
  <2>1. at = "implement" /\ phase = "run" /\ at' = at /\ exit' = exit
    BY <1>7 DEF Implement
  <2>2. \/ art' = art
        \/ Writes("tasks", IF art.tasks = "open" THEN "checked" ELSE art.tasks)
        \/ Writes("tasks", art.tasks)
    BY <1>7 DEF Implement
  <2>3. /\ art'.spec = art.spec /\ art'.plan = art.plan /\ art'.analyze = art.analyze
        /\ art'.review = art.review /\ art'.issues = art.issues
        /\ art'.attempt = art.attempt /\ art'.final = art.final
        /\ (art'.touched = art.touched \/ art'.touched = TRUE)
        /\ art'.tasks \in {art.tasks, IF art.tasks = "open" THEN "checked" ELSE art.tasks}
    BY <2>2, WritesOne
  <2> QED
    BY <2>1, <2>3
<1>8. CASE CodeReview
  BY <1>8 DEF CodeReview
<1>9. CASE ReviewClean
  BY <1>9 DEF ReviewClean
<1>10. CASE Issues
  BY <1>10 DEF Issues
<1>11. CASE EnsureBranch
  BY <1>11 DEF EnsureBranch
<1>12. ASSUME NEW s \in Plain, Plainly(s) PROVE StepMoves
  BY <1>12 DEF Plainly, Plain, Bind
<1>13. ASSUME NEW s \in {"capture-workflow-branch", "capture-mergeback-branch"},
              CaptureBranch(s)
       PROVE  StepMoves
  BY <1>13 DEF CaptureBranch, Bind
<1>14. CASE MergebackAttempt
  BY <1>14 DEF MergebackAttempt, Conflict
<1>15. CASE ResolveMergeback
  BY <1>15 DEF ResolveMergeback
<1>16. CASE Finalize
  BY <1>16, ZenonT(60) DEF Finalize, FinalizePart
<1>17. CASE Advance
  BY <1>17, AdvanceMoves DEF Advance
<1>18. CASE Save
  BY <1>18, SaveMoves DEF Save, Successors
<1>19. CASE CommitFails
  BY <1>19 DEF CommitFails, Return
<1>20. CASE SaveFailed
  BY <1>20 DEF SaveFailed, Return
<1> QED
  BY <1>1, <1>2, <1>3, <1>4, <1>5, <1>6, <1>7, <1>8, <1>9, <1>10,
     <1>11, <1>12, <1>13, <1>14, <1>15, <1>16, <1>17, <1>18, <1>19, <1>20
     DEF Step

(* No process that begins, or dies, has done anything.                     *)
LEMMA BeginIsMove == Begin => art' = art /\ exit' # "ok" /\ at' # "verify-mergeback"
<1>1. ASSUME StartLane PROVE art' = art /\ exit' # "ok" /\ at' # "verify-mergeback"
  BY <1>1 DEF StartLane, Enter
<1>2. ASSUME ResumeLane PROVE art' = art /\ exit' # "ok" /\ at' # "verify-mergeback"
  BY <1>2, ResumeMoves DEF ResumePoints
<1>3. ASSUME ResumeFails \/ SkipLane PROVE art' = art /\ exit' # "ok" /\ at' # "verify-mergeback"
  BY <1>3 DEF ResumeFails, SkipLane, Return
<1> QED
  BY <1>1, <1>2, <1>3 DEF Begin

(* It holds of an empty journal.                                           *)
LEMMA JournalInitial == JournalInit => HeardInv /\ WrittenInv
<1> SUFFICES ASSUME JournalInit PROVE HeardInv /\ WrittenInv
  OBVIOUS
<1>1. /\ latest = [s \in Stages |-> "none"] /\ heard = "nothing" /\ Init
  BY DEF JournalInit
<1>2. at = "idle" /\ exit = "none" /\ art.attempt = "none"
  <2>1. PICK d \in {"none", "concrete"}, t \in {"none", "open", "checked"} :
          art = [spec |-> d, plan |-> d, tasks |-> t, touched |-> FALSE, analyze |-> "none",
                 review |-> "none", issues |-> FALSE, attempt |-> "none", final |-> FALSE]
    BY <1>1 DEF Init
  <2> QED BY <1>1, <2>1 DEF Init
<1>3. HeardInv
  BY <1>1 DEF HeardInv
<1>4. WrittenInv
  BY <1>1, <1>2 DEF WrittenInv, Statuses
<1> QED
  BY <1>3, <1>4

(* A step about which nothing is heard or written leaves what has been     *)
(* written true, if the artifacts are kept.                                *)
LEMMA KeptTrue ==
  ASSUME WrittenInv, ArtifactsKept, latest' = latest,
         Runs("analyze") => latest["analyze"] = "running",
         Runs("code-review") => latest["code-review"] = "running"
  PROVE  \A s \in Stages : latest'[s] = "succeeded" => Left(s)'
  BY DEF WrittenInv, ArtifactsKept, Left, Stages

(* What an end that the observer has heard of makes of a stage.            *)
LEMMA EndsAre ==
  ASSUME LaneInv, HeardInv, NEW s \in About(at), NEW high \in BOOLEAN,
         heard \in {"succeeded", "failed"}
  PROVE  /\ Recorded(s, at, high) \in Statuses \ {"none"}
         /\ Recorded(s, at, high) = "succeeded" => Left(s)
         /\ at = "verify-mergeback" /\ heard = "succeeded" =>
              s = "mergeback-attempt" /\ Recorded(s, at, high) = "succeeded"
<1>1. Recorded(s, at, high) \in Statuses \ {"none"}
  BY DEF Recorded, StageStatus, Statuses
<1>2. s \in Stages /\ (s = at \/ <<s, at>> \in VerifiedBy)
  BY DEF About
<1>3. at = "verify-mergeback" => s = "mergeback-attempt"
  BY <1>2 DEF VerifiedBy, Stages
<1>4. at = "verify-mergeback" /\ heard = "succeeded" => Recorded(s, at, high) = "succeeded"
  BY <1>3 DEF Recorded, StageStatus, Findings
<1>5. ASSUME Recorded(s, at, high) = "succeeded" PROVE Left(s)
  <2>1. heard = "succeeded" /\ phase = "save"
    BY <1>5 DEF Recorded, StageStatus, HeardInv
  <2>2. s = at => ~\E v \in VerifiedBy : v[1] = s
    BY <1>5, <2>1 DEF Recorded
  <2>3. CASE s = at
    <3>1. at \in {"specify", "plan", "tasks", "implement", "issues-from-review"}
      BY <1>2, <2>2, <2>3 DEF Stages, VerifiedBy
    <3> QED BY <2>1, <2>3, <3>1 DEF Left, LaneInv, LeftInv, Past, Tasked, Analyzed,
                                    Looping
  <2>4. CASE <<s, at>> \in VerifiedBy
    <3>1. \/ s = "analyze" /\ at = "analyze-clean"
          \/ s = "code-review" /\ at = "review-clean"
          \/ s = "mergeback-attempt" /\ at = "verify-mergeback"
      BY <2>4 DEF VerifiedBy
    <3> QED BY <2>1, <3>1 DEF Left, HeardInv, LaneInv, LeftInv, Past, Finalized
  <2> QED BY <1>2, <2>3, <2>4
<1> QED
  BY <1>1, <1>3, <1>4, <1>5

(* The journal is kept so by every step.                                   *)
LEMMA JournalStep ==
  LaneInv /\ HeardInv /\ WrittenInv /\ [JournalNext]_<<vars, journalVars>>
    => HeardInv' /\ WrittenInv'
<1> SUFFICES ASSUME LaneInv, HeardInv, WrittenInv, [JournalNext]_<<vars, journalVars>>
             PROVE  HeardInv' /\ WrittenInv'
  OBVIOUS
<1>t. art \in Artifacts /\ ProcessInv /\ LeftInv
  BY DEF LaneInv, TypeInv
<1>o. "idle" \notin Observed /\ "idle" \notin Stages
  BY DEF Observed, Stages, VerifiedBy
<1>b. ASSUME Begin \/ TurnedAway, UNCHANGED journalVars PROVE HeardInv' /\ WrittenInv'
  <2>1. at = "idle"
    BY <1>b DEF Begin, StartLane, ResumeLane, ResumeFails, SkipLane, TurnedAway
  <2>2. heard = "nothing"
    BY <1>o, <2>1 DEF HeardInv
  <2>3. art' = art /\ exit' # "ok" /\ at' # "verify-mergeback"
    BY <1>b, BeginIsMove DEF TurnedAway, Return
  <2>4. latest' = latest /\ heard' = "nothing"
    BY <1>b, <2>2 DEF journalVars
  <2>5. HeardInv'
    BY <2>4 DEF HeardInv
  <2>6. WrittenInv'
    BY <2>3, <2>4 DEF WrittenInv, Left
  <2> QED BY <2>5, <2>6
<1>1. CASE BeginWithJournal
  BY <1>1, <1>b DEF BeginWithJournal
<1>2. CASE SkipWithoutJournal
  BY <1>2, <1>b DEF SkipWithoutJournal, Begin
<1>3. CASE JournalUnreadable
  BY <1>3, <1>b DEF JournalUnreadable, TurnedAway, journalVars
<1>4. CASE StepStarted
  <2>1. /\ at \in Stages /\ phase = "run" /\ heard' = "started" /\ UNCHANGED vars
        /\ latest' = [latest EXCEPT ![at] = "running"]
    BY <1>4 DEF StepStarted
  <2>2. UNCHANGED <<at, phase, exit, art>>
    BY <2>1 DEF vars, process
  <2>3. HeardInv'
    BY <2>1, <2>2 DEF HeardInv, WrittenInv
  <2>4. latest' \in [Stages -> Statuses]
    BY <2>1 DEF WrittenInv, Statuses
  <2>5. \A s \in Stages : latest'[s] = "succeeded" => Left(s)'
    BY <2>1, <2>2 DEF WrittenInv, Left
  <2>6. art.attempt # "none" => latest'["mergeback-attempt"] # "none"
    BY <2>1 DEF WrittenInv, Stages
  <2>7. exit # "ok"
    BY <2>1, <1>o DEF WrittenInv
  <2>8. ~(at = "verify-mergeback")
    BY <2>1 DEF Stages
  <2> QED BY <2>2, <2>3, <2>4, <2>5, <2>6, <2>7, <2>8 DEF WrittenInv
<1>5. CASE RunStep
  <2>1. /\ phase = "run" /\ Step /\ latest' = latest
        /\ heard = IF at \in Stages THEN "started" ELSE "nothing"
        /\ heard' = IF at \in Observed THEN EndOfStep ELSE "nothing"
    BY <1>5 DEF RunStep
  <2>2. StepMoves
    BY <1>t, <2>1, StepIsMove
  <2>3. at' = at /\ exit' = exit /\ ArtifactsKept
    BY <2>1, <2>2 DEF StepMoves
  <2>4. at \in Stages => latest[at] = "running"
    BY <2>1 DEF HeardInv
  <2>5. HeardInv'
    <3>1. EndOfStep \in {"succeeded", "failed"}
      BY DEF EndOfStep
    <3>2. EndOfStep = "succeeded" =>
            /\ phase' = "save"
            /\ at = "analyze-clean" => art.analyze = "clean"
            /\ at = "review-clean" => art.review = "clean"
      BY DEF EndOfStep
    <3>4. EndOfStep = "failed" => ~(at = "verify-mergeback" /\ phase' = "save")
      BY DEF EndOfStep
    <3>3. /\ at = "analyze-clean" => art'.analyze = art.analyze
          /\ at = "review-clean" => art'.review = art.review
      BY <2>3 DEF ArtifactsKept, Runs
    <3> QED BY <2>1, <2>3, <3>1, <3>2, <3>3, <3>4 DEF HeardInv
  <2>6. \A s \in Stages : latest'[s] = "succeeded" => Left(s)'
    BY <2>1, <2>3, <2>4, KeptTrue DEF Runs, Stages
  <2>7. art'.attempt # "none" => latest'["mergeback-attempt"] # "none"
    BY <2>1, <2>3, <2>4 DEF ArtifactsKept, Runs, Stages, WrittenInv
  <2>8. at' = "verify-mergeback" => heard' # "nothing"
    BY <2>1, <2>3 DEF EndOfStep, Observed, VerifiedBy
  <2> QED BY <2>1, <2>3, <2>5, <2>6, <2>7, <2>8 DEF WrittenInv
<1>6. CASE StepCompleted
  <2>1. /\ heard \in {"succeeded", "failed"} /\ heard' = "nothing" /\ UNCHANGED vars
        /\ at \in Observed
    BY <1>6 DEF StepCompleted, HeardInv
  <2>2. PICK s \in About(at), high \in BOOLEAN :
          latest' = [latest EXCEPT ![s] = IF @ = "none" THEN @ ELSE Recorded(s, at, high)]
    BY <1>6 DEF StepCompleted
  <2>3. UNCHANGED <<at, phase, exit, art>>
    BY <2>1 DEF vars, process
  <2>4. s \in Stages
    BY <2>2 DEF About
  <2>5. latest'[s] = IF latest[s] = "none" THEN "none" ELSE Recorded(s, at, high)
    BY <2>2, <2>4 DEF WrittenInv
  <2>6. \A r \in Stages : r # s => latest'[r] = latest[r]
    BY <2>2, <2>4 DEF WrittenInv
  <2>7. latest' \in [Stages -> Statuses]
    BY <2>1, <2>2, <2>4, EndsAre DEF WrittenInv
  <2>8. \A r \in Stages : latest'[r] = "succeeded" => Left(r)
    BY <2>1, <2>2, <2>5, <2>6, EndsAre DEF WrittenInv
  <2>9. \A r \in Stages : Left(r)' <=> Left(r)
    BY <2>3 DEF Left
  <2>10. art.attempt # "none" => latest'["mergeback-attempt"] # "none"
    BY <2>1, <2>2, <2>5, <2>6, EndsAre DEF WrittenInv, Stages
  <2>11. at = "verify-mergeback" /\ phase = "save" => latest'["mergeback-attempt"] = "succeeded"
    <3> SUFFICES ASSUME at = "verify-mergeback", phase = "save"
                 PROVE  latest'["mergeback-attempt"] = "succeeded"
      OBVIOUS
    <3>1. heard = "succeeded"
      BY <2>1 DEF HeardInv
    <3>2. latest["mergeback-attempt"] # "none"
      BY <1>t DEF LeftInv, WrittenInv, Past, Attempted, Finalized
    <3> QED BY <2>1, <2>2, <2>5, <3>1, <3>2, EndsAre
  <2>12. exit # "ok"
    BY <2>1, <1>o DEF WrittenInv
  <2>13. HeardInv'
    BY <2>1 DEF HeardInv
  <2> QED BY <2>3, <2>7, <2>8, <2>9, <2>10, <2>11, <2>12, <2>13 DEF WrittenInv
<1>7. CASE AfterStep
  <2>1. phase # "run" /\ heard = "nothing" /\ Step /\ heard' = heard /\ latest' = latest
    BY <1>7 DEF AfterStep, journalVars
  <2>2. StepMoves
    BY <1>t, <2>1, StepIsMove
  <2>3. /\ art' = art /\ (at' = "verify-mergeback" => phase' = "run")
        /\ exit' = "ok" =>
             exit = "ok" \/ (at = "verify-mergeback" /\ phase = "save" /\ at' = "idle")
    BY <2>1, <2>2 DEF StepMoves
  <2>4. exit # "ok"
    BY <2>1, <1>t DEF WrittenInv, ProcessInv, ControlInv
  <2>5. HeardInv'
    BY <2>1 DEF HeardInv
  <2>6. \A r \in Stages : Left(r)' <=> Left(r)
    BY <2>3 DEF Left
  <2> QED BY <2>1, <2>3, <2>4, <2>5, <2>6 DEF WrittenInv
<1>8. CASE CrashWithJournal
  <2>1. /\ art' = art /\ exit' = "crash" /\ at' = "idle" /\ latest' = latest
        /\ heard' = "nothing"
    BY <1>8 DEF CrashWithJournal, Crash, Return
  <2>2. HeardInv'
    BY <2>1 DEF HeardInv
  <2>3. WrittenInv'
    BY <2>1 DEF WrittenInv, Left
  <2> QED BY <2>2, <2>3
<1>9. CASE UNCHANGED <<vars, journalVars>>
  <2>1. UNCHANGED <<at, phase, exit, art, latest, heard>>
    BY <1>9 DEF vars, process, journalVars
  <2>2. HeardInv'
    BY <2>1 DEF HeardInv
  <2>3. WrittenInv'
    BY <2>1 DEF WrittenInv, Left
  <2> QED BY <2>2, <2>3
<1> QED
  BY <1>1, <1>2, <1>3, <1>4, <1>5, <1>6, <1>7, <1>8, <1>9 DEF JournalNext

(* What the journal calls succeeded has left its artifacts, whatever died  *)
(* between an artifact and the journal; and a lane that returned success   *)
(* ends in it with a mergeback that succeeded                              *)
(* (speckit_journal.go:77-123).                                            *)
THEOREM JournalSafe == JournalSpec => []JournalIsTrue
<1>1. WrittenInv => JournalIsTrue
  BY DEF WrittenInv, JournalIsTrue
<1>2. JournalSpec => [](HeardInv /\ WrittenInv)
  BY JournalInitial, JournalStep, LaneInvariant, PTL DEF JournalSpec
<1> QED
  BY <1>1, <1>2, PTL

-----------------------------------------------------------------------------
(* When no process dies between an artifact and a save.                    *)

(* A step that fails leaves nothing, and nothing else ends a process.      *)
Uninterrupted == Kinds \cap {"crash", "leftover", "vague", "setup"} = {}

(* The variables that the steps up to the plan bind.                       *)
Early == {"feature_directory", "phase_input", "plan_input", "analyze_input",
          "current_branch"}

(* What a process knows when it is at a step.                              *)
BoundInv ==
  /\ Past("capture-feature-directory", Specified \ {"capture-feature-directory"}) =>
       "feature_directory" \in mem.bound
  /\ Past("set-phase-input", {"set-plan-input", "set-analyze-input",
          "capture-workflow-branch", "review-spec", "plan"} \cup Planned) =>
       "phase_input" \in mem.bound
  /\ Past("set-plan-input", {"set-analyze-input", "capture-workflow-branch",
          "review-spec", "plan"} \cup Planned) => "plan_input" \in mem.bound
  /\ Past("set-analyze-input", {"capture-workflow-branch", "review-spec", "plan"}
          \cup Planned) => "analyze_input" \in mem.bound
  /\ Past("capture-workflow-branch", {"review-spec", "plan"} \cup Planned) =>
       "current_branch" \in mem.bound
  /\ Past("set-tasks-input", {"tasks"} \cup Tasked) => "tasks_input" \in mem.bound
  /\ Past("set-implement-input", Looping \cup Looped) => "implement_input" \in mem.bound

(* What is known of findings is known from the moment that they are there. *)
KnownInv ==
  /\ mem.exists /\ (at # "idle" => disk.exists)
  /\ mem.analyze = art.analyze
  /\ AnalyzeDone => "analyze" \in mem.bound
  /\ art.review # "none" => "code-review" \in mem.bound

(* state.json has what the steps before the one to resume at have bound.   *)
SavedInv ==
  at = "idle" /\ disk.exists =>
    /\ disk = mem
    /\ SpecDone => Early \subseteq mem.bound
    /\ PlanDone => "tasks_input" \in mem.bound
    /\ AnalyzeDone /\ FindingsDone => "implement_input" \in mem.bound

(* Only commands, the commit and the steps of the mergeback may fail, and  *)
(* a command that has not succeeded has not done its stage.                *)
FailInv ==
  /\ phase = "fail" => at \in {"specify", "plan", "tasks", "analyze", "tasks-remediation",
       "implement", "code-review", "commit-before-mergeback", "mergeback-attempt",
       "resolve-mergeback", "mergeback-finalize"}
  /\ at = "specify" /\ phase # "save" => ~SpecDone
  /\ PlanDone => SpecDone
  /\ at \in ({"specify"} \cup Specified) \ ({"plan"} \cup Planned)
       \/ (at = "plan" /\ phase # "save") => ~PlanDone
  /\ at = "analyze" /\ phase # "save" => ~AnalyzeDone
  /\ (at = "analyze" /\ phase = "save") \/ at = "analyze-clean"
       \/ (at = "tasks-remediation" /\ phase # "save") => ~art.touched
  /\ at = "tasks-remediation" /\ phase = "fail" => art.analyze = "blocking"
  /\ git.head = "rebasing" => art.attempt # "none"

InputsInv == SoundInv /\ BoundInv /\ KnownInv /\ SavedInv /\ FailInv

(* What a set_var step binds, and that nothing else comes of it.           *)
LEMMA PlainlyBinds ==
  ASSUME mem \in Records, NEW s, Plainly(s)
  PROVE  /\ at = s /\ phase = "run" /\ at' = at /\ UNCHANGED <<disk, art, git, history>>
         /\ phase' = "save" \/ (s = "commit-before-mergeback" /\ mem' = mem /\ Fails)
         /\ mem'.exists = mem.exists /\ mem'.analyze = mem.analyze
         /\ mem.bound \subseteq mem'.bound
         /\ s = "capture-feature-directory" => "feature_directory" \in mem'.bound
         /\ s = "set-phase-input" => "phase_input" \in mem'.bound
         /\ s = "set-plan-input" => "plan_input" \in mem'.bound
         /\ s = "set-analyze-input" => "analyze_input" \in mem'.bound
         /\ s = "set-tasks-input" => "tasks_input" \in mem'.bound
         /\ s = "set-implement-input" => "implement_input" \in mem'.bound
<1>1. at = s /\ phase = "run" /\ UNCHANGED <<disk, art, git, history>>
  BY DEF Plainly, Runs
<1>2. CASE Succeeds /\ mem' = Bind({b[2] : b \in {c \in Binds : c[1] = s}})
  <2> DEFINE vs == {b[2] : b \in {c \in Binds : c[1] = s}}
  <2>1. \A v : <<s, v>> \in Binds => v \in vs
    OBVIOUS
  <2>2. mem' = [mem EXCEPT !.bound = mem.bound \cup vs]
    BY <1>2 DEF Bind
  <2>3. mem'.bound = mem.bound \cup vs /\ mem'.exists = mem.exists /\ mem'.analyze = mem.analyze
    BY <2>2 DEF Records
  <2>4. /\ <<"capture-feature-directory", "feature_directory">> \in Binds
        /\ <<"set-phase-input", "phase_input">> \in Binds
        /\ <<"set-plan-input", "plan_input">> \in Binds
        /\ <<"set-analyze-input", "analyze_input">> \in Binds
        /\ <<"set-tasks-input", "tasks_input">> \in Binds
        /\ <<"set-implement-input", "implement_input">> \in Binds
    BY DEF Binds
  <2>5. phase' = "save" /\ at' = at
    BY <1>2 DEF Succeeds
  <2> HIDE DEF vs
  <2> QED BY <1>1, <2>1, <2>3, <2>4, <2>5
<1>3. CASE s = "commit-before-mergeback" /\ Fails /\ UNCHANGED mem
  BY <1>1, <1>3 DEF Fails
<1> QED
  BY <1>2, <1>3 DEF Plainly

(* A step that captures the branch.                                        *)
LEMMA CaptureBinds ==
  ASSUME mem \in Records, NEW s, CaptureBranch(s)
  PROVE  /\ at = s /\ phase = "run" /\ at' = at /\ phase' = "save"
         /\ UNCHANGED <<disk, art, git, history>>
         /\ mem'.exists = mem.exists /\ mem'.analyze = mem.analyze
         /\ mem'.bound = mem.bound \cup {"current_branch"}
<1>1. /\ at = s /\ phase = "run" /\ at' = at /\ phase' = "save"
      /\ UNCHANGED <<disk, art, git, history>>
  BY DEF CaptureBranch, Runs, Succeeds
<1>2. mem' = [Bind({"current_branch"}) EXCEPT
               !.branch = IF git.head \in {"detached", "rebasing"} THEN "" ELSE git.head]
  BY DEF CaptureBranch
<1>3. /\ mem'.exists = mem.exists /\ mem'.analyze = mem.analyze
      /\ mem'.bound = mem.bound \cup {"current_branch"}
  BY <1>2 DEF Bind, Records
<1> QED BY <1>1, <1>3

(* The findings of this process, or of the one that is resumed, are those  *)
(* of the artifacts.                                                       *)
LEMMA KnownStep ==
  Uninterrupted /\ ProcessInv /\ mem \in Records /\ art \in Artifacts /\ ChainInv
    /\ SavedInv /\ KnownInv /\ [LaneNext]_vars => KnownInv'
<1> SUFFICES ASSUME Uninterrupted, ProcessInv, mem \in Records, art \in Artifacts,
                    ChainInv, SavedInv, KnownInv, [LaneNext]_vars
             PROVE  KnownInv'
  OBVIOUS
<1>u. ~Fault("crash") /\ ~Fault("leftover") /\ ~Fault("vague") /\ ~Fault("setup")
  BY DEF Fault, Uninterrupted
<1> USE DEF Runs, Succeeds, Fails, Tolerated, AgentFails, process, history, Artifacts,
            Records, ProcessInv, ControlInv, AnalyzeDone, KnownInv
<1>1. CASE StartLane
  <2>1. art' = art /\ mem' = Blank /\ disk' = Blank
    BY <1>1 DEF StartLane
  <2>2. ~SpecDone
    BY <1>1, ResumeFacts DEF StartLane
  <2>3. ~AnalyzeDone /\ art.review = "none"
    BY <2>2 DEF ChainInv
  <2> QED BY <2>1, <2>3 DEF Blank, AnalyzeDone, Artifacts
<1>2. CASE ResumeLane
  <2>1. UNCHANGED <<art, disk>> /\ mem' = disk /\ disk.exists /\ at = "idle"
    BY <1>2, ResumeMoves
  <2>2. disk = mem
    BY <2>1 DEF SavedInv
  <2> QED BY <2>1, <2>2
<1>3. CASE ResumeFails
  BY <1>3 DEF ResumeFails, Return
<1>4. CASE SkipLane
  BY <1>4 DEF SkipLane, Return
<1>5. CASE Specify
  <2>1. /\ at = "specify" /\ at' = at /\ phase = "run"
        /\ UNCHANGED <<mem, disk>>
    BY <1>5 DEF Specify, Generate
  <2>2. art' = art \/ \E p \in {"concrete", "poor", "open"} : Writes("spec", p)
    BY <1>5 DEF Specify, Generate
  <2>3. /\ art'.plan = art.plan /\ art'.tasks = art.tasks
        /\ art'.analyze = art.analyze /\ art'.review = art.review
        /\ art'.issues = art.issues /\ art'.attempt = art.attempt /\ art'.final = art.final
    BY <2>2, WritesOne
  <2> QED
    BY <2>1, <2>3
<1>6. CASE Plan
  <2>1. /\ at = "plan" /\ at' = at /\ phase = "run"
        /\ UNCHANGED <<mem, disk>>
    BY <1>6 DEF Plan, Generate
  <2>2. art' = art \/ \E p \in {"concrete", "poor", "open"} : Writes("plan", p)
    BY <1>6 DEF Plan, Generate
  <2>3. /\ art'.spec = art.spec /\ art'.tasks = art.tasks
        /\ art'.analyze = art.analyze /\ art'.review = art.review
        /\ art'.issues = art.issues /\ art'.attempt = art.attempt /\ art'.final = art.final
    BY <2>2, WritesOne
  <2> QED
    BY <2>1, <2>3
<1>7. CASE Tasks
  <2>1. /\ at = "tasks" /\ at' = at /\ phase = "run"
        /\ UNCHANGED <<mem, disk>>
    BY <1>7 DEF Tasks, Generate
  <2>2. art' = art \/ \E p \in {"concrete", "poor", "open"} : Writes("tasks", p)
    BY <1>7 DEF Tasks, Generate
  <2>3. /\ art'.spec = art.spec /\ art'.plan = art.plan
        /\ art'.analyze = art.analyze /\ art'.review = art.review
        /\ art'.issues = art.issues /\ art'.attempt = art.attempt /\ art'.final = art.final
    BY <2>2, WritesOne
  <2> QED
    BY <2>1, <2>3
<1>8. CASE Analyze
  <2>1. at = "analyze" /\ at' = at /\ disk' = disk
    BY <1>8 DEF Analyze
  <2>2. CASE art' = art /\ mem' = mem
    BY <2>1, <2>2
  <2>3. CASE \E v \in {"clean", "blocking"} :
               /\ art' = [art EXCEPT !.analyze = v, !.touched = FALSE]
               /\ mem' = [mem EXCEPT !.analyze = v, !.bound = mem.bound \cup {"analyze"}]
    <3>1. /\ mem'.analyze = art'.analyze /\ mem'.exists = mem.exists
          /\ art'.review = art.review /\ mem'.bound = mem.bound \cup {"analyze"}
      BY <2>3, ZenonT(60)
    <3> QED BY <2>1, <3>1
  <2> QED BY <1>8, <2>2, <2>3, ZenonT(60) DEF Analyze
<1>9. CASE AnalyzeClean
  BY <1>9 DEF AnalyzeClean
<1>10. CASE Remediate
  <2>1. at = "tasks-remediation" /\ phase = "run" /\ at' = at
        /\ UNCHANGED <<mem, disk>>
    BY <1>10 DEF Remediate
  <2>2. art' = art \/ Writes("tasks", "open")
    BY <1>10 DEF Remediate
  <2>3. /\ art'.spec = art.spec /\ art'.plan = art.plan /\ art'.analyze = art.analyze
        /\ art'.review = art.review /\ art'.issues = art.issues
        /\ art'.attempt = art.attempt /\ art'.final = art.final
        /\ art'.tasks \in {art.tasks, "open"}
    BY <2>2, WritesOne
  <2> QED
    BY <2>1, <2>3
<1>11. CASE Implement
  <2>1. at = "implement" /\ phase = "run" /\ at' = at
        /\ UNCHANGED <<mem, disk>>
    BY <1>11 DEF Implement
  <2>2. \/ art' = art
        \/ Writes("tasks", IF art.tasks = "open" THEN "checked" ELSE art.tasks)
        \/ Writes("tasks", art.tasks)
    BY <1>11 DEF Implement
  <2>3. /\ art'.spec = art.spec /\ art'.plan = art.plan /\ art'.analyze = art.analyze
        /\ art'.review = art.review /\ art'.issues = art.issues
        /\ art'.attempt = art.attempt /\ art'.final = art.final
        /\ (art'.touched = art.touched \/ art'.touched = TRUE)
        /\ art'.tasks \in {art.tasks, IF art.tasks = "open" THEN "checked" ELSE art.tasks}
    BY <2>2, WritesOne
  <2> QED
    BY <2>1, <2>3
<1>12. CASE CodeReview
  <2>1. at = "code-review" /\ at' = at /\ disk' = disk
    BY <1>12 DEF CodeReview
  <2>2. CASE art' = art /\ mem' = mem
    BY <2>1, <2>2
  <2>3. CASE \E v \in {"clean", "critical"} :
               /\ art' = [art EXCEPT !.review = v]
               /\ mem' = [mem EXCEPT !.bound = mem.bound \cup {"code-review"}]
    <3>1. /\ mem'.analyze = mem.analyze /\ mem'.exists = mem.exists
          /\ art'.analyze = art.analyze /\ mem'.bound = mem.bound \cup {"code-review"}
      BY <2>3
    <3> QED BY <2>1, <3>1
  <2> QED BY <1>12, <2>2, <2>3 DEF CodeReview
<1>13. CASE ReviewClean
  BY <1>13 DEF ReviewClean
<1>14. CASE Issues
  BY <1>14, ZenonT(60) DEF Issues
<1>15. CASE EnsureBranch
  BY <1>15 DEF EnsureBranch
<1>16. ASSUME NEW s \in Plain, Plainly(s) PROVE KnownInv'
  <2>1. mem \in Records
    OBVIOUS
  <2> QED BY <1>16, <2>1, PlainlyBinds DEF Plain
<1>17. ASSUME NEW s \in {"capture-workflow-branch", "capture-mergeback-branch"},
              CaptureBranch(s)
       PROVE  KnownInv'
  <2>1. mem \in Records
    OBVIOUS
  <2> QED BY <1>17, <2>1, CaptureBinds
<1>18. CASE MergebackAttempt
  BY <1>18, ZenonT(60) DEF MergebackAttempt, Conflict
<1>19. CASE ResolveMergeback
  BY <1>19 DEF ResolveMergeback
<1>20. CASE Finalize
  BY <1>20, ZenonT(60) DEF Finalize, FinalizePart
<1>21. CASE Advance
  BY <1>21, AdvanceMoves DEF Advance
<1>22. CASE Save
  BY <1>22, SaveMoves DEF Save
<1>23. CASE CommitFails
  BY <1>23, <1>u DEF CommitFails
<1>24. CASE SaveFailed
  BY <1>24 DEF SaveFailed, Return
<1>25. CASE Crash
  BY <1>25, <1>u DEF Crash
<1>26. CASE TurnedAway
  BY <1>26 DEF TurnedAway, Return
<1>27. CASE UNCHANGED vars
  BY <1>27 DEF vars
<1> QED
  BY <1>1, <1>2, <1>3, <1>4, <1>5, <1>6, <1>7, <1>8, <1>9, <1>10,
     <1>11, <1>12, <1>13, <1>14, <1>15, <1>16, <1>17, <1>18, <1>19, <1>20,
     <1>21, <1>22, <1>23, <1>24, <1>25, <1>26, <1>27
     DEF LaneNext, Next, Begin, Step

(* A step that binds a variable is behind a process that is at a later one, *)
(* or what it has bound was saved.                                         *)
LEMMA BoundStep ==
  Uninterrupted /\ ProcessInv /\ mem \in Records /\ SavedInv /\ BoundInv
    /\ [LaneNext]_vars => BoundInv'
<1> SUFFICES ASSUME Uninterrupted, ProcessInv, mem \in Records, SavedInv, BoundInv,
                    [LaneNext]_vars
             PROVE  BoundInv'
  OBVIOUS
<1>u. ~Fault("crash") /\ ~Fault("leftover") /\ ~Fault("vague") /\ ~Fault("setup")
  BY DEF Fault, Uninterrupted
<1>e. Early \subseteq mem.bound =>
        /\ "feature_directory" \in mem.bound /\ "phase_input" \in mem.bound
        /\ "plan_input" \in mem.bound /\ "analyze_input" \in mem.bound
        /\ "current_branch" \in mem.bound
  BY DEF Early
<1> USE DEF Runs, Succeeds, Fails, Tolerated, AgentFails, process, history, Records,
            ProcessInv, ControlInv, StepNames, Past, BoundInv, Finalized, Attempted,
            Merging, Looped, Looping, Analyzed, Tasked, Planned, Specified
<1>1. CASE StartLane
  BY <1>1 DEF StartLane, Enter, Retries, Blank
<1>2. CASE ResumeLane
  <2>1. PICK s \in ResumePoints \ {"specify"} :
          ResumesAt(s) /\ at' = IF s = "implement-review-loop" THEN "implement" ELSE s
    BY <1>2, ResumeMoves
  <2>2. art' = art /\ fixes' = fixes /\ phase' = "run"
    BY <1>2, ResumeMoves
  <2>3. mem' = disk /\ disk = mem
    BY <1>2, ResumeMoves DEF SavedInv
  <2>4. /\ at' \in {"plan", "tasks", "analyze", "tasks-remediation", "implement",
                   "issues-from-review", "resolve-mergeback", "mergeback-finalize",
                   "commit-before-mergeback"}
        /\ SpecDone
        /\ at' # "plan" => PlanDone
        /\ at' \notin {"plan", "tasks", "analyze", "tasks-remediation"} =>
             AnalyzeDone /\ FindingsDone
    BY <2>1, ResumeFacts DEF ResumePoints
  <2>5. /\ Early \subseteq mem.bound
        /\ at' # "plan" => "tasks_input" \in mem.bound
        /\ at' \notin {"plan", "tasks", "analyze", "tasks-remediation"} =>
             "implement_input" \in mem.bound
    BY <1>2, <2>4, ResumeMoves DEF SavedInv
  <2>6. /\ "feature_directory" \in mem'.bound /\ "phase_input" \in mem'.bound
        /\ "plan_input" \in mem'.bound /\ "analyze_input" \in mem'.bound
        /\ "current_branch" \in mem'.bound
        /\ at' # "plan" => "tasks_input" \in mem'.bound
        /\ at' \notin {"plan", "tasks", "analyze", "tasks-remediation"} =>
             "implement_input" \in mem'.bound
    BY <1>e, <2>3, <2>5
  <2> QED
    BY <2>2, <2>4, <2>6
<1>3. CASE ResumeFails
  BY <1>3 DEF ResumeFails, Return
<1>4. CASE SkipLane
  BY <1>4 DEF SkipLane, Return
<1>5. CASE Specify
  BY <1>5 DEF Specify, Generate, Writes
<1>6. CASE Plan
  BY <1>6 DEF Plan, Generate, Writes
<1>7. CASE Tasks
  BY <1>7 DEF Tasks, Generate, Writes
<1>8. CASE Analyze
  <2>1. at = "analyze" /\ at' = at
    BY <1>8 DEF Analyze
  <2>2. \/ mem' = mem
        \/ \E v \in {"clean", "blocking"} :
             mem' = [mem EXCEPT !.analyze = v, !.bound = mem.bound \cup {"analyze"}]
    BY <1>8 DEF Analyze
  <2>3. mem.bound \subseteq mem'.bound
    BY <2>2
  <2> QED BY <2>1, <2>3
<1>9. CASE AnalyzeClean
  BY <1>9 DEF AnalyzeClean
<1>10. CASE Remediate
  BY <1>10 DEF Remediate, Writes
<1>11. CASE Implement
  BY <1>11 DEF Implement, Writes
<1>12. CASE CodeReview
  <2>1. at = "code-review" /\ at' = at /\ mem.bound \subseteq mem'.bound
    BY <1>12, ZenonT(60) DEF CodeReview
  <2> QED BY <2>1
<1>13. CASE ReviewClean
  BY <1>13 DEF ReviewClean
<1>14. CASE Issues
  BY <1>14 DEF Issues
<1>15. CASE EnsureBranch
  BY <1>15 DEF EnsureBranch
<1>16. ASSUME NEW s \in Plain, Plainly(s) PROVE BoundInv'
  <2>1. mem \in Records
    OBVIOUS
  <2> QED BY <1>16, <2>1, PlainlyBinds, ZenonT(60) DEF Plain
<1>17. ASSUME NEW s \in {"capture-workflow-branch", "capture-mergeback-branch"},
              CaptureBranch(s)
       PROVE  BoundInv'
  <2>1. mem \in Records
    OBVIOUS
  <2> QED BY <1>17, <2>1, CaptureBinds, ZenonT(60)
<1>18. CASE MergebackAttempt
  BY <1>18 DEF MergebackAttempt, Conflict
<1>19. CASE ResolveMergeback
  BY <1>19 DEF ResolveMergeback
<1>20. CASE Finalize
  BY <1>20 DEF Finalize, FinalizePart
<1>21. CASE Advance
  BY <1>21, AdvanceMoves DEF Advance, Successors
<1>22. CASE Save
  BY <1>22, SaveMoves DEF Save, Successors
<1>23. CASE CommitFails
  BY <1>23, <1>u DEF CommitFails
<1>24. CASE SaveFailed
  BY <1>24 DEF SaveFailed, Return
<1>25. CASE Crash
  BY <1>25, <1>u DEF Crash
<1>26. CASE TurnedAway
  BY <1>26 DEF TurnedAway, Return
<1>27. CASE UNCHANGED vars
  BY <1>27 DEF vars
<1> QED
  BY <1>1, <1>2, <1>3, <1>4, <1>5, <1>6, <1>7, <1>8, <1>9, <1>10,
     <1>11, <1>12, <1>13, <1>14, <1>15, <1>16, <1>17, <1>18, <1>19, <1>20,
     <1>21, <1>22, <1>23, <1>24, <1>25, <1>26, <1>27
     DEF LaneNext, Next, Begin, Step

(* A step that fails has not done its stage.                               *)
LEMMA FailStep ==
  Uninterrupted /\ ProcessInv /\ art \in Artifacts /\ git \in Worktrees
    /\ mem \in Records /\ LeftInv /\ StageInv /\ ChainInv /\ KnownInv /\ FailInv
    /\ [LaneNext]_vars => FailInv'
<1> SUFFICES ASSUME Uninterrupted, ProcessInv, art \in Artifacts, git \in Worktrees,
                    mem \in Records, LeftInv, StageInv, ChainInv, KnownInv, FailInv,
                    [LaneNext]_vars
             PROVE  FailInv'
  OBVIOUS
<1>u. ~Fault("crash") /\ ~Fault("leftover") /\ ~Fault("vague") /\ ~Fault("setup")
  BY DEF Fault, Uninterrupted
<1> USE DEF Runs, Succeeds, Fails, Tolerated, AgentFails, process, history, Artifacts,
            ProcessInv, ControlInv, StepNames, SpecDone, PlanDone, AnalyzeDone,
            FindingsDone, FailInv, Finalized, Attempted, Merging, Looped, Looping,
            Analyzed, Tasked, Planned, Specified
<1>1. CASE StartLane
  <2>1. at' = "specify" /\ art' = art /\ git' = git /\ phase' = "run"
    BY <1>1 DEF StartLane, Enter
  <2>2. ~SpecDone
    BY <1>1, ResumeFacts DEF StartLane
  <2> QED BY <2>1, <2>2
<1>2. CASE ResumeLane
  <2>1. PICK s \in ResumePoints \ {"specify"} :
          ResumesAt(s) /\ at' = IF s = "implement-review-loop" THEN "implement" ELSE s
    BY <1>2, ResumeMoves
  <2>2. art' = art /\ fixes' = fixes /\ phase' = "run"
    BY <1>2, ResumeMoves
  <2>3. /\ SpecDone /\ at' \in {"plan", "tasks", "analyze", "tasks-remediation", "implement",
                   "issues-from-review", "resolve-mergeback", "mergeback-finalize",
                   "commit-before-mergeback"}
        /\ at' = "plan" => ~PlanDone
        /\ at' = "tasks" => ~TasksDone
        /\ at' = "analyze" => ~AnalyzeDone
        /\ at' = "tasks-remediation" => ~FindingsDone
        /\ at' = "implement" => ~LoopIsDone
        /\ at' \notin {"plan", "tasks", "analyze", "tasks-remediation", "implement"} =>
             LoopIsDone
    BY <2>1, ResumeFacts DEF ResumePoints
  <2>4. git' = git
    BY <1>2, ResumeMoves
  <2> QED
    BY <2>2, <2>3, <2>4
<1>3. CASE ResumeFails
  BY <1>3 DEF ResumeFails, Return
<1>4. CASE SkipLane
  BY <1>4 DEF SkipLane, Return
<1>5. CASE Specify
  <2>0. at = "plan" => SpecDone
    BY DEF StageInv, Past
  <2>1. at = "specify" /\ at' = at /\ phase = "run" /\ git' = git
    BY <1>5 DEF Specify, Generate
  <2>2. \/ Writes("spec", "concrete") /\ phase' = "save"
        \/ art' = art /\ phase' # "save"
    BY <1>5, <1>u DEF Specify, Generate
  <2>3. CASE Writes("spec", "concrete") /\ phase' = "save"
    BY <2>0, <2>1, <2>3, WritesOne
  <2>4. CASE art' = art /\ phase' # "save"
    BY <2>1, <2>4
  <2> QED BY <2>2, <2>3, <2>4
<1>6. CASE Plan
  <2>0. at = "plan" => SpecDone
    BY DEF StageInv, Past
  <2>1. at = "plan" /\ at' = at /\ phase = "run" /\ git' = git
    BY <1>6 DEF Plan, Generate
  <2>2. \/ Writes("plan", "concrete") /\ phase' = "save"
        \/ art' = art /\ phase' # "save"
    BY <1>6, <1>u DEF Plan, Generate
  <2>3. CASE Writes("plan", "concrete") /\ phase' = "save"
    BY <2>0, <2>1, <2>3, WritesOne
  <2>4. CASE art' = art /\ phase' # "save"
    BY <2>1, <2>4
  <2> QED BY <2>2, <2>3, <2>4
<1>7. CASE Tasks
  <2>0. at = "plan" => SpecDone
    BY DEF StageInv, Past
  <2>1. at = "tasks" /\ at' = at /\ phase = "run" /\ git' = git
    BY <1>7 DEF Tasks, Generate
  <2>2. \/ Writes("tasks", "open") /\ phase' = "save"
        \/ art' = art /\ phase' # "save"
    BY <1>7, <1>u DEF Tasks, Generate
  <2>3. CASE Writes("tasks", "open") /\ phase' = "save"
    BY <2>0, <2>1, <2>3, WritesOne
  <2>4. CASE art' = art /\ phase' # "save"
    BY <2>1, <2>4
  <2> QED BY <2>2, <2>3, <2>4
<1>8. CASE Analyze
  <2>1. at = "analyze" /\ at' = at /\ phase = "run" /\ git' = git
    BY <1>8 DEF Analyze
  <2>2. CASE art' = art /\ phase' # "save"
    BY <2>1, <2>2
  <2>3. CASE phase' = "save" /\ \E v \in {"clean", "blocking"} :
               art' = [art EXCEPT !.analyze = v, !.touched = FALSE]
    <3>1. /\ ~art'.touched /\ art'.spec = art.spec /\ art'.plan = art.plan
          /\ art'.attempt = art.attempt
      BY <2>3
    <3> QED BY <2>1, <2>3, <3>1
  <2> QED BY <1>8, <1>u, <2>2, <2>3 DEF Analyze
<1>9. CASE AnalyzeClean
  BY <1>9 DEF AnalyzeClean
<1>10. CASE Remediate
  <2>1. at = "tasks-remediation" /\ at' = at /\ phase = "run" /\ git' = git
    BY <1>10 DEF Remediate
  <2>2. CASE art' = art /\ phase' = "save"
    BY <2>1, <2>2
  <2>3. CASE art' = art /\ phase' # "save" /\ mem.analyze # "clean"
    <3>1. art.analyze = "blocking"
      BY <2>1, <2>3 DEF KnownInv, LeftInv, Past, Analyzed
    <3> QED BY <2>1, <2>3, <3>1
  <2>4. CASE Writes("tasks", "open") /\ phase' = "save"
    BY <2>1, <2>4, WritesOne
  <2> QED BY <1>10, <1>u, <2>2, <2>3, <2>4 DEF Remediate
<1>11. CASE Implement
  <2>1. at = "implement" /\ phase = "run" /\ at' = at /\ git' = git
    BY <1>11 DEF Implement
  <2>2. \/ art' = art
        \/ Writes("tasks", IF art.tasks = "open" THEN "checked" ELSE art.tasks)
        \/ Writes("tasks", art.tasks)
    BY <1>11 DEF Implement
  <2>3. /\ art'.spec = art.spec /\ art'.plan = art.plan /\ art'.analyze = art.analyze
        /\ art'.review = art.review /\ art'.issues = art.issues
        /\ art'.attempt = art.attempt /\ art'.final = art.final
        /\ (art'.touched = art.touched \/ art'.touched = TRUE)
        /\ art'.tasks \in {art.tasks, IF art.tasks = "open" THEN "checked" ELSE art.tasks}
    BY <2>2, WritesOne
  <2> QED
    BY <2>1, <2>3
<1>12. CASE CodeReview
  BY <1>12 DEF CodeReview
<1>13. CASE ReviewClean
  BY <1>13 DEF ReviewClean
<1>14. CASE Issues
  <2>1. at = "issues-from-review" /\ at' = at /\ git' = git /\ phase' = "save"
    BY <1>14 DEF Issues, KnownInv, LeftInv, Past
  <2>2. art' = art \/ art' = [art EXCEPT !.issues = TRUE]
    BY <1>14 DEF Issues
  <2>3. /\ art'.attempt = art.attempt /\ art'.spec = art.spec /\ art'.plan = art.plan
    BY <2>2
  <2> QED BY <2>1, <2>3
<1>15. CASE EnsureBranch
  <2>1. git.head # "rebasing"
    BY <1>15 DEF EnsureBranch, ChainInv, Preparing, FailInv, AnalyzeDone
  <2>2. at = "ensure-speckit-branch" /\ at' = at /\ art' = art /\ phase' = "save"
        /\ git' = [git EXCEPT !.head = "feature", !.branches = git.branches \cup {"feature"}]
    BY <1>15, <1>u, <2>1 DEF EnsureBranch
  <2> QED BY <2>2 DEF Worktrees
<1>16. ASSUME NEW s \in Plain, Plainly(s) PROVE FailInv'
  <2>1. mem \in Records
    OBVIOUS
  <2> QED BY <1>16, <2>1, PlainlyBinds, ZenonT(60) DEF Plain
<1>17. ASSUME NEW s \in {"capture-workflow-branch", "capture-mergeback-branch"},
              CaptureBranch(s)
       PROVE  FailInv'
  <2>1. mem \in Records
    OBVIOUS
  <2> QED BY <1>17, <2>1, CaptureBinds
<1>18. CASE MergebackAttempt
  <2>1. at = "mergeback-attempt" /\ at' = at
    BY <1>18 DEF MergebackAttempt
  <2>2. CASE art' = art /\ git' = git
    BY <2>1, <2>2
  <2>3. CASE \E a \in {"rebased", "conflict"} : art' = [art EXCEPT !.attempt = a]
    <3>1. /\ art'.attempt # "none" /\ art'.spec = art.spec /\ art'.plan = art.plan
      BY <2>3
    <3> QED BY <2>1, <3>1
  <2> QED BY <1>18, <2>2, <2>3 DEF MergebackAttempt
<1>19. CASE ResolveMergeback
  <2>1. at = "resolve-mergeback" /\ at' = at /\ art' = art /\ art.attempt # "none"
    BY <1>19 DEF ResolveMergeback, LeftInv, Past, Attempted
  <2> QED BY <2>1
<1>20. CASE Finalize
  <2>1. at = "mergeback-finalize" /\ at' = at /\ art.attempt # "none"
    BY <1>20 DEF Finalize, LeftInv, Past, Attempted
  <2>2. art' = art \/ art' = [art EXCEPT !.final = TRUE]
    BY <1>20 DEF Finalize
  <2>3. /\ art'.attempt = art.attempt /\ art'.spec = art.spec /\ art'.plan = art.plan
    BY <2>2
  <2> QED BY <2>1, <2>3
<1>21. CASE Advance
  BY <1>21, AdvanceMoves DEF Advance, Successors
<1>22. CASE Save
  BY <1>22, SaveMoves DEF Save, Successors, ChainInv, Preparing
<1>23. CASE CommitFails
  BY <1>23, <1>u DEF CommitFails
<1>24. CASE SaveFailed
  BY <1>24 DEF SaveFailed, Return
<1>25. CASE Crash
  BY <1>25, <1>u DEF Crash
<1>26. CASE TurnedAway
  BY <1>26 DEF TurnedAway, Return
<1>27. CASE UNCHANGED vars
  BY <1>27 DEF vars
<1> QED
  BY <1>1, <1>2, <1>3, <1>4, <1>5, <1>6, <1>7, <1>8, <1>9, <1>10,
     <1>11, <1>12, <1>13, <1>14, <1>15, <1>16, <1>17, <1>18, <1>19, <1>20,
     <1>21, <1>22, <1>23, <1>24, <1>25, <1>26, <1>27
     DEF LaneNext, Next, Begin, Step

(* A process that is over has saved what it knows, and has done no stage   *)
(* behind a step that it has not run.                                      *)
LEMMA SavedStep ==
  Uninterrupted /\ TypeInv /\ StageInv /\ ChainInv /\ BoundInv /\ KnownInv /\ FailInv
    /\ SavedInv /\ [LaneNext]_vars => SavedInv'
<1> SUFFICES ASSUME Uninterrupted, TypeInv, StageInv, ChainInv, BoundInv, KnownInv, FailInv,
                    SavedInv, [LaneNext]_vars, at' = "idle"
             PROVE  SavedInv'
  BY DEF SavedInv
<1>t. ProcessInv /\ art \in Artifacts /\ mem \in Records
  BY DEF TypeInv
<1>u. ~Fault("crash") /\ ~Fault("leftover") /\ ~Fault("vague") /\ ~Fault("setup")
  BY DEF Fault, Uninterrupted
<1>1. CASE UNCHANGED <<at, mem, disk, art>>
  BY <1>1 DEF SavedInv, SpecDone, PlanDone, AnalyzeDone, FindingsDone
<1>2. CASE SaveFailed
  <2>1. phase = "fail" /\ disk' = mem /\ UNCHANGED <<mem, art>>
    BY <1>2 DEF SaveFailed
  <2>2. at \in {"specify", "plan", "tasks", "analyze", "tasks-remediation",
       "implement", "code-review", "commit-before-mergeback", "mergeback-attempt",
       "resolve-mergeback", "mergeback-finalize"}
    BY <2>1 DEF FailInv
  <2>3. SpecDone => Early \subseteq mem.bound
    <3>1. at # "specify" => at \in {"plan"} \cup Planned
      BY <2>2 DEF Planned, Tasked, Analyzed, Looping, Looped, Merging, Attempted
    <3>2. at = "specify" => ~SpecDone
      BY <2>1 DEF FailInv
    <3>3. at \in Specified \ {"capture-feature-directory"} \/ at = "specify"
      BY <2>2 DEF Specified, Planned, Tasked, Analyzed, Looping, Looped, Merging,
                  Attempted
    <3> QED BY <3>1, <3>2, <3>3 DEF BoundInv, Early, Past
  <2>4. PlanDone => "tasks_input" \in mem.bound
    <3>1. at \in {"specify", "plan"} => ~PlanDone
      BY <2>1 DEF FailInv, Specified, Planned, Tasked, Analyzed, Looping, Looped, Merging,
                  Attempted, Finalized
    <3>2. at \notin {"specify", "plan"} => at \in {"tasks"} \cup Tasked
      BY <2>2 DEF Tasked, Analyzed, Looping, Looped, Merging, Attempted
    <3> QED BY <3>1, <3>2 DEF BoundInv, Past
  <2>5. AnalyzeDone /\ FindingsDone => "implement_input" \in mem.bound
    <3>1. at \in {"specify", "plan", "tasks", "analyze"} => ~AnalyzeDone
      BY <2>1 DEF FailInv, ChainInv, Preparing
    <3>2. at = "tasks-remediation" => ~FindingsDone
      BY <2>1 DEF FailInv, FindingsDone
    <3>3. at \notin {"specify", "plan", "tasks", "analyze", "tasks-remediation"} =>
            at \in Looping \cup Looped
      BY <2>2 DEF Looping, Looped, Merging, Attempted
    <3> QED BY <3>1, <3>2, <3>3 DEF BoundInv, Past
  <2> QED BY <2>1, <2>3, <2>4, <2>5 DEF SavedInv, SpecDone, PlanDone, AnalyzeDone,
                                        FindingsDone
<1>3. CASE Save
  <2>1. at = "verify-mergeback" /\ disk' = mem /\ UNCHANGED <<mem, art>>
    BY <1>3, SaveMoves DEF Successors
  <2>2. Early \cup {"tasks_input", "implement_input"} \subseteq mem.bound
    BY <2>1 DEF BoundInv, Early, Past, Specified, Planned, Tasked, Analyzed, Looping,
                Looped,
                Merging, Attempted, Finalized
  <2> QED BY <2>1, <2>2 DEF SavedInv
<1>4. ~StartLane /\ ~ResumeLane
  BY ResumeMoves DEF StartLane, Enter, ResumePoints
<1>5. ~Crash /\ ~CommitFails
  BY <1>u DEF Crash, CommitFails
<1>6. ResumeFails \/ SkipLane \/ TurnedAway \/ UNCHANGED vars => UNCHANGED <<at, mem, disk, art>>
  BY DEF ResumeFails, SkipLane, TurnedAway, Return, vars, process
<1>7. ~Advance
  BY AdvanceMoves
<1>8. phase = "run" /\ at # "idle" => ~Step
  BY <1>t, StepIsMove DEF StepMoves
<1>9. Step => (phase = "run" /\ at # "idle") \/ Advance \/ Save \/ CommitFails \/ SaveFailed
  BY DEF Step, Specify, Plan, Tasks, Generate, Analyze, AnalyzeClean, Remediate,
         Implement,
         CodeReview, ReviewClean, Issues, EnsureBranch, Plainly, Plain, CaptureBranch,
         MergebackAttempt, ResolveMergeback, Finalize, Runs
<1> QED
  BY <1>1, <1>2, <1>3, <1>4, <1>5, <1>6, <1>7, <1>8, <1>9 DEF LaneNext, Next, Begin

(* All of it is kept, and holds at first.                                  *)
LEMMA InputsStep == Uninterrupted /\ InputsInv /\ [LaneNext]_vars => InputsInv'
<1> SUFFICES ASSUME Uninterrupted, InputsInv, [LaneNext]_vars PROVE InputsInv'
  OBVIOUS
<1>1. SoundInv /\ BoundInv /\ KnownInv /\ SavedInv /\ FailInv
  BY DEF InputsInv
<1>2. TypeInv /\ LeftInv /\ StageInv /\ ChainInv
  BY <1>1 DEF SoundInv
<1>3. ProcessInv /\ art \in Artifacts /\ mem \in Records /\ git \in Worktrees
  BY <1>2 DEF TypeInv, WorktreeInv
<1>4. SoundInv'
  <2>1. Dependable
    BY DEF Uninterrupted, Dependable
  <2> QED BY <1>1, <2>1, SoundStep
<1>5. BoundInv'
  BY <1>1, <1>3, BoundStep
<1>6. KnownInv'
  BY <1>1, <1>2, <1>3, KnownStep
<1>7. SavedInv'
  BY <1>1, <1>2, SavedStep
<1>8. FailInv'
  BY <1>1, <1>2, <1>3, FailStep
<1> QED
  BY <1>4, <1>5, <1>6, <1>7, <1>8 DEF InputsInv

(* A lane that has not run has nothing to render.                          *)
LEMMA InputsInit == Init => InputsInv
<1> SUFFICES ASSUME Init PROVE InputsInv
  OBVIOUS
<1>1. /\ at = "idle" /\ phase = "run" /\ mem.exists /\ ~disk.exists /\ mem.analyze = "none"
      /\ git.head = "spec"
  BY DEF Init, Blank
<1>2. PICK d \in {"none", "concrete"}, t \in {"none", "open", "checked"} :
        art = [spec |-> d, plan |-> d, tasks |-> t, touched |-> FALSE, analyze |-> "none",
               review |-> "none", issues |-> FALSE, attempt |-> "none", final |-> FALSE]
  BY DEF Init
<1>3. art.analyze = "none" /\ art.review = "none" /\ art.spec = art.plan
  BY <1>2
<1>4. BoundInv
  BY <1>1 DEF BoundInv, Past, Specified, Planned, Tasked, Analyzed, Looping, Looped,
              Merging,
              Attempted, Finalized
<1>5. KnownInv
  BY <1>1, <1>3 DEF KnownInv, AnalyzeDone
<1>6. SavedInv
  BY <1>1 DEF SavedInv
<1>7. FailInv
  BY <1>1, <1>3 DEF FailInv, Specified, Planned, Tasked, Analyzed, Looping, Looped,
                    Merging,
                    Attempted, Finalized, SpecDone, PlanDone
<1> QED
  BY <1>4, <1>5, <1>6, <1>7, SoundInit DEF InputsInv

(* A step never runs on an input that still has the name of a variable in  *)
(* it, wherever the lane is resumed and however often its agents, checks   *)
(* and git commands have failed: set_var steps cannot fail between the     *)
(* artifact that decides where to resume and the save of what they bind    *)
(* (resume.go:52-96, runner.go:340-379).                                   *)
THEOREM InputsBound ==
  ASSUME Uninterrupted
  PROVE  (Spec => []RunsOnBoundInputs) /\ (JournalSpec => []RunsOnBoundInputs)
<1>1. ASSUME InputsInv, NEW r \in Renders, Runs(r[1]) PROVE r[2] \in mem.bound
  <2>1. /\ BoundInv /\ KnownInv /\ LeftInv /\ at = r[1]
    BY <1>1 DEF InputsInv, SoundInv, Runs
  <2>2. CASE /\ r[2] = "feature_directory"
             /\ r[1] \in {"plan", "tasks", "analyze", "tasks-remediation", "implement",
                          "code-review", "commit-before-mergeback"}
    <3>1. at \in Specified \ {"capture-feature-directory"}
      BY <2>1, <2>2 DEF Specified, Planned, Tasked, Analyzed, Looping, Looped, Merging,
                        Attempted, Finalized
    <3> QED BY <2>1, <2>2, <3>1 DEF BoundInv, Past
  <2>3. CASE r \in {<<"plan", "plan_input">>, <<"analyze", "analyze_input">>,
                    <<"tasks", "tasks_input">>, <<"set-implement-input", "phase_input">>,
                    <<"implement", "implement_input">>}
    BY <2>1, <2>3 DEF BoundInv, Past, Planned, Tasked, Analyzed, Looping
  <2>4. CASE r \in {<<"mergeback-attempt", "current_branch">>,
                    <<"mergeback-finalize", "current_branch">>}
    BY <2>1, <2>4 DEF BoundInv, Past, Planned, Tasked, Analyzed, Looped, Merging,
                      Attempted
  <2>5. CASE r = <<"tasks-remediation", "analyze">>
    BY <2>1, <2>5 DEF KnownInv, LeftInv, Past, Analyzed, AnalyzeDone
  <2>6. CASE r = <<"issues-from-review", "code-review">>
    BY <2>1, <2>6 DEF KnownInv, LeftInv, Past, Looped
  <2> QED BY <2>2, <2>3, <2>4, <2>5, <2>6 DEF Renders
<1>2. InputsInv => RunsOnBoundInputs
  BY <1>1 DEF RunsOnBoundInputs
<1>0. InputsInv /\ [LaneNext]_vars => InputsInv'
  BY InputsStep
<1>3. Spec => []RunsOnBoundInputs
  <2>1. [Next]_vars => [LaneNext]_vars
    BY DEF LaneNext
  <2> QED BY <1>0, <1>2, <2>1, InputsInit, PTL DEF Spec
<1>4. JournalSpec => []RunsOnBoundInputs
  <2>1. JournalInit => Init
    BY DEF JournalInit
  <2> QED BY <1>0, <1>2, <2>1, InputsInit, JournalledStep, PTL DEF JournalSpec
<1> QED
  BY <1>3, <1>4

-----------------------------------------------------------------------------
(* Attempts that are not ended.                                            *)

Num(b) == IF b THEN 1 ELSE 0

(* A process has the attempt of the mergeback behind it.                   *)
Merges == Past("mergeback-attempt", Attempted)

(* A stage that the process has behind it is not done: only a fault leaves *)
(* one so.                                                                 *)
Missed ==
  \/ Past("specify", Specified) /\ ~SpecDone
  \/ Past("plan", Planned) /\ ~PlanDone
  \/ Past("tasks", Tasked) /\ ~TasksDone
  \/ Past("implement", (Looping \ {"implement"}) \cup Looped) /\ art.tasks # "checked"
  \/ Past("code-review", (Looping \ {"implement", "code-review"}) \cup Looped)
       /\ art.review # "clean"

(* A running attempt is of the stage that the process is at, and will be   *)
(* ended by what the observer hears or by the step that verifies it.       *)
Owned ==
  \/ heard # "nothing"
  \/ at \in {"analyze", "code-review"} /\ phase = "save"
  \/ at \in {"analyze-clean", "review-clean"} /\ phase = "run"

(* The running attempt of the mergeback is ended, without another fault,   *)
(* by the last step of the lane.                                           *)
Certain ==
  /\ Merges /\ phase # "fail" /\ latest["mergeback-attempt"] = "running"
  /\ \/ at = "verify-mergeback"
     \/ at = "mergeback-finalize" /\ phase = "save"
     \/ git.head # "rebasing" /\ mem.branch \notin {"", "target"}

(* A lane that has merged is resumed at an earlier stage.                  *)
Reopened == art.attempt # "none" /\ ~StagesDone

(* Each running attempt is paid for by a fault; but the one that the       *)
(* process owns.  A stage that is left undone, and a mergeback that may be *)
(* repeated, have a fault in store for the attempts that come of them.     *)
CreditInv ==
  /\ stale \in Nat
  /\ IF at = "idle" \/ Merges
     THEN RunningAttempts + Num(Reopened) <= faults + Num(Certain)
     ELSE RunningAttempts + Num(art.attempt # "none") + Num(Missed) <= faults + Num(Owned)

(* Before it merges, nobody has the target branch checked out.             *)
TargetInv ==
  art.attempt = "none" => git.head # "target" /\ mem.branch # "target" /\ disk.branch # "target"

(* Once there is an implementation, the findings of the analysis are old.  *)
ImplementedInv ==
  Past("implement", (Looping \ {"implement"}) \cup Looped) => FindingsDone

(* The attempt that a process owns is running.                             *)
OwnedInv ==
  /\ Owned /\ at # "verify-mergeback" => \A s \in About(at) : latest[s] = "running"
  /\ heard = "failed" /\ at \in Stages => phase # "save"
  /\ heard # "nothing" /\ at \in {"analyze-clean", "review-clean"} => phase = "save"

AttemptsInv == TargetInv /\ ImplementedInv /\ OwnedInv /\ CreditInv

(* The eight stages are finitely many.                                     *)
LEMMA StagesFinite == IsFiniteSet(Stages)
<1>1. IsFiniteSet({"specify", "plan"})
  <2>1. IsFiniteSet(({} \cup {"specify"}) \cup {"plan"})
    BY FS_EmptySet, FS_AddElement
  <2>2. {"specify", "plan"} = ({} \cup {"specify"}) \cup {"plan"}
    OBVIOUS
  <2> QED BY <2>1, <2>2
<1>2. IsFiniteSet(({"specify", "plan"} \cup {"tasks"}) \cup {"analyze"})
  BY <1>1, FS_AddElement
<1>3. IsFiniteSet(((({"specify", "plan"} \cup {"tasks"}) \cup {"analyze"})
                    \cup {"implement"}) \cup {"code-review"})
  BY <1>2, FS_AddElement
<1>4. IsFiniteSet(((((({"specify", "plan"} \cup {"tasks"}) \cup {"analyze"})
                    \cup {"implement"}) \cup {"code-review"})
                    \cup {"issues-from-review"}) \cup {"mergeback-attempt"})
  BY <1>3, FS_AddElement
<1>5. Stages = ((((({"specify", "plan"} \cup {"tasks"}) \cup {"analyze"})
                    \cup {"implement"}) \cup {"code-review"})
                    \cup {"issues-from-review"}) \cup {"mergeback-attempt"}
  BY DEF Stages
<1> QED
  BY <1>4, <1>5

(* The number of stages whose latest attempt is running.                   *)
Running(f) == Cardinality({s \in Stages : f[s] = "running"})

(* It is a number.                                                         *)
LEMMA RunningIsNat == ASSUME NEW f PROVE Running(f) \in Nat
<1>1. {s \in Stages : f[s] = "running"} \in SUBSET Stages
  OBVIOUS
<1> QED
  BY <1>1, StagesFinite, FS_Subset, FS_CardinalityType DEF Running

(* It changes by one at most when one stage changes.                       *)
LEMMA RunningChanges ==
  ASSUME NEW f, NEW g, NEW s \in Stages, \A r \in Stages \ {s} : g[r] = f[r]
  PROVE  /\ (g[s] = "running" <=> f[s] = "running") => Running(g) = Running(f)
         /\ g[s] = "running" /\ f[s] # "running" => Running(g) = Running(f) + 1
         /\ g[s] # "running" /\ f[s] = "running" => Running(g) = Running(f) - 1
<1> DEFINE F == {r \in Stages : f[r] = "running"}
           G == {r \in Stages : g[r] = "running"}
<1>1. IsFiniteSet(F) /\ IsFiniteSet(G)
  <2>1. F \in SUBSET Stages /\ G \in SUBSET Stages
    OBVIOUS
  <2> QED BY <2>1, StagesFinite, FS_Subset
<1>2. ASSUME g[s] = "running" <=> f[s] = "running" PROVE G = F
  BY <1>2
<1>3. ASSUME g[s] = "running", f[s] # "running"
      PROVE  Cardinality(G) = Cardinality(F) + 1
  <2>1. G = F \cup {s} /\ s \notin F
    BY <1>3
  <2> HIDE DEF F, G
  <2>2. Cardinality(F \cup {s}) = IF s \in F THEN Cardinality(F) ELSE Cardinality(F) + 1
    BY <1>1, FS_AddElement
  <2> QED BY <2>1, <2>2
<1>4. ASSUME g[s] # "running", f[s] = "running"
      PROVE  Cardinality(G) = Cardinality(F) - 1
  <2>1. G = F \ {s} /\ s \in F
    BY <1>4
  <2> HIDE DEF F, G
  <2>2. Cardinality(F \ {s}) = IF s \in F THEN Cardinality(F) - 1 ELSE Cardinality(F)
    BY <1>1, FS_RemoveElement
  <2> QED BY <2>1, <2>2
<1> QED
  BY <1>2, <1>3, <1>4 DEF Running

(* Attempts that run are the latest ones of their stages, or stale.        *)
LEMMA AttemptsAre == RunningAttempts = stale + Running(latest)
  BY DEF RunningAttempts, Running

(* To implement, an agent writes tasks.md, and only an analysis asks for   *)
(* that again; a lane is resumed behind it when nothing is asked for.      *)
LEMMA ImplementedStep ==
  ProcessInv /\ art \in Artifacts /\ ImplementedInv /\ [LaneNext]_vars => ImplementedInv'
<1> SUFFICES ASSUME ProcessInv, art \in Artifacts, ImplementedInv, [LaneNext]_vars
             PROVE  ImplementedInv'
  OBVIOUS
<1> USE DEF Runs, Succeeds, Fails, Tolerated, AgentFails, process, history, Artifacts,
            ControlInv, ProcessInv, StepNames, Past, ImplementedInv, FindingsDone,
            Finalized, Attempted, Merging, Looped, Looping
<1>1. CASE StartLane
  BY <1>1 DEF StartLane, Enter, Retries, Blank
<1>2. CASE ResumeLane
  <2>1. PICK s \in ResumePoints \ {"specify"} :
          ResumesAt(s) /\ at' = IF s = "implement-review-loop" THEN "implement" ELSE s
    BY <1>2, ResumeMoves
  <2>2. art' = art /\ fixes' = fixes /\ phase' = "run"
    BY <1>2, ResumeMoves
  <2>3. /\ at' \in {"plan", "tasks", "analyze", "tasks-remediation", "implement",
                   "issues-from-review", "resolve-mergeback", "mergeback-finalize",
                   "commit-before-mergeback"}
        /\ at' \notin {"plan", "tasks", "analyze", "tasks-remediation"} => FindingsDone
    BY <2>1, ResumeFacts DEF ResumePoints
  <2> QED
    BY <2>2, <2>3
<1>3. CASE ResumeFails
  BY <1>3 DEF ResumeFails, Return
<1>4. CASE SkipLane
  BY <1>4 DEF SkipLane, Return
<1>5. CASE Specify
  BY <1>5 DEF Specify, Generate, Writes
<1>6. CASE Plan
  BY <1>6 DEF Plan, Generate, Writes
<1>7. CASE Tasks
  BY <1>7 DEF Tasks, Generate, Writes
<1>8. CASE Analyze
  BY <1>8 DEF Analyze
<1>9. CASE AnalyzeClean
  BY <1>9 DEF AnalyzeClean
<1>10. CASE Remediate
  BY <1>10 DEF Remediate, Writes
<1>11. CASE Implement
  BY <1>11 DEF Implement, Writes
<1>12. CASE CodeReview
  BY <1>12 DEF CodeReview
<1>13. CASE ReviewClean
  BY <1>13 DEF ReviewClean
<1>14. CASE Issues
  BY <1>14 DEF Issues
<1>15. CASE EnsureBranch
  BY <1>15 DEF EnsureBranch
<1>16. ASSUME NEW s \in Plain, Plainly(s) PROVE ImplementedInv'
  BY <1>16 DEF Plainly, Plain, Bind
<1>17. ASSUME NEW s \in {"capture-workflow-branch", "capture-mergeback-branch"},
              CaptureBranch(s)
       PROVE  ImplementedInv'
  BY <1>17 DEF CaptureBranch, Bind
<1>18. CASE MergebackAttempt
  BY <1>18 DEF MergebackAttempt, Conflict
<1>19. CASE ResolveMergeback
  BY <1>19 DEF ResolveMergeback
<1>20. CASE Finalize
  BY <1>20 DEF Finalize, FinalizePart
<1>21. CASE Advance
  BY <1>21, AdvanceMoves DEF Advance, Successors
<1>22. CASE Save
  BY <1>22, SaveMoves DEF Save, Successors
<1>23. CASE CommitFails
  BY <1>23 DEF CommitFails, Return
<1>24. CASE SaveFailed
  BY <1>24 DEF SaveFailed, Return
<1>25. CASE Crash
  BY <1>25 DEF Crash, Return, FinalizePart, Conflict
<1>26. CASE TurnedAway
  BY <1>26 DEF TurnedAway, Return
<1>27. CASE UNCHANGED vars
  BY <1>27 DEF vars
<1> QED
  BY <1>1, <1>2, <1>3, <1>4, <1>5, <1>6, <1>7, <1>8, <1>9, <1>10,
     <1>11, <1>12, <1>13, <1>14, <1>15, <1>16, <1>17, <1>18, <1>19, <1>20,
     <1>21, <1>22, <1>23, <1>24, <1>25, <1>26, <1>27
     DEF LaneNext, Next, Begin, Step

(* The target branch is checked out by the last steps, and by a process    *)
(* that dies in them.                                                      *)
LEMMA TargetStep == LaneInv /\ TargetInv /\ [LaneNext]_vars => TargetInv'
<1> SUFFICES ASSUME LaneInv, TargetInv, [LaneNext]_vars PROVE TargetInv'
  OBVIOUS
<1>t. mem \in Records /\ disk \in Records /\ art \in Artifacts /\ git \in Worktrees
  BY DEF LaneInv, TypeInv, WorktreeInv
<1>u. ASSUME art'.attempt = art.attempt, git' = git, mem'.branch = mem.branch,
             disk'.branch \in {disk.branch, mem.branch}
      PROVE  TargetInv'
  BY <1>u DEF TargetInv
<1>a. at \in {"resolve-mergeback", "mergeback-finalize"} => art.attempt # "none"
  BY DEF LaneInv, LeftInv, Past, Attempted
<1>m. Step => StepMoves
  BY <1>t, StepIsMove
<1>k. ASSUME Step, ~Runs("mergeback-attempt"), git' = git, mem'.branch = mem.branch,
             disk' = disk
      PROVE  TargetInv'
  BY <1>k, <1>m, <1>u DEF StepMoves, ArtifactsKept
<1> USE DEF Records, Runs, history
<1>1. CASE StartLane
  BY <1>1 DEF StartLane, Blank, TargetInv
<1>2. CASE ResumeLane
  BY <1>2, ResumeMoves DEF TargetInv
<1>3. CASE ResumeFails
  BY <1>3, <1>u DEF ResumeFails
<1>4. CASE SkipLane
  BY <1>4, <1>u DEF SkipLane
<1>5. CASE Specify
  BY <1>5, <1>k, <1>t DEF Specify, Generate, Step
<1>6. CASE Plan
  BY <1>6, <1>k, <1>t DEF Plan, Generate, Step
<1>7. CASE Tasks
  BY <1>7, <1>k, <1>t DEF Tasks, Generate, Step
<1>8. CASE Analyze
  BY <1>8, <1>k, <1>t DEF Analyze, Step
<1>9. CASE AnalyzeClean
  BY <1>9, <1>k, <1>t DEF AnalyzeClean, Step
<1>10. CASE Remediate
  BY <1>10, <1>k, <1>t DEF Remediate, Step
<1>11. CASE Implement
  BY <1>11, <1>k, <1>t DEF Implement, Step
<1>12. CASE CodeReview
  BY <1>12, <1>k, <1>t DEF CodeReview, Step
<1>13. CASE ReviewClean
  BY <1>13, <1>k, <1>t DEF ReviewClean, Step
<1>14. CASE Issues
  BY <1>14, <1>k, <1>t DEF Issues, Step
<1>15. CASE EnsureBranch
  <2>1. git' = git \/ git'.head = "feature"
    BY <1>15, <1>t DEF EnsureBranch, Worktrees
  <2>2. art' = art /\ mem' = mem /\ disk' = disk
    BY <1>15 DEF EnsureBranch
  <2> QED BY <2>1, <2>2 DEF TargetInv
<1>16. ASSUME NEW s \in Plain, Plainly(s) PROVE TargetInv'
  <2>1. mem'.branch = mem.branch
    BY <1>16, <1>t DEF Plainly, Bind
  <2> QED BY <1>16, <1>u, <2>1 DEF Plainly
<1>17. ASSUME NEW s \in {"capture-workflow-branch", "capture-mergeback-branch"},
              CaptureBranch(s)
       PROVE  TargetInv'
  <2>1. mem'.branch \in {"", git.head}
    BY <1>17, <1>t DEF CaptureBranch, Bind
  <2> QED BY <1>17, <2>1 DEF CaptureBranch, TargetInv
<1>18. CASE MergebackAttempt
  <2>1. art'.attempt = "none" => art' = art /\ git' = git
    BY <1>18, <1>t DEF MergebackAttempt, Artifacts
  <2>2. mem' = mem /\ disk' = disk
    BY <1>18 DEF MergebackAttempt
  <2> QED BY <2>1, <2>2 DEF TargetInv
<1>19. CASE ResolveMergeback
  BY <1>19, <1>a DEF ResolveMergeback, TargetInv
<1>20. CASE Finalize
  <2>1. at = "mergeback-finalize"
    BY <1>20 DEF Finalize
  <2>2. art'.attempt = art.attempt
    BY <1>20, <1>m, <2>1 DEF Step, StepMoves, ArtifactsKept
  <2> QED BY <2>1, <2>2, <1>a DEF TargetInv
<1>21. CASE Advance
  BY <1>21, <1>u, AdvanceMoves
<1>22. CASE Save
  BY <1>22, <1>u, SaveMoves
<1>23. CASE CommitFails
  BY <1>23, <1>u DEF CommitFails
<1>24. CASE SaveFailed
  BY <1>24, <1>u DEF SaveFailed
<1>25. CASE Crash
  <2>1. art' = art /\ mem' = mem /\ disk' = disk
    BY <1>25 DEF Crash
  <2>2. \/ git' = git \/ Conflict
        \/ at = "mergeback-finalize"
    BY <1>25 DEF Crash
  <2>3. Conflict => git'.head = "rebasing"
    BY <1>t DEF Conflict, Worktrees
  <2> QED BY <2>1, <2>2, <2>3, <1>a DEF TargetInv
<1>26. CASE TurnedAway
  BY <1>26, <1>u DEF TurnedAway
<1>27. CASE UNCHANGED vars
  BY <1>27, <1>u DEF vars
<1> QED
  BY <1>1, <1>2, <1>3, <1>4, <1>5, <1>6, <1>7, <1>8, <1>9, <1>10,
     <1>11, <1>12, <1>13, <1>14, <1>15, <1>16, <1>17, <1>18, <1>19, <1>20,
     <1>21, <1>22, <1>23, <1>24, <1>25, <1>26, <1>27
     DEF LaneNext, Next, Begin, Step

(* The stages are observed at their own step, and three at the step that   *)
(* verifies them.                                                          *)
LEMMA AboutIs ==
  /\ \A step \in Stages : About(step) = {step}
  /\ About("analyze-clean") = {"analyze"}
  /\ About("review-clean") = {"code-review"}
  /\ About("verify-mergeback") = {"mergeback-attempt"}
  /\ Observed = Stages \cup {"analyze-clean", "review-clean", "verify-mergeback"}
<1>1. \A step \in Stages : About(step) = {step}
  BY DEF About, Stages, VerifiedBy
<1>2. About("analyze-clean") = {"analyze"}
  BY DEF About, Stages, VerifiedBy
<1>3. About("review-clean") = {"code-review"}
  BY DEF About, Stages, VerifiedBy
<1>4. About("verify-mergeback") = {"mergeback-attempt"}
  BY DEF About, Stages, VerifiedBy
<1>5. {v[2] : v \in VerifiedBy} = {"analyze-clean", "review-clean", "verify-mergeback"}
  BY DEF VerifiedBy
<1> QED
  BY <1>1, <1>2, <1>3, <1>4, <1>5 DEF Observed

(* What the observer writes down of an end at the step itself: an attempt  *)
(* with checks in a later step goes on.                                    *)
LEMMA RecordedIs ==
  ASSUME NEW s \in About(at), NEW high \in BOOLEAN, heard \in {"succeeded", "failed"}
  PROVE  Recorded(s, at, high) = "running" <=>
           heard = "succeeded" /\ at \in {"analyze", "code-review", "mergeback-attempt"}
<1>1. StageStatus(s, at, high) # "running"
  BY DEF StageStatus
<1>2. at \in {"analyze", "code-review", "mergeback-attempt"} <=>
        s = at /\ \E v \in VerifiedBy : v[1] = s
  <2>1. s \in Stages /\ (s = at \/ <<s, at>> \in VerifiedBy)
    BY DEF About
  <2>2. at \in {"analyze", "code-review", "mergeback-attempt"} => s = at
    BY <2>1 DEF VerifiedBy
  <2>3. (\E v \in VerifiedBy : v[1] = s) <=> s \in {"analyze", "code-review", "mergeback-attempt"}
    BY DEF VerifiedBy
  <2> QED BY <2>2, <2>3
<1> QED
  BY <1>1, <1>2 DEF Recorded

(* A step that is over is followed by the next one, or ends the process;   *)
(* neither changes what the assessment looks at.                           *)
LEMMA AfterMoves ==
  ASSUME Step, phase # "run", ProcessInv
  PROVE  /\ UNCHANGED <<mem, art, git>>
         /\ \/ Advance /\ faults' = faults
            \/ Save /\ faults' = faults
            \/ CommitFails /\ at' = "idle" /\ phase' = "run" /\ faults' = faults + 1
            \/ SaveFailed /\ at' = "idle" /\ phase' = "run" /\ faults' = faults /\ phase = "fail"
<1>1. Advance \/ Save \/ CommitFails \/ SaveFailed
  BY DEF Step, Specify, Plan, Tasks, Generate, Analyze, AnalyzeClean, Remediate, Implement,
         CodeReview, ReviewClean, Issues, EnsureBranch, Plainly, CaptureBranch,
         MergebackAttempt, ResolveMergeback, Finalize, Runs
<1>2. Advance => UNCHANGED <<mem, art, git, faults>>
  BY AdvanceMoves
<1>3. Save => UNCHANGED <<mem, art, git, faults>>
  BY SaveMoves
<1>4. CommitFails => UNCHANGED <<mem, art, git>> /\ at' = "idle" /\ phase' = "run"
                       /\ faults' = faults + 1
  BY DEF CommitFails, Return, Fault
<1>5. SaveFailed => UNCHANGED <<mem, art, git, faults>> /\ at' = "idle" /\ phase' = "run"
                      /\ phase = "fail"
  BY DEF SaveFailed, Return
<1> QED
  BY <1>1, <1>2, <1>3, <1>4, <1>5

(* The attempt of the step that a process is at is running, until its end  *)
(* is written down.                                                        *)
LEMMA OwnedStep ==
  LaneInv /\ HeardInv /\ WrittenInv /\ OwnedInv /\ [JournalNext]_<<vars, journalVars>>
    => OwnedInv'
<1> SUFFICES ASSUME LaneInv, HeardInv, WrittenInv, OwnedInv,
                    [JournalNext]_<<vars, journalVars>>
             PROVE  OwnedInv'
  OBVIOUS
<1>t. art \in Artifacts /\ ProcessInv /\ latest \in [Stages -> Statuses]
  BY DEF LaneInv, TypeInv, WrittenInv
<1>o. "idle" \notin Observed /\ "idle" \notin Stages
  BY AboutIs DEF Stages
<1>q. ASSUME heard' = "nothing", phase' = "run", at' \notin {"analyze-clean", "review-clean"}
      PROVE  OwnedInv'
  BY <1>q DEF OwnedInv, Owned
<1>b. ASSUME Begin \/ TurnedAway, UNCHANGED journalVars PROVE OwnedInv'
  <2>1. at = "idle"
    BY <1>b DEF Begin, StartLane, ResumeLane, ResumeFails, SkipLane, TurnedAway
  <2>2. heard' = "nothing"
    BY <1>b, <1>o, <2>1 DEF HeardInv, journalVars
  <2>3. phase' = "run" /\ at' \notin {"analyze-clean", "review-clean"}
    <3>1. StartLane => at' = "specify" /\ phase' = "run"
      BY DEF StartLane, Enter
    <3>2. ResumeLane => phase' = "run" /\ at' \notin {"analyze-clean", "review-clean"}
      BY ResumeMoves DEF ResumePoints
    <3>3. ResumeFails \/ SkipLane \/ TurnedAway => at' = "idle" /\ phase' = "run"
      BY DEF ResumeFails, SkipLane, TurnedAway, Return
    <3> QED BY <1>b, <3>1, <3>2, <3>3 DEF Begin
  <2> QED BY <1>q, <2>2, <2>3
<1>1. CASE BeginWithJournal
  BY <1>1, <1>b DEF BeginWithJournal
<1>2. CASE SkipWithoutJournal
  BY <1>2, <1>b DEF SkipWithoutJournal, Begin
<1>3. CASE JournalUnreadable
  BY <1>3, <1>b DEF JournalUnreadable, TurnedAway, journalVars
<1>4. CASE StepStarted
  <2>1. /\ at \in Stages /\ heard' = "started" /\ at' = at
        /\ latest' = [latest EXCEPT ![at] = "running"]
    BY <1>4 DEF StepStarted, vars, process
  <2>2. latest'[at] = "running" /\ About(at) = {at}
    BY <2>1, <1>t, AboutIs
  <2>3. at \notin {"analyze-clean", "review-clean"}
    BY <2>1 DEF Stages
  <2>4. \A s \in About(at)' : latest'[s] = "running"
    BY <2>1, <2>2 DEF About
  <2> QED BY <2>1, <2>3, <2>4 DEF OwnedInv
<1>5. CASE RunStep
  <2>1. /\ phase = "run" /\ Step /\ latest' = latest
        /\ heard = IF at \in Stages THEN "started" ELSE "nothing"
        /\ heard' = IF at \in Observed THEN EndOfStep ELSE "nothing"
    BY <1>5 DEF RunStep
  <2>2. at' = at /\ About(at)' = About(at)
    BY <1>t, <2>1, StepIsMove DEF StepMoves, About
  <2>3. at \in Observed \ {"verify-mergeback"} => \A s \in About(at) : latest[s] = "running"
    BY <2>1, AboutIs DEF OwnedInv, Owned
  <2>4. Owned' => at \in Observed
    BY <2>1, <2>2, AboutIs DEF Owned, Stages
  <2>5. heard' = "failed" /\ at \in Stages => phase' # "save"
    BY <2>1 DEF EndOfStep, Stages
  <2>6. at \in {"analyze-clean", "review-clean"} => phase' = "save"
    <3> SUFFICES ASSUME at \in {"analyze-clean", "review-clean"} PROVE phase' = "save"
      OBVIOUS
    <3>1. AnalyzeClean \/ ReviewClean
      BY <2>1 DEF Step, Specify, Plan, Tasks, Generate, Analyze, Remediate, Implement,
         CodeReview, Issues, EnsureBranch, Plainly, CaptureBranch, Plain,
         MergebackAttempt, ResolveMergeback, Finalize, Runs, Advance, Save, CommitFails,
         SaveFailed
    <3> QED BY <3>1 DEF AnalyzeClean, ReviewClean, Succeeds, Tolerated
  <2> QED BY <2>1, <2>2, <2>3, <2>4, <2>5, <2>6 DEF OwnedInv
<1>6. CASE StepCompleted
  <2>1. heard \in {"succeeded", "failed"} /\ heard' = "nothing" /\ at' = at /\ phase' = phase
    BY <1>6 DEF StepCompleted, vars, process
  <2>2. PICK s \in About(at), high \in BOOLEAN :
          latest' = [latest EXCEPT ![s] = IF @ = "none" THEN @ ELSE Recorded(s, at, high)]
    BY <1>6 DEF StepCompleted
  <2>3. About(at)' = About(at)
    BY <2>1 DEF About
  <2>4. ASSUME Owned' PROVE \A r \in About(at) : latest'[r] = "running"
    <3>1. at \in {"analyze", "code-review"} /\ phase = "save"
      BY <2>1, <2>4 DEF Owned, OwnedInv
    <3>2. heard = "succeeded" /\ About(at) = {at} /\ at \in Stages /\ latest[at] = "running"
      BY <2>1, <3>1, AboutIs DEF OwnedInv, Owned, Stages
    <3>3. Recorded(s, at, high) = "running"
      BY <2>1, <2>2, <3>1, <3>2, RecordedIs
    <3> QED BY <2>2, <3>2, <3>3, <1>t
  <2> QED BY <2>1, <2>3, <2>4 DEF OwnedInv
<1>7. CASE AfterStep
  <2>1. phase # "run" /\ heard = "nothing" /\ Step /\ heard' = heard /\ latest' = latest
    BY <1>7 DEF AfterStep, journalVars
  <2>2. ASSUME phase' = "run", at' \in {"analyze-clean", "review-clean"}
        PROVE  \A s \in About(at)' : latest[s] = "running"
    <3>1. \/ at = "analyze" /\ at' = "analyze-clean" /\ phase = "save"
          \/ at = "code-review" /\ at' = "review-clean" /\ phase = "save"
      BY <2>1, <2>2, <1>t, AfterMoves, AdvanceMoves, SaveMoves DEF Successors
    <3>2. Owned /\ at # "verify-mergeback"
      BY <3>1 DEF Owned
    <3>3. \A s \in About(at) : latest[s] = "running"
      BY <3>2 DEF OwnedInv
    <3>4. About(at)' = About(at)
      <4>1. at = "analyze" => About(at') = About(at)
        BY <3>1, AboutIs DEF Stages
      <4>2. at = "code-review" => About(at') = About(at)
        BY <3>1, AboutIs DEF Stages
      <4> QED BY <3>1, <4>1, <4>2 DEF About
    <3> QED BY <3>3, <3>4
  <2>3. ~(at' \in {"analyze", "code-review"} /\ phase' = "save")
    BY <2>1, <1>t, AfterMoves, AdvanceMoves, SaveMoves
  <2> QED BY <2>1, <2>2, <2>3 DEF OwnedInv, Owned
<1>8. CASE CrashWithJournal
  BY <1>8, <1>q DEF CrashWithJournal, Crash, Return
<1>9. CASE UNCHANGED <<vars, journalVars>>
  <2>1. UNCHANGED <<at, phase, latest, heard>>
    BY <1>9 DEF vars, process, journalVars
  <2>2. About(at)' = About(at)
    BY <2>1 DEF About
  <2> QED BY <2>1, <2>2 DEF OwnedInv, Owned
<1> QED
  BY <1>1, <1>2, <1>3, <1>4, <1>5, <1>6, <1>7, <1>8, <1>9 DEF JournalNext

(* A process leaves a stage undone behind it only with a fault: an agent   *)
(* was vague, or did a part of the tasks, or found something critical.     *)
LEMMA MissedByFault ==
  ASSUME ProcessInv, art \in Artifacts, Step, phase = "run", Missed'
  PROVE  Missed \/ \E k \in Kinds : Fault(k)
<1>k. \A k : Fault(k) => k \in Kinds
  BY DEF Fault
<1>m. at' = at /\ ArtifactsKept
  BY StepIsMove DEF StepMoves
<1>u. ASSUME art'.spec = art.spec, art'.plan = art.plan, art'.tasks = art.tasks,
             art'.review = art.review,
             at \notin {"specify", "plan", "tasks", "implement", "code-review"}
      PROVE  Missed
  BY <1>u, <1>m DEF Missed, Past, SpecDone, PlanDone, TasksDone
<1> USE <1>k DEF Runs, Succeeds, Fails, Tolerated, AgentFails, process, history, Artifacts,
            Past, SpecDone, PlanDone, TasksDone, Finalized, Attempted,
            Merging, Looped, Looping, Analyzed, Tasked, Planned, Specified
<1>1. CASE Specify
  <2>1. at = "specify" /\ phase' \in {"run", "fail", "save"}
    BY <1>1 DEF Specify, Generate, ProcessInv
  <2>2. \/ \E k \in Kinds : Fault(k)
        \/ Writes("spec", "concrete")
        \/ art' = art /\ phase' # "save"
    BY <1>1 DEF Specify, Generate
  <2>3. Writes("spec", "concrete") => art'.spec = "concrete"
    BY WritesOne
  <2> QED BY <1>m, <2>1, <2>2, <2>3 DEF Missed
<1>2. CASE Plan
  <2>1. at = "plan"
    BY <1>2 DEF Plan, Generate
  <2>2. \/ \E k \in Kinds : Fault(k)
        \/ Writes("plan", "concrete")
        \/ art' = art /\ phase' # "save"
    BY <1>2 DEF Plan, Generate
  <2>3. Writes("plan", "concrete") => art'.plan = "concrete" /\ art'.spec = art.spec
    BY WritesOne
  <2> QED BY <1>m, <2>1, <2>2, <2>3 DEF Missed
<1>3. CASE Tasks
  <2>1. at = "tasks"
    BY <1>3 DEF Tasks, Generate
  <2>2. \/ \E k \in Kinds : Fault(k)
        \/ Writes("tasks", "open")
        \/ art' = art /\ phase' # "save"
    BY <1>3 DEF Tasks, Generate
  <2>3. Writes("tasks", "open") =>
          art'.tasks = "open" /\ art'.spec = art.spec /\ art'.plan = art.plan
    BY WritesOne
  <2> QED BY <1>m, <2>1, <2>2, <2>3 DEF Missed
<1>4. CASE Analyze
  <2>1. at = "analyze"
    BY <1>4 DEF Analyze
  <2>2. art'.spec = art.spec /\ art'.plan = art.plan /\ art'.tasks = art.tasks
        /\ art'.review = art.review
    BY <1>4, ZenonT(60) DEF Analyze
  <2> QED BY <1>u, <2>1, <2>2
<1>5. CASE AnalyzeClean
  BY <1>5, <1>u DEF AnalyzeClean
<1>6. CASE Remediate
  <2>1. at = "tasks-remediation"
    BY <1>6 DEF Remediate
  <2>2. art' = art \/ Writes("tasks", "open")
    BY <1>6 DEF Remediate
  <2>3. /\ art'.spec = art.spec /\ art'.plan = art.plan
        /\ art'.tasks \in {art.tasks, "open"}
    BY <2>2, WritesOne
  <2> QED BY <1>m, <2>1, <2>3 DEF Missed
<1>7. CASE Implement
  <2>1. at = "implement"
    BY <1>7 DEF Implement
  <2>2. \/ \E k \in Kinds : Fault(k)
        \/ Writes("tasks", IF art.tasks = "open" THEN "checked" ELSE art.tasks)
        \/ art' = art /\ phase' # "save"
    BY <1>7 DEF Implement
  <2>3. Writes("tasks", IF art.tasks = "open" THEN "checked" ELSE art.tasks) =>
          /\ art'.spec = art.spec /\ art'.plan = art.plan
          /\ art'.tasks = IF art.tasks = "open" THEN "checked" ELSE art.tasks
    BY WritesOne
  <2> QED BY <1>m, <2>1, <2>2, <2>3 DEF Missed
<1>8. CASE CodeReview
  <2>1. at = "code-review"
    BY <1>8 DEF CodeReview
  <2>2. \/ \E k \in Kinds : Fault(k)
        \/ art' = [art EXCEPT !.review = "clean"]
    BY <1>8 DEF CodeReview
  <2>3. art' = [art EXCEPT !.review = "clean"] =>
          /\ art'.spec = art.spec /\ art'.plan = art.plan /\ art'.tasks = art.tasks
          /\ art'.review = "clean"
    OBVIOUS
  <2> QED BY <1>m, <2>1, <2>2, <2>3 DEF Missed
<1>9. CASE ReviewClean
  BY <1>9, <1>u DEF ReviewClean
<1>10. CASE Issues
  <2>1. at = "issues-from-review"
    BY <1>10 DEF Issues
  <2>2. art'.spec = art.spec /\ art'.plan = art.plan /\ art'.tasks = art.tasks
        /\ art'.review = art.review
    BY <1>10 DEF Issues
  <2> QED BY <1>u, <2>1, <2>2
<1>11. CASE EnsureBranch
  BY <1>11, <1>u DEF EnsureBranch
<1>12. ASSUME NEW s \in Plain, Plainly(s) PROVE Missed
  BY <1>12, <1>u DEF Plainly, Plain
<1>13. ASSUME NEW s \in {"capture-workflow-branch", "capture-mergeback-branch"},
              CaptureBranch(s)
       PROVE  Missed
  BY <1>13, <1>u DEF CaptureBranch
<1>14. CASE MergebackAttempt
  <2>1. at = "mergeback-attempt"
    BY <1>14 DEF MergebackAttempt
  <2>2. art'.spec = art.spec /\ art'.plan = art.plan /\ art'.tasks = art.tasks
        /\ art'.review = art.review
    BY <1>14 DEF MergebackAttempt
  <2> QED BY <1>u, <2>1, <2>2
<1>15. CASE ResolveMergeback
  BY <1>15, <1>u DEF ResolveMergeback
<1>16. CASE Finalize
  <2>1. at = "mergeback-finalize"
    BY <1>16 DEF Finalize
  <2>2. art' = art \/ art' = [art EXCEPT !.final = TRUE]
    BY <1>16 DEF Finalize
  <2>3. art'.spec = art.spec /\ art'.plan = art.plan /\ art'.tasks = art.tasks
        /\ art'.review = art.review
    BY <2>2
  <2> QED BY <1>u, <2>1, <2>3
<1>17. ASSUME Advance \/ Save \/ CommitFails \/ SaveFailed PROVE FALSE
  BY <1>17 DEF Advance, Save, CommitFails, SaveFailed
<1> QED
  BY <1>1, <1>2, <1>3, <1>4, <1>5, <1>6, <1>7, <1>8, <1>9, <1>10,
     <1>11, <1>12, <1>13, <1>14, <1>15, <1>16, <1>17 DEF Step

(* To go on to the next step leaves nothing else undone, and owns the      *)
(* attempt as before.                                                      *)
LEMMA NextIsOwned ==
  ASSUME ProcessInv, art \in Artifacts, Advance \/ Save, heard = "nothing", heard' = heard,
         at # "verify-mergeback"
  PROVE  /\ at' # "idle" /\ (Merges' <=> Merges)
         /\ Missed' => Missed
         /\ Owned => Owned'
<1> USE DEF Past, SpecDone, PlanDone, TasksDone, Finalized, Attempted, Merges, Missed, Owned,
            Merging, Looped, Looping, Analyzed, Tasked, Planned, Specified, ProcessInv,
            ControlInv, Successors
<1>1. CASE Advance
  BY <1>1, AdvanceMoves
<1>2. CASE Save
  <2>1. <<at, at'>> \in Successors /\ phase = "save" /\ phase' = "run" /\ art' = art
    BY <1>2, SaveMoves
  <2>2. at' # "idle" /\ (Merges' <=> Merges)
    BY <2>1
  <2>3. Missed' => Missed
    BY <2>1
  <2>4. Owned => Owned'
    BY <2>1
  <2> QED BY <2>2, <2>3, <2>4
<1> QED
  BY <1>1, <1>2

(* Behind the attempt of the mergeback the stages stay as they are, and    *)
(* what is certain to be ended stays so, but for a fault.                  *)
LEMMA CertainByFault ==
  ASSUME LaneInv, Step, phase = "run", Merges, latest' = latest
  PROVE  /\ Merges' /\ (Reopened' <=> Reopened)
         /\ Certain => Certain' \/ \E k \in Kinds : Fault(k)
<1>t. art \in Artifacts /\ git \in Worktrees /\ mem \in Records
  BY DEF LaneInv, TypeInv, WorktreeInv
<1>k. \A k : Fault(k) => k \in Kinds
  BY DEF Fault
<1>m. at' = at /\ at \in Attempted
  BY <1>t, StepIsMove DEF StepMoves, Merges, Past
<1>M. Merges'
  BY <1>m DEF Merges, Past
<1>a. \/ ResolveMergeback \/ Finalize \/ Plainly("verify-mergeback")
  BY <1>m DEF Step, Specify, Plan, Tasks, Generate, Analyze, AnalyzeClean, Remediate,
     Implement, CodeReview, ReviewClean, Issues, EnsureBranch, Plainly, CaptureBranch, Plain,
     MergebackAttempt, Runs, Advance, Save, CommitFails, SaveFailed, Attempted, Finalized
<1>r. ASSUME art' = art PROVE Reopened' <=> Reopened
  BY <1>r DEF Reopened, StagesDone, SpecDone, PlanDone, TasksDone, AnalyzeDone, FindingsDone,
              LoopIsDone
<1>1. CASE ResolveMergeback
  <2>1. at = "resolve-mergeback" /\ art' = art /\ mem' = mem
    BY <1>1 DEF ResolveMergeback, Runs
  <2>2. ASSUME Certain PROVE Certain' \/ \E k \in Kinds : Fault(k)
    <3>1. /\ latest["mergeback-attempt"] = "running" /\ git.head # "rebasing"
          /\ mem.branch \notin {"", "target"}
      BY <2>1, <2>2 DEF Certain
    <3>2. \/ \E k \in Kinds : Fault(k)
          \/ phase' = "save"
             /\ git' = [git EXCEPT !.head = IF git.head = "rebasing" THEN git.rebase
                                                                     ELSE git.head]
      BY <1>1, <1>k DEF ResolveMergeback, Succeeds
    <3>3. git' = [git EXCEPT !.head = IF git.head = "rebasing" THEN git.rebase ELSE git.head]
            => git'.head = git.head
      BY <3>1, <1>t DEF Worktrees
    <3> QED BY <1>M, <1>m, <2>1, <3>1, <3>2, <3>3 DEF Certain
  <2> QED BY <1>M, <1>r, <2>1, <2>2
<1>2. CASE Finalize
  <2>1. at = "mergeback-finalize" /\ mem' = mem
    BY <1>2 DEF Finalize, Runs
  <2>2. art' = art \/ art' = [art EXCEPT !.final = TRUE]
    BY <1>2 DEF Finalize
  <2>3. Reopened' <=> Reopened
    <3>1. CASE art' = [art EXCEPT !.final = TRUE]
      <4>1. /\ art'.spec = art.spec /\ art'.plan = art.plan /\ art'.tasks = art.tasks
            /\ art'.touched = art.touched /\ art'.analyze = art.analyze
            /\ art'.review = art.review /\ art'.issues = art.issues
            /\ art'.attempt = art.attempt
        BY <3>1, <1>t DEF Artifacts
      <4> QED BY <4>1 DEF Reopened, StagesDone, SpecDone, PlanDone, TasksDone, AnalyzeDone,
                          FindingsDone, LoopIsDone
    <3> QED BY <2>2, <3>1, <1>r
  <2>4. ASSUME Certain PROVE Certain' \/ \E k \in Kinds : Fault(k)
    <3>1. /\ latest["mergeback-attempt"] = "running" /\ git.head # "rebasing"
          /\ mem.branch \notin {"", "target"}
      BY <2>1, <2>4 DEF Certain
    <3>2. phase' = "save" \/ \E k \in Kinds : Fault(k)
      BY <1>2, <1>k, <3>1 DEF Finalize, Succeeds
    <3> QED BY <1>M, <1>m, <2>1, <3>1, <3>2 DEF Certain
  <2> QED BY <1>M, <2>3, <2>4
<1>3. CASE Plainly("verify-mergeback")
  <2>1. at = "verify-mergeback" /\ art' = art /\ phase' = "save"
    BY <1>3 DEF Plainly, Runs, Succeeds
  <2>2. Certain => Certain'
    BY <1>M, <1>m, <2>1 DEF Certain
  <2> QED BY <1>M, <1>r, <2>1, <2>2
<1> QED
  BY <1>a, <1>1, <1>2, <1>3

(* At the attempt, whatever is open in the assessment was left undone.     *)
LEMMA ReopenedIsMissed ==
  ASSUME LeftInv, ImplementedInv, at = "mergeback-attempt"
  PROVE  ~StagesDone => Missed
<1>1. AnalyzeDone /\ FindingsDone /\ art.issues
  BY DEF LeftInv, ImplementedInv, AnalyzeDone, Past, Analyzed, Looping, Looped, Merging
<1> QED
  BY <1>1 DEF Missed, StagesDone, LoopIsDone, Past, Specified, Planned, Tasked, Analyzed,
              Looping, Looped, Merging

(* An attempt that ends goes on to a branch that can be merged, or there   *)
(* was one before it, or there is a conflict to resolve.                   *)
LEMMA AttemptIsCertain ==
  ASSUME LaneInv, TargetInv, ImplementedInv, MergebackAttempt, phase' = "save",
         latest' = latest, latest["mergeback-attempt"] = "running"
  PROVE  /\ ~Merges /\ Merges' /\ (Reopened' => Missed)
         /\ Certain' \/ art.attempt # "none" \/ \E k \in Kinds : Fault(k)
<1>t. art \in Artifacts /\ git \in Worktrees /\ mem \in Records
  BY DEF LaneInv, TypeInv, WorktreeInv
<1>1. at = "mergeback-attempt" /\ phase = "run" /\ at' = at /\ mem' = mem
  BY DEF MergebackAttempt, Runs, Succeeds, Fails
<1>2. ~Merges /\ Merges'
  BY <1>1 DEF Merges, Past, Attempted, Finalized
<1>3. Reopened' => Missed
  <2>1. art' = art \/ \E a \in {"rebased", "conflict"} : art' = [art EXCEPT !.attempt = a]
    BY DEF MergebackAttempt
  <2>2. /\ art'.spec = art.spec /\ art'.plan = art.plan /\ art'.tasks = art.tasks
        /\ art'.touched = art.touched /\ art'.analyze = art.analyze
        /\ art'.review = art.review /\ art'.issues = art.issues
    BY <2>1, <1>t DEF Artifacts
  <2>3. ~StagesDone => Missed
    BY <1>1, ReopenedIsMissed DEF LaneInv
  <2> QED BY <2>2, <2>3 DEF Reopened, StagesDone, SpecDone, PlanDone, TasksDone, AnalyzeDone,
                          FindingsDone, LoopIsDone
<1>4. \/ /\ mem.branch \in git.branches \cup {"target"} /\ git' = [git EXCEPT !.head = mem.branch]
      \/ \E k \in Kinds : Fault(k)
  BY <1>1 DEF MergebackAttempt, Fault, Fails
<1>5. ASSUME mem.branch \in git.branches \cup {"target"}, art.attempt = "none",
             git' = [git EXCEPT !.head = mem.branch]
      PROVE  Certain'
  <2>1. mem.branch # "target"
    BY <1>5 DEF TargetInv
  <2>2. git'.head = mem.branch /\ mem.branch \in {"spec", "feature"}
    BY <1>5, <2>1, <1>t DEF Worktrees
  <2> QED BY <1>1, <1>2, <2>2 DEF Certain
<1> QED
  BY <1>2, <1>3, <1>4, <1>5

(* Charges are one or nothing.                                             *)
LEMMA ChargesAre ==
  /\ (Owned => Num(Owned) = 1) /\ (~Owned => Num(Owned) = 0)
  /\ (Missed => Num(Missed) = 1) /\ (~Missed => Num(Missed) = 0)
  /\ (Certain => Num(Certain) = 1) /\ (~Certain => Num(Certain) = 0)
  /\ (Reopened => Num(Reopened) = 1) /\ (~Reopened => Num(Reopened) = 0)
  /\ (art.attempt # "none" => Num(art.attempt # "none") = 1)
  /\ (art.attempt = "none" => Num(art.attempt # "none") = 0)
  BY DEF Num

(* So they are after a step.                                               *)
LEMMA ChargesBecome ==
  /\ (Owned' => Num(Owned)' = 1) /\ (~Owned' => Num(Owned)' = 0)
  /\ (Missed' => Num(Missed)' = 1) /\ (~Missed' => Num(Missed)' = 0)
  /\ (Certain' => Num(Certain)' = 1) /\ (~Certain' => Num(Certain)' = 0)
  /\ (Reopened' => Num(Reopened)' = 1) /\ (~Reopened' => Num(Reopened)' = 0)
  /\ (art'.attempt # "none" => Num(art.attempt # "none")' = 1)
  /\ (art'.attempt = "none" => Num(art.attempt # "none")' = 0)
  BY DEF Num

(* What the credit covers, between processes and behind the attempt of the *)
(* mergeback, and before it.                                               *)
LEMMA CreditBefore ==
  ASSUME CreditInv
  PROVE  /\ stale \in Nat
         /\ at = "idle" \/ Merges =>
              RunningAttempts + Num(Reopened) <= faults + Num(Certain)
         /\ ~(at = "idle" \/ Merges) =>
              RunningAttempts + Num(art.attempt # "none") + Num(Missed) <= faults + Num(Owned)
  BY DEF CreditInv

(* A process that ends with a fault, or owns nothing, leaves as many       *)
(* attempts running as there were.                                         *)
LEMMA EndsInCredit ==
  ASSUME CreditInv, at' = "idle", phase' = "run", art' = art, stale' = stale, faults \in Nat,
         RunningAttempts \in Nat, RunningAttempts' = RunningAttempts,
         \/ faults' = faults + 1
         \/ faults' = faults /\ (Merges => ~Certain) /\ (~Merges /\ at # "idle" => ~Owned)
  PROVE  CreditInv'
<1>1. ~Merges' /\ ~Certain'
  BY DEF Merges, Certain, Past, Attempted, Finalized
<1>2. (Reopened' <=> Reopened) /\ (Reopened => art.attempt # "none")
  BY DEF Reopened, StagesDone, SpecDone, PlanDone, TasksDone, AnalyzeDone, FindingsDone,
         LoopIsDone
<1>3. at = "idle" => ~Certain
  BY DEF Merges, Certain, Past, Attempted, Finalized
<1>4. RunningAttempts + Num(Reopened) <= faults'
  <2>1. CASE at = "idle" \/ Merges
    BY <1>3, <2>1, CreditBefore, ChargesAre
  <2>2. CASE ~(at = "idle" \/ Merges)
    BY <1>2, <2>2, CreditBefore, ChargesAre
  <2> QED BY <2>1, <2>2
<1>5. RunningAttempts' + Num(Reopened)' <= faults' + Num(Certain)'
  BY <1>1, <1>2, <1>4, ChargesAre, ChargesBecome
<1> QED
  BY <1>5, CreditBefore DEF CreditInv

(* A process that begins has left nothing undone behind it; when it goes   *)
(* back before a mergeback, the assessment has asked for that.             *)
LEMMA BeginsInCredit ==
  ASSUME CreditInv, LaneInv, StartLane \/ ResumeLane, stale' = stale,
         RunningAttempts \in Nat, RunningAttempts' = RunningAttempts
  PROVE  CreditInv'
<1>1. at = "idle" /\ phase' = "run" /\ art' = art /\ faults' = faults /\ faults \in Nat
  <2>1. StartLane => at = "idle" /\ phase' = "run" /\ art' = art /\ faults' = faults
    BY DEF StartLane, Enter
  <2>2. ResumeLane => at = "idle" /\ phase' = "run" /\ art' = art /\ faults' = faults
    BY ResumeMoves
  <2>3. faults \in Nat
    BY LaneAssumption DEF LaneInv, TypeInv
  <2> QED BY <2>1, <2>2, <2>3
<1>2. RunningAttempts' + Num(Reopened) <= faults'
  <2>1. ~Certain
    BY <1>1 DEF Certain, Merges, Past, Attempted, Finalized
  <2> QED BY <1>1, <2>1, CreditBefore, ChargesAre
<1>3. Reopened' <=> Reopened
  BY <1>1 DEF Reopened, StagesDone, SpecDone, PlanDone, TasksDone, AnalyzeDone, FindingsDone,
              LoopIsDone
<1>4. at' # "idle" /\ ~Missed' /\ (~Merges' /\ art.attempt # "none" => Reopened)
  <2>1. CASE StartLane
    <3>1. at' = "specify" /\ ~SpecDone
      BY <2>1, ResumeFacts DEF StartLane, Enter
    <3> QED BY <1>1, <3>1 DEF Missed, Past, Specified, Planned, Tasked, Analyzed, Looping,
                              Looped, Merging, Attempted, Finalized, Reopened, StagesDone
  <2>2. CASE ResumeLane
    <3>1. PICK s \in ResumePoints \ {"specify"} :
            ResumesAt(s) /\ at' = IF s = "implement-review-loop" THEN "implement" ELSE s
      BY <2>2, ResumeMoves
    <3>2. at' # "idle"
      BY <3>1 DEF ResumePoints
    <3>3. SpecDone' = SpecDone /\ PlanDone' = PlanDone /\ TasksDone' = TasksDone
      BY <1>1 DEF SpecDone, PlanDone, TasksDone
    <3>4. /\ at' \in Specified => SpecDone
          /\ at' \in Planned => PlanDone
          /\ at' \in Tasked => TasksDone
          /\ at' \in (Looping \ {"implement"}) \cup Looped => LoopIsDone
      BY <3>1, ResumeFacts DEF ResumePoints, Specified, Planned, Tasked, Analyzed, Looping,
                               Looped, Merging, Attempted, Finalized
    <3>5. ~Missed'
      BY <1>1, <3>3, <3>4 DEF Missed, Past, LoopIsDone, Looping, Looped, Merging
    <3>6. at' \notin Attempted /\ art.attempt # "none" => ~StagesDone
      <4>1. art.attempt \in {"none", "conflict", "rebased"}
        BY DEF LaneInv, TypeInv, Artifacts
      <4> QED BY <3>1, <4>1, ResumeFacts DEF ResumePoints, Attempted, Finalized, StagesDone
    <3>7. ~Merges' /\ art.attempt # "none" => Reopened
      BY <3>6 DEF Merges, Past, Reopened
    <3> QED BY <3>2, <3>5, <3>7
  <2> QED BY <2>1, <2>2
<1>5. CASE Merges'
  <2>1. RunningAttempts' + Num(Reopened)' <= faults' + Num(Certain)'
    BY <1>1, <1>2, <1>3, ChargesAre, ChargesBecome
  <2> QED BY <1>5, <2>1, CreditBefore DEF CreditInv
<1>6. CASE ~Merges'
  <2>1. RunningAttempts' + Num(art.attempt # "none")' + Num(Missed)' <= faults' + Num(Owned)'
    BY <1>1, <1>2, <1>4, <1>6, ChargesAre, ChargesBecome
  <2> QED BY <1>4, <1>6, <2>1, CreditBefore DEF CreditInv
<1> QED
  BY <1>5, <1>6

(* A step that runs ends no attempt and begins none; it leaves a stage     *)
(* undone, or what it owned, only with a fault.                            *)
LEMMA RunsInCredit ==
  ASSUME CreditInv, LaneInv, HeardInv, TargetInv, ImplementedInv, RunStep,
         RunningAttempts \in Nat, RunningAttempts' = RunningAttempts
  PROVE  CreditInv'
<1>1. /\ phase = "run" /\ Step /\ latest' = latest /\ stale' = stale
      /\ heard = IF at \in Stages THEN "started" ELSE "nothing"
      /\ heard' = IF at \in Observed THEN EndOfStep ELSE "nothing"
  BY DEF RunStep
<1>t. art \in Artifacts /\ ProcessInv /\ faults \in Nat
  BY LaneAssumption DEF LaneInv, TypeInv
<1>2. at' = at /\ ArtifactsKept
  BY <1>1, <1>t, StepIsMove DEF StepMoves
<1>f. (\E k \in Kinds : Fault(k)) => faults' = faults + 1
  BY DEF Fault
<1>g. faults' = faults \/ faults' = faults + 1
  <2>1. [LaneNext]_vars
    BY <1>1 DEF LaneNext, Next
  <2> QED BY <2>1, <1>f, FaultsStep
<1>3. CASE Merges
  <2>1. /\ Merges' /\ (Reopened' <=> Reopened)
        /\ Certain => Certain' \/ faults' = faults + 1
    BY <1>1, <1>3, <1>f, CertainByFault
  <2>2. RunningAttempts' + Num(Reopened)' <= faults' + Num(Certain)'
    BY <1>3, <1>g, <1>t, <2>1, CreditBefore, ChargesAre, ChargesBecome
  <2> QED BY <1>1, <2>1, <2>2, CreditBefore DEF CreditInv
<1>4. CASE ~Merges
  <2>i. at # "idle"
    BY <1>1 DEF Step, Specify, Plan, Tasks, Generate, Analyze, AnalyzeClean, Remediate,
       Implement, CodeReview, ReviewClean, Issues, EnsureBranch, Plainly, CaptureBranch, Plain,
       MergebackAttempt, ResolveMergeback, Finalize, Runs, Advance, Save, CommitFails,
       SaveFailed
  <2>1. RunningAttempts + Num(art.attempt # "none") + Num(Missed) <= faults + Num(Owned)
    BY <1>4, <2>i, CreditBefore
  <2>2. CASE Merges'
    <3>1. at = "mergeback-attempt" /\ phase' = "save"
      BY <1>2, <1>4, <2>2 DEF Merges, Past
    <3>2. MergebackAttempt
      BY <1>1, <3>1 DEF Step, Specify, Plan, Tasks, Generate, Analyze, AnalyzeClean,
         Remediate, Implement, CodeReview, ReviewClean, Issues, EnsureBranch, Plainly,
         CaptureBranch, Plain, ResolveMergeback, Finalize, Runs, Advance, Save, CommitFails,
         SaveFailed
    <3>3. latest["mergeback-attempt"] = "running"
      BY <1>1, <3>1 DEF HeardInv, Stages
    <3>4. (Reopened' => Missed) /\ (Certain' \/ art.attempt # "none" \/ faults' = faults + 1)
      BY <1>1, <1>f, <3>1, <3>2, <3>3, AttemptIsCertain
    <3>5. RunningAttempts' + Num(Reopened)' <= faults' + Num(Certain)'
      BY <1>g, <1>t, <2>1, <3>4, ChargesAre, ChargesBecome
    <3> QED BY <1>1, <2>2, <3>5, CreditBefore DEF CreditInv
  <2>3. CASE ~Merges'
    <3>1. art'.attempt # "none" => art.attempt # "none"
      <4>1. ~Runs("mergeback-attempt") => art'.attempt = art.attempt
        BY <1>2 DEF ArtifactsKept
      <4>2. CASE Runs("mergeback-attempt")
        <5>1. at = "mergeback-attempt" /\ phase' # "save"
          BY <1>2, <2>3, <4>2 DEF Merges, Past, Runs
        <5>2. MergebackAttempt
          BY <1>1, <5>1 DEF Step, Specify, Plan, Tasks, Generate, Analyze, AnalyzeClean,
             Remediate, Implement, CodeReview, ReviewClean, Issues, EnsureBranch, Plainly,
             CaptureBranch, Plain, ResolveMergeback, Finalize, Runs, Advance, Save,
             CommitFails, SaveFailed
        <5> QED BY <5>1, <5>2 DEF MergebackAttempt, Succeeds
      <4> QED BY <4>1, <4>2
    <3>2. Missed' => Missed \/ faults' = faults + 1
      BY <1>1, <1>t, <1>f, MissedByFault
    <3>3. Owned => Owned'
      <4>1. Owned => at \in Observed
        BY <1>1, AboutIs DEF Owned
      <4>2. at \in Observed => heard' # "nothing"
        BY <1>1 DEF EndOfStep
      <4> QED BY <4>1, <4>2 DEF Owned
    <3>4. RunningAttempts' + Num(art.attempt # "none")' + Num(Missed)' <= faults' + Num(Owned)'
      BY <1>g, <1>t, <2>1, <3>1, <3>2, <3>3, ChargesAre, ChargesBecome
    <3> QED BY <1>1, <1>2, <2>i, <2>3, <3>4, CreditBefore DEF CreditInv
  <2> QED BY <2>2, <2>3
<1> QED
  BY <1>3, <1>4

(* What the observer writes down ends the attempt that the process owned,  *)
(* or the step that verifies it will.                                      *)
LEMMA WritesInCredit ==
  ASSUME CreditInv, LaneInv, HeardInv, WrittenInv, OwnedInv, StepCompleted
  PROVE  CreditInv'
<1>1. /\ heard \in {"succeeded", "failed"} /\ heard' = "nothing" /\ stale' = stale
      /\ UNCHANGED <<at, phase, art, mem, git, faults>>
  BY DEF StepCompleted, vars, process
<1>2. PICK s \in About(at), high \in BOOLEAN :
        latest' = [latest EXCEPT ![s] = IF @ = "none" THEN @ ELSE Recorded(s, at, high)]
  BY DEF StepCompleted
<1>t. /\ latest \in [Stages -> Statuses] /\ s \in Stages /\ at # "idle"
      /\ faults \in Nat /\ stale \in Nat
  BY <1>1, AboutIs, LaneAssumption, CreditBefore
     DEF WrittenInv, About, HeardInv, Stages, LaneInv, TypeInv
<1>3. /\ \A r \in Stages \ {s} : latest'[r] = latest[r]
      /\ latest'[s] = IF latest[s] = "none" THEN "none" ELSE Recorded(s, at, high)
  BY <1>2, <1>t
<1>n. /\ Running(latest) \in Nat /\ Running(latest') \in Nat
      /\ RunningAttempts = stale + Running(latest)
      /\ RunningAttempts' = stale + Running(latest')
  BY <1>1, RunningIsNat, AttemptsAre DEF RunningAttempts, Running
<1>4. /\ (latest'[s] = "running" <=> latest[s] = "running") =>
           Running(latest') = Running(latest)
      /\ latest'[s] # "running" /\ latest[s] = "running" =>
           Running(latest') = Running(latest) - 1
  BY <1>3, <1>t, RunningChanges
<1>5. /\ (Missed' <=> Missed) /\ (Merges' <=> Merges) /\ (Reopened' <=> Reopened)
      /\ art'.attempt = art.attempt
  BY <1>1 DEF Missed, Merges, Reopened, Past, StagesDone, SpecDone, PlanDone, TasksDone,
              AnalyzeDone, FindingsDone, LoopIsDone
<1>6. CASE at = "verify-mergeback"
  <2>1. s = "mergeback-attempt" /\ Merges /\ latest'[s] # "running"
    BY <1>1, <1>2, <1>3, <1>6, AboutIs, RecordedIs DEF Merges, Past, Attempted, Finalized
  <2>2. ~Certain' /\ (Certain => latest[s] = "running")
    BY <2>1 DEF Certain
  <2>3. RunningAttempts' + Num(Reopened)' <= faults' + Num(Certain)'
    BY <1>1, <1>4, <1>5, <1>n, <1>t, <2>1, <2>2, CreditBefore, ChargesAre, ChargesBecome
  <2> QED BY <1>1, <1>5, <1>t, <2>1, <2>3 DEF CreditInv
<1>7. CASE at # "verify-mergeback"
  <2>1. Owned /\ latest[s] = "running"
    BY <1>1, <1>2, <1>7 DEF OwnedInv, Owned
  <2>2. latest'[s] = "running" <=>
          heard = "succeeded" /\ at \in {"analyze", "code-review", "mergeback-attempt"}
    BY <1>1, <1>2, <1>3, <2>1, RecordedIs
  <2>3. CASE Merges
    <3>1. at = "mergeback-attempt" /\ phase = "save"
      BY <1>1, <1>7, <2>3, AboutIs
         DEF Merges, Past, Attempted, Finalized, HeardInv, Stages
    <3>2. heard = "succeeded"
      BY <1>1, <3>1 DEF OwnedInv, Stages
    <3>3. latest'[s] = "running" /\ s = "mergeback-attempt"
      BY <1>2, <2>2, <3>1, <3>2, AboutIs DEF Stages
    <3>4. Certain' <=> Certain
      BY <1>1, <1>5, <2>1, <3>3 DEF Certain
    <3>5. RunningAttempts' + Num(Reopened)' <= faults' + Num(Certain)'
      BY <1>1, <1>4, <1>5, <1>n, <1>t, <2>1, <2>3, <3>3, <3>4, CreditBefore, ChargesAre,
         ChargesBecome
    <3> QED BY <1>1, <1>5, <1>t, <2>3, <3>5 DEF CreditInv
  <2>4. CASE ~Merges
    <3>1. latest'[s] = "running" => Owned'
      <4>1. heard = "succeeded" => phase = "save"
        BY DEF HeardInv
      <4> QED BY <1>1, <2>2, <2>4, <4>1 DEF Owned, Merges, Past
    <3>3. RunningAttempts + Num(art.attempt # "none") + Num(Missed) <= faults + 1
      BY <1>t, <2>1, <2>4, CreditBefore, ChargesAre
    <3>4. RunningAttempts' <= RunningAttempts
            /\ (latest'[s] # "running" => RunningAttempts' = RunningAttempts - 1)
      BY <1>4, <1>n, <1>t, <2>1
    <3>5. Num(art.attempt # "none")' = Num(art.attempt # "none") /\ Num(Missed)' = Num(Missed)
      BY <1>5, ChargesAre, ChargesBecome
    <3>6. /\ Num(Owned)' \in {0, 1} /\ (Owned' => Num(Owned)' = 1)
          /\ Num(art.attempt # "none") \in {0, 1} /\ Num(Missed) \in {0, 1}
      BY ChargesAre, ChargesBecome
    <3>2. RunningAttempts' + Num(art.attempt # "none")' + Num(Missed)' <= faults' + Num(Owned)'
      BY <1>1, <1>n, <1>t, <3>1, <3>3, <3>4, <3>5, <3>6
    <3> QED BY <1>1, <1>5, <1>t, <2>4, <3>2 DEF CreditInv
  <2> QED BY <2>3, <2>4
<1> QED
  BY <1>6, <1>7

(* Every step keeps within the credit.                                     *)
LEMMA CreditStep ==
  LaneInv /\ HeardInv /\ WrittenInv /\ AttemptsInv /\ [JournalNext]_<<vars, journalVars>>
    => CreditInv'
<1> SUFFICES ASSUME LaneInv, HeardInv, WrittenInv, AttemptsInv,
                    [JournalNext]_<<vars, journalVars>>
             PROVE  CreditInv'
  OBVIOUS
<1>i. CreditInv /\ TargetInv /\ ImplementedInv /\ OwnedInv
  BY DEF AttemptsInv
<1>t. /\ art \in Artifacts /\ ProcessInv /\ faults \in Nat /\ stale \in Nat
      /\ latest \in [Stages -> Statuses]
  BY <1>i, LaneAssumption, CreditBefore DEF LaneInv, TypeInv, WrittenInv
<1>n. RunningAttempts \in Nat
  BY <1>t, RunningIsNat, AttemptsAre
<1>k. ASSUME latest' = latest, stale' = stale PROVE RunningAttempts' = RunningAttempts
  BY <1>k DEF RunningAttempts
<1>d. ~Certain \/ Merges
  BY DEF Certain
<1>b. ASSUME Begin \/ TurnedAway, UNCHANGED journalVars PROVE CreditInv'
  <2>1. latest' = latest /\ stale' = stale /\ RunningAttempts' = RunningAttempts
    BY <1>b, <1>k DEF journalVars
  <2>2. CASE StartLane \/ ResumeLane
    BY <1>i, <1>n, <2>1, <2>2, BeginsInCredit
  <2>3. CASE ResumeFails \/ SkipLane \/ TurnedAway
    <3>1. /\ at = "idle" /\ at' = "idle" /\ phase' = "run" /\ art' = art
          /\ faults' = faults
      BY <2>3 DEF ResumeFails, SkipLane, TurnedAway, Return
    <3>2. ~Merges
      BY <3>1 DEF Merges, Past, Attempted, Finalized
    <3> QED BY <1>i, <1>n, <1>t, <2>1, <3>1, <3>2, EndsInCredit
  <2> QED BY <1>b, <2>2, <2>3 DEF Begin
<1>1. CASE BeginWithJournal
  BY <1>1, <1>b DEF BeginWithJournal
<1>2. CASE SkipWithoutJournal
  BY <1>2, <1>b DEF SkipWithoutJournal, Begin
<1>3. CASE JournalUnreadable
  BY <1>3, <1>b DEF JournalUnreadable, TurnedAway, journalVars
<1>4. CASE StepStarted
  <2>1. /\ at \in Stages /\ phase = "run" /\ heard = "nothing" /\ heard' = "started"
        /\ latest' = [latest EXCEPT ![at] = "running"]
        /\ stale' = IF latest[at] = "running" THEN stale + 1 ELSE stale
        /\ UNCHANGED <<at, phase, art, faults>>
    BY <1>4 DEF StepStarted, vars, process
  <2>2. ~Owned /\ Owned' /\ at # "idle" /\ ~Merges /\ ~Merges'
    BY <2>1 DEF Owned, Stages, Merges, Past, Attempted, Finalized
  <2>3. (Missed' <=> Missed) /\ art'.attempt = art.attempt
    BY <2>1 DEF Missed, Past, SpecDone, PlanDone, TasksDone
  <2>4. /\ Running(latest) \in Nat /\ Running(latest') \in Nat
        /\ RunningAttempts = stale + Running(latest)
        /\ RunningAttempts' = stale' + Running(latest')
    BY RunningIsNat, AttemptsAre DEF RunningAttempts, Running
  <2>5. /\ latest'[at] = "running"
        /\ \A r \in Stages \ {at} : latest'[r] = latest[r]
    BY <1>t, <2>1
  <2>6. Running(latest') = IF latest[at] = "running" THEN Running(latest)
                                                     ELSE Running(latest) + 1
    BY <2>1, <2>5, RunningChanges
  <2>7. RunningAttempts' = RunningAttempts + 1 /\ stale' \in Nat
    BY <1>t, <2>1, <2>4, <2>6
  <2>9. RunningAttempts + Num(art.attempt # "none") + Num(Missed) <= faults
    BY <1>i, <1>t, <2>2, CreditBefore, ChargesAre
  <2>10. /\ Num(art.attempt # "none")' = Num(art.attempt # "none")
         /\ Num(Missed)' = Num(Missed) /\ Num(Owned)' = 1
         /\ Num(art.attempt # "none") \in {0, 1} /\ Num(Missed) \in {0, 1}
    BY <2>2, <2>3, ChargesAre, ChargesBecome
  <2>8. RunningAttempts' + Num(art.attempt # "none")' + Num(Missed)' <= faults' + Num(Owned)'
    BY <1>n, <1>t, <2>1, <2>7, <2>9, <2>10
  <2> QED BY <2>1, <2>2, <2>7, <2>8 DEF CreditInv
<1>5. CASE RunStep
  BY <1>5, <1>i, <1>k, <1>n, RunsInCredit DEF RunStep
<1>6. CASE StepCompleted
  BY <1>6, <1>i, WritesInCredit
<1>7. CASE AfterStep
  <2>1. /\ phase # "run" /\ heard = "nothing" /\ Step /\ heard' = heard
        /\ latest' = latest /\ stale' = stale /\ RunningAttempts' = RunningAttempts
    BY <1>7, <1>k DEF AfterStep, journalVars
  <2>2. UNCHANGED <<mem, art, git>>
    BY <2>1, <1>t, AfterMoves
  <2>3. CASE at' = "idle"
    <3>1. CASE faults' = faults + 1
      <4>1. phase' = "run"
        BY <2>1, <2>3, <1>t, AfterMoves, SaveMoves, AdvanceMoves
      <4> QED BY <1>i, <1>n, <1>t, <2>1, <2>2, <2>3, <3>1, <4>1, EndsInCredit
    <3>2. CASE faults' # faults + 1
      <4>1. /\ faults' = faults /\ phase' = "run"
            /\ phase = "fail" \/ (at = "verify-mergeback" /\ phase = "save")
        BY <2>1, <2>3, <3>2, <1>t, AfterMoves, SaveMoves, AdvanceMoves
           DEF Successors
      <4>2. phase = "fail" => ~Owned /\ ~Certain
        BY <2>1 DEF Owned, Certain
      <4>3. at = "verify-mergeback" /\ phase = "save" => ~Certain /\ Merges
        BY <2>1 DEF WrittenInv, Certain, Merges, Past, Attempted, Finalized
      <4> QED BY <1>i, <1>n, <1>t, <2>1, <2>2, <2>3, <4>1, <4>2, <4>3, EndsInCredit
    <3> QED BY <3>1, <3>2
  <2>4. CASE at' # "idle"
    <3>1. (Advance \/ Save) /\ faults' = faults /\ at # "verify-mergeback"
          /\ phase = "save" /\ at # "idle"
      BY <2>1, <2>4, <1>t, AfterMoves, SaveMoves, AdvanceMoves DEF Successors
    <3>2. (Merges' <=> Merges) /\ (Missed' => Missed) /\ (Owned => Owned')
      BY <2>1, <3>1, <1>t, NextIsOwned
    <3>3. (Reopened' <=> Reopened) /\ art'.attempt = art.attempt
      BY <2>2 DEF Reopened, StagesDone, SpecDone, PlanDone, TasksDone, AnalyzeDone,
                  FindingsDone, LoopIsDone
    <3>4. CASE Merges
      <4>1. phase' = "run" /\ <<at, at'>> \in Successors
        BY <3>1, <3>4, AdvanceMoves, SaveMoves DEF Merges, Past, Attempted, Finalized
      <4>2. Certain => Certain'
        BY <2>1, <2>2, <3>1, <3>2, <3>4, <4>1 DEF Certain, Successors
      <4>3. RunningAttempts' + Num(Reopened)' <= faults' + Num(Certain)'
        BY <1>i, <1>n, <1>t, <2>1, <3>1, <3>3, <3>4, <4>2, CreditBefore, ChargesAre,
           ChargesBecome
      <4> QED BY <1>t, <2>1, <3>2, <3>4, <4>3 DEF CreditInv
    <3>5. CASE ~Merges
      <4>1. RunningAttempts' + Num(art.attempt # "none")' + Num(Missed)'
              <= faults' + Num(Owned)'
        BY <1>i, <1>n, <1>t, <2>1, <3>1, <3>2, <3>3, <3>5, CreditBefore, ChargesAre,
           ChargesBecome
      <4> QED BY <1>t, <2>1, <2>4, <3>2, <3>5, <4>1 DEF CreditInv
    <3> QED BY <3>4, <3>5
  <2> QED BY <2>3, <2>4
<1>8. CASE CrashWithJournal
  <2>1. /\ at' = "idle" /\ phase' = "run" /\ art' = art /\ stale' = stale /\ latest' = latest
        /\ faults' = faults + 1
    BY <1>8 DEF CrashWithJournal, Crash, Return, Fault
  <2> QED BY <1>i, <1>k, <1>n, <1>t, <2>1, EndsInCredit
<1>9. CASE UNCHANGED <<vars, journalVars>>
  <2>1. UNCHANGED <<at, phase, art, mem, git, faults, latest, heard, stale>>
    BY <1>9 DEF vars, process, journalVars
  <2>2. /\ (Missed' <=> Missed) /\ (Merges' <=> Merges) /\ (Reopened' <=> Reopened)
        /\ (Owned' <=> Owned) /\ (Certain' <=> Certain)
    BY <2>1 DEF Missed, Merges, Owned, Certain, Reopened, Past, StagesDone, SpecDone,
                PlanDone, TasksDone, AnalyzeDone, FindingsDone, LoopIsDone
  <2>3. RunningAttempts' = RunningAttempts
    BY <2>1, <1>k
  <2>4. at = "idle" \/ Merges =>
          RunningAttempts' + Num(Reopened)' <= faults' + Num(Certain)'
    BY <1>i, <1>n, <1>t, <2>1, <2>2, <2>3, CreditBefore, ChargesAre, ChargesBecome
  <2>5. ~(at = "idle" \/ Merges) =>
          RunningAttempts' + Num(art.attempt # "none")' + Num(Missed)' <= faults' + Num(Owned)'
    BY <1>i, <1>n, <1>t, <2>1, <2>2, <2>3, CreditBefore, ChargesAre, ChargesBecome
  <2> QED BY <1>t, <2>1, <2>2, <2>4, <2>5 DEF CreditInv
<1> QED
  BY <1>1, <1>2, <1>3, <1>4, <1>5, <1>6, <1>7, <1>8, <1>9 DEF JournalNext

(* The invariants about attempts hold of an empty journal.                 *)
LEMMA AttemptsInitial == JournalInit => AttemptsInv
<1> SUFFICES ASSUME JournalInit PROVE AttemptsInv
  OBVIOUS
<1>1. /\ Init /\ latest = [s \in Stages |-> "none"] /\ stale = 0 /\ heard = "nothing"
      /\ at = "idle" /\ phase = "run" /\ faults = 0
      /\ git.head = "spec" /\ mem.branch = "" /\ disk.branch = ""
  BY DEF JournalInit, Init, Blank
<1>2. art.attempt = "none"
  <2>1. PICK d \in {"none", "concrete"}, t \in {"none", "open", "checked"} :
          art = [spec |-> d, plan |-> d, tasks |-> t, touched |-> FALSE, analyze |-> "none",
                 review |-> "none", issues |-> FALSE, attempt |-> "none", final |-> FALSE]
    BY <1>1 DEF Init
  <2> QED BY <2>1
<1>3. TargetInv
  BY <1>1 DEF TargetInv
<1>4. ImplementedInv
  BY <1>1 DEF ImplementedInv, Past, Looping, Looped, Merging, Attempted, Finalized
<1>5. OwnedInv
  BY <1>1 DEF OwnedInv, Owned
<1>6. RunningAttempts = 0
  <2>1. {s \in Stages : latest[s] = "running"} = {}
    BY <1>1
  <2>2. Running(latest) = 0
    BY <2>1, FS_EmptySet DEF Running
  <2>3. stale = 0
    BY <1>1
  <2> QED BY <2>2, <2>3, AttemptsAre
<1>7. ~Reopened /\ ~Certain
  BY <1>1, <1>2 DEF Reopened, Certain, Merges, Past, Attempted, Finalized
<1>8. RunningAttempts + Num(Reopened) <= faults + Num(Certain)
  <2>1. Num(Reopened) = 0 /\ Num(Certain) = 0 /\ faults = 0
    BY <1>1, <1>7, ChargesAre
  <2> QED BY <1>6, <2>1
<1>9. CreditInv
  BY <1>1, <1>8 DEF CreditInv
<1> QED
  BY <1>3, <1>4, <1>5, <1>9 DEF AttemptsInv

(* And every step keeps them.                                              *)
LEMMA AttemptsStep ==
  LaneInv /\ HeardInv /\ WrittenInv /\ AttemptsInv /\ [JournalNext]_<<vars, journalVars>>
    => AttemptsInv'
<1> SUFFICES ASSUME LaneInv, HeardInv, WrittenInv, AttemptsInv,
                    [JournalNext]_<<vars, journalVars>>
             PROVE  AttemptsInv'
  OBVIOUS
<1>1. [LaneNext]_vars /\ ProcessInv /\ art \in Artifacts
  BY JournalledStep DEF LaneInv, TypeInv
<1>2. TargetInv' /\ ImplementedInv'
  BY <1>1, TargetStep, ImplementedStep DEF AttemptsInv
<1>3. OwnedInv'
  BY OwnedStep DEF AttemptsInv
<1>4. CreditInv'
  BY CreditStep
<1> QED
  BY <1>2, <1>3, <1>4 DEF AttemptsInv

(* Every attempt is ended by the journal, but one for each fault, and the  *)
(* one that a process is about (speckit_journal.go:77-123).                *)
THEOREM AttemptsSafe == JournalSpec => []AttemptsEnd
<1>1. LaneInv /\ WrittenInv /\ CreditInv => AttemptsEnd
  <2> SUFFICES ASSUME LaneInv, WrittenInv, CreditInv PROVE AttemptsEnd
    OBVIOUS
  <2>1. RunningAttempts \in Nat /\ faults \in Nat
    BY CreditBefore, RunningIsNat, AttemptsAre, LaneAssumption DEF LaneInv, TypeInv
  <2>2. /\ Num(Owned) \in {0, 1} /\ Num(Certain) \in {0, 1} /\ Num(Missed) \in {0, 1}
        /\ Num(Reopened) \in {0, 1} /\ Num(art.attempt # "none") \in {0, 1}
    BY ChargesAre
  <2>3. at = "idle" => Num(Certain) = 0
    BY ChargesAre DEF Certain, Merges, Past, Attempted, Finalized
  <2>4. at = "idle" => RunningAttempts <= faults
    BY <2>1, <2>2, <2>3, CreditBefore
  <2>5. RunningAttempts <= faults + 1
    <3>1. CASE at = "idle" \/ Merges
      BY <2>1, <2>2, <3>1, CreditBefore
    <3>2. CASE ~(at = "idle" \/ Merges)
      BY <2>1, <2>2, <3>2, CreditBefore
    <3> QED BY <3>1, <3>2
  <2>6. CASE at = "idle"
    BY <2>1, <2>4, <2>6 DEF AttemptsEnd
  <2>7. CASE at # "idle"
    BY <2>1, <2>5, <2>7 DEF AttemptsEnd
  <2> QED BY <2>6, <2>7
<1>2. JournalSpec => [](LaneInv /\ HeardInv /\ WrittenInv /\ AttemptsInv)
  BY JournalInitial, JournalStep, AttemptsInitial, AttemptsStep, LaneInvariant, PTL
     DEF JournalSpec
<1> QED
  BY <1>1, <1>2, PTL DEF AttemptsInv
=============================================================================
