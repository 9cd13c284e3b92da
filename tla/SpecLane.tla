------------------------------ MODULE SpecLane ------------------------------
(***************************************************************************)
(* The Spec Kit lane of one spec: WorktreeExecutor asks the artifacts of   *)
(* the run how far the lane is (assessSpecKitLaneState), and runs the      *)
(* steps of spec-lane.yaml from there on (ResumeSpecKitLane).              *)
(*                                                                         *)
(* Two records survive a process: the artifacts, which decide where a lane *)
(* is resumed, and state.json, which holds the variables that the resumed  *)
(* steps render.  Agents, git and the worktree are external: an agent may  *)
(* fail, fail and leave its files behind, or succeed with files that the   *)
(* assessment does not accept.  The module is about a lane in a git        *)
(* worktree with an increment branch (Mergeback has the git commands of    *)
(* its last steps).                                                        *)
(***************************************************************************)
EXTENDS Naturals, Sequences

CONSTANTS
  Inherited,   \* whether the branch may start with an earlier spec's documents
  FeatureJson, \* specify records the feature directory in .specify/feature.json
  Kinds,       \* the faults that a behaviour may meet
  MaxFaults    \* bound on their number

ASSUME LaneAssumption ==
  /\ Inherited \subseteq BOOLEAN
  /\ FeatureJson \in BOOLEAN
  /\ Kinds \subseteq {"crash", "agent", "leftover", "vague", "partial", "blocking",
                      "critical", "conflict", "setup", "git"}
  /\ MaxFaults \in Nat

(* The top-level steps of the lane.                                        *)
Lane == << "specify", "capture-feature-directory", "ensure-speckit-branch",
           "set-phase-input", "set-plan-input", "set-analyze-input",
           "capture-workflow-branch", "review-spec", "plan", "review-plan",
           "set-tasks-input", "tasks", "analyze", "analyze-clean",
           "tasks-remediation", "set-implement-input", "implement-review-loop",
           "issues-from-review", "commit-before-mergeback",
           "capture-mergeback-branch", "mergeback-attempt", "resolve-mergeback",
           "mergeback-finalize", "verify-mergeback" >>

(* The steps inside the loop, and how often it may run.                    *)
Loop == << "implement", "code-review", "review-clean",
           "set-remediation-implement-input" >>

MaxIterations == 3

Positions == DOMAIN Lane

(* The variables that set_var steps bind, and those that steps render.     *)
Binds ==
  { <<"capture-feature-directory", "feature_directory">>,
    <<"set-phase-input", "phase_input">>, <<"set-plan-input", "plan_input">>,
    <<"set-analyze-input", "analyze_input">>, <<"set-tasks-input", "tasks_input">>,
    <<"set-implement-input", "implement_input">> }

Renders ==
  { <<"plan", "plan_input">>, <<"analyze", "analyze_input">>,
    <<"tasks", "tasks_input">>, <<"tasks-remediation", "analyze">>,
    <<"set-implement-input", "phase_input">>, <<"implement", "implement_input">>,
    <<"issues-from-review", "code-review">>,
    <<"mergeback-attempt", "current_branch">>,
    <<"mergeback-finalize", "current_branch">> }
  \cup ({"plan", "tasks", "analyze", "tasks-remediation", "implement", "code-review",
         "commit-before-mergeback"} \X {"feature_directory"})

VARIABLES
  at,      \* the step the process runs, "idle" without a process
  phase,   \* "run", "save" after it succeeded, "fail" after it failed
  iter,    \* iteration of the loop
  tries,   \* attempts left
  failed,  \* some attempt in this process has failed (result.Steps)
  exit,    \* what the last process returned
  mem,     \* result.Vars and result.StepOutputs of the process
  disk,    \* state.json
  art,     \* the artifacts: documents of the worktree, parsed.json of steps
  git,     \* what the worktree has checked out, and its branches
  faults,  \* faults so far
  fresh,   \* history: the code has not changed since its last review
  merged,  \* history: the target branch has what the worktree had last
  fixes,   \* history: remediations of tasks.md since the last analysis
  unfinished \* history: a review once found nothing critical with a task
             \* unchecked, or the loop was once over and not done

process == <<at, phase, iter, tries, failed, exit>>
history == <<fresh, merged, fixes, unfinished>>
vars == <<process, mem, disk, art, git, faults, history>>

(* Faults are counted, to bound them.                                      *)
Fault(k) == k \in Kinds /\ faults < MaxFaults /\ faults' = faults + 1

NoFault == UNCHANGED faults

-----------------------------------------------------------------------------
(* Assessment: what is still open, in the order the code asks.             *)

(* Mutant: the tasks are not looked at before the analysis.                *)
Open_NoTasks(a) ==
  << <<"specify", a.spec # "concrete">>,
     <<"plan", a.plan # "concrete">>,
     <<"analyze", a.analyze = "none">>,
     <<"tasks-remediation", a.analyze = "blocking" /\ ~a.touched>>,
     <<"implement-review-loop", a.tasks # "checked" \/ a.review # "clean">>,
     <<"issues-from-review", ~a.issues>>,
     <<"resolve-mergeback", ~a.final /\ a.attempt = "conflict">>,
     <<"mergeback-finalize", ~a.final /\ a.attempt = "rebased">>,
     <<"commit-before-mergeback", ~a.final>> >>

(* Mutant: any review will do.                                             *)
Open_AnyReview(a) ==
  << <<"specify", a.spec # "concrete">>,
     <<"plan", a.plan # "concrete">>,
     <<"tasks", a.tasks \notin {"open", "checked"}>>,
     <<"analyze", a.analyze = "none">>,
     <<"tasks-remediation", a.analyze = "blocking" /\ ~a.touched>>,
     <<"implement-review-loop", a.tasks # "checked" \/ a.review = "none">>,
     <<"issues-from-review", ~a.issues>>,
     <<"resolve-mergeback", ~a.final /\ a.attempt = "conflict">>,
     <<"mergeback-finalize", ~a.final /\ a.attempt = "rebased">>,
     <<"commit-before-mergeback", ~a.final>> >>

(* Mutant: tasks.md written after the analysis does not count.             *)
Open_Unremediated(a) ==
  << <<"specify", a.spec # "concrete">>,
     <<"plan", a.plan # "concrete">>,
     <<"tasks", a.tasks \notin {"open", "checked"}>>,
     <<"analyze", a.analyze = "none">>,
     <<"tasks-remediation", a.analyze = "blocking">>,
     <<"implement-review-loop", a.tasks # "checked" \/ a.review # "clean">>,
     <<"issues-from-review", ~a.issues>>,
     <<"resolve-mergeback", ~a.final /\ a.attempt = "conflict">>,
     <<"mergeback-finalize", ~a.final /\ a.attempt = "rebased">>,
     <<"commit-before-mergeback", ~a.final>> >>

Open(a) ==
  << <<"specify", a.spec # "concrete">>,
     <<"plan", a.plan # "concrete">>,
     <<"tasks", a.tasks \notin {"open", "checked"}>>,
     <<"analyze", a.analyze = "none">>,
     <<"tasks-remediation", a.analyze = "blocking" /\ ~a.touched>>,
     <<"implement-review-loop", a.tasks # "checked" \/ a.review # "clean">>,
     <<"issues-from-review", ~a.issues>>,
     <<"resolve-mergeback", ~a.final /\ a.attempt = "conflict">>,
     <<"mergeback-finalize", ~a.final /\ a.attempt = "rebased">>,
     <<"commit-before-mergeback", ~a.final>> >>

Completed == \A i \in DOMAIN Open(art) : ~Open(art)[i][2]

(* The first open entry names the step to resume at.                       *)
ResumesAt(s) ==
  \E i \in DOMAIN Open(art) :
    /\ Open(art)[i] = <<s, TRUE>>
    /\ \A j \in 1 .. i - 1 : ~Open(art)[j][2]

-----------------------------------------------------------------------------
(* Processes.                                                              *)

Blank == [exists |-> TRUE, bound |-> {}, analyze |-> "none", branch |-> ""]

Retries(s) == IF s \in {"specify", "plan", "tasks"} THEN 1 ELSE 0

Enter(s) ==
  /\ at' = IF s = "implement-review-loop" THEN Loop[1] ELSE s
  /\ phase' = "run" /\ iter' = 1 /\ tries' = Retries(s)

Return(e) == at' = "idle" /\ phase' = "run" /\ exit' = e /\ UNCHANGED <<iter, tries>>

(* The first step is executed with a new state.json.                       *)
StartLane ==
  /\ at = "idle" /\ ResumesAt("specify")
  /\ Enter("specify") /\ failed' = FALSE /\ exit' = "none"
  /\ mem' = Blank /\ disk' = Blank
  /\ UNCHANGED <<art, git, faults, history>>

(* Mutant: the saved variables are not loaded.                             *)
ResumeLane_Forgets ==
  /\ at = "idle" /\ ~Completed /\ ~ResumesAt("specify")
  /\ \E i \in Positions : ResumesAt(Lane[i]) /\ Enter(Lane[i])
  /\ disk.exists /\ mem' = Blank /\ failed' = FALSE /\ exit' = "none"
  /\ UNCHANGED <<disk, art, git, faults, history>>

(* Any other is resumed from the one that is there.                        *)
ResumeLane ==
  /\ at = "idle" /\ ~Completed /\ ~ResumesAt("specify")
  /\ \E i \in Positions : ResumesAt(Lane[i]) /\ Enter(Lane[i])
  /\ disk.exists /\ mem' = disk /\ failed' = FALSE /\ exit' = "none"
  /\ UNCHANGED <<disk, art, git, faults, history>>

ResumeFails ==
  /\ at = "idle" /\ ~Completed /\ ~ResumesAt("specify")
  /\ ~disk.exists /\ Return("fail")
  /\ UNCHANGED <<failed, mem, disk, art, git, faults, history>>

(* Status says that there is nothing left to do.                           *)
SkipLane ==
  /\ at = "idle" /\ Completed /\ Return("skipped")
  /\ UNCHANGED <<failed, mem, disk, art, git, faults, history>>

Runs(s) == at = s /\ phase = "run"

Succeeds == phase' = "save" /\ UNCHANGED <<at, iter, tries, failed, exit>>

(* The failure is recorded, and with on_error: continue forgotten.         *)
Tolerated == phase' = "save" /\ failed' = TRUE /\ UNCHANGED <<at, iter, tries, exit>>

Fails ==
  /\ failed' = TRUE
  /\ IF tries > 0 THEN tries' = tries - 1 /\ UNCHANGED phase
                  ELSE phase' = "fail" /\ UNCHANGED tries
  /\ UNCHANGED <<at, iter, exit>>

-----------------------------------------------------------------------------
(* Steps that an agent carries out.                                        *)

(* An agent may fail; its files are not found in a directory of the name   *)
(* {{ vars.feature_directory }}, unless feature.json has the right one.    *)
AgentFails ==
  /\ Fails
  /\ \/ Fault("agent")
     \/ /\ at # "specify" /\ ~FeatureJson /\ "feature_directory" \notin mem.bound
        /\ NoFault

Writes(f, p) ==
  art' = [art EXCEPT ![f] = p, !.touched = art.touched \/ f = "tasks"]

(* A command that makes a document: it fails, with or without leaving one, *)
(* or its checks pass on one that the assessment may still not accept      *)
(* (looksTemplated, or too short).                                         *)
Generate(s, f, good) ==
  /\ Runs(s)
  /\ \/ Writes(f, good) /\ Succeeds /\ NoFault
     \/ Writes(f, "poor") /\ Succeeds /\ Fault("vague")
     \/ UNCHANGED art /\ AgentFails
     \/ (\E p \in {good, "poor"} : Writes(f, p)) /\ Fails /\ Fault("leftover")
  /\ merged' = (merged /\ art' = art)
  /\ fixes' = IF s = "tasks" THEN 0 ELSE fixes
  /\ UNCHANGED <<mem, disk, git, fresh, unfinished>>

Specify == Generate("specify", "spec", "concrete")
Plan    == Generate("plan", "plan", "concrete")
Tasks   == Generate("tasks", "tasks", "open")

(* parsed.json is written also when the agent exits with an error.         *)
Analyze ==
  /\ Runs("analyze")
  /\ \/ \E v \in {"clean", "blocking"} :
          /\ art' = [art EXCEPT !.analyze = v, !.touched = FALSE]
          /\ mem' = [mem EXCEPT !.analyze = v, !.bound = mem.bound \cup {"analyze"}]
          /\ fixes' = 0
          /\ \/ Succeeds /\ IF v = "blocking" THEN Fault("blocking") ELSE NoFault
             \/ Fails /\ Fault("leftover")
     \/ AgentFails /\ UNCHANGED <<art, mem, fixes>>
  /\ UNCHANGED <<disk, git, fresh, merged, unfinished>>

AnalyzeClean ==
  /\ Runs("analyze-clean")
  /\ IF art.analyze = "clean" THEN Succeeds ELSE Tolerated
  /\ UNCHANGED <<mem, disk, art, git, faults, history>>

(* `when' is the number of findings, or the expression itself if there is  *)
(* nothing to replace it by, which counts as true.                         *)
Remediate ==
  /\ Runs("tasks-remediation")
  /\ IF mem.analyze = "clean"
     THEN Succeeds /\ NoFault /\ UNCHANGED <<art, fixes, merged>>
     ELSE \/ /\ Writes("tasks", "open") /\ fixes' = fixes + 1 /\ merged' = FALSE
             /\ \/ Succeeds /\ NoFault
                \/ Fails /\ Fault("leftover")
          \/ /\ UNCHANGED <<art, fixes, merged>>
             /\ \/ Succeeds /\ Fault("vague")
                \/ AgentFails
  /\ UNCHANGED <<mem, disk, git, fresh, unfinished>>

(* implement: some task must be checked, not every one.                    *)
Implement ==
  /\ Runs("implement")
  /\ \/ /\ Writes("tasks", IF art.tasks = "open" THEN "checked" ELSE art.tasks)
        /\ fresh' = FALSE /\ merged' = FALSE
        /\ \/ Succeeds /\ NoFault
           \/ Fails /\ Fault("leftover")
     \/ /\ Writes("tasks", art.tasks) /\ Succeeds /\ Fault("partial")
        /\ fresh' = FALSE /\ merged' = FALSE
     \/ UNCHANGED <<art, fresh, merged>> /\ AgentFails
  /\ UNCHANGED <<mem, disk, git, fixes, unfinished>>

CodeReview ==
  /\ Runs("code-review")
  /\ \/ \E v \in {"clean", "critical"} :
          /\ art' = [art EXCEPT !.review = v] /\ fresh' = TRUE
          /\ mem' = [mem EXCEPT !.bound = mem.bound \cup {"code-review"}]
          /\ unfinished' = (unfinished \/ (v = "clean" /\ art.tasks # "checked"))
          /\ Succeeds /\ IF v = "critical" THEN Fault("critical") ELSE NoFault
     \/ Fails /\ Fault("agent") /\ UNCHANGED <<art, mem, fresh, unfinished>>
  /\ UNCHANGED <<disk, git, merged, fixes>>

ReviewClean ==
  /\ Runs("review-clean")
  /\ IF art.review = "clean" THEN Succeeds ELSE Tolerated
  /\ UNCHANGED <<mem, disk, art, git, faults, history>>

-----------------------------------------------------------------------------
(* Steps that the engine carries out.                                      *)

Bind(vs) == [mem EXCEPT !.bound = mem.bound \cup vs]

(* set_var binds a variable; gates, the commit and verify-mergeback change *)
(* nothing that the lane looks at.                                         *)
Plainly(s) ==
  /\ Runs(s)
  /\ \/ Succeeds /\ mem' = Bind({b[2] : b \in {c \in Binds : c[1] = s}}) /\ NoFault
     \/ s = "commit-before-mergeback" /\ Fails /\ Fault("git") /\ UNCHANGED mem
  /\ UNCHANGED <<disk, art, git, history>>

(* Mutant: the empty list of issues is not recorded.                       *)
Issues_Unrecorded ==
  /\ Runs("issues-from-review")
  /\ IF "code-review" \in mem.bound THEN Succeeds ELSE Fails
  /\ UNCHANGED <<mem, disk, art, git, faults, history>>

(* The findings are taken from result.StepOutputs.                         *)
Issues ==
  /\ Runs("issues-from-review")
  /\ IF "code-review" \in mem.bound
     THEN Succeeds /\ art' = [art EXCEPT !.issues = TRUE]
     ELSE Fails /\ UNCHANGED art
  /\ UNCHANGED <<mem, disk, git, faults, history>>

(* The branch is made, or checked out as a previous process left it.       *)
EnsureBranch ==
  /\ Runs("ensure-speckit-branch")
  /\ \/ /\ git.head # "rebasing" /\ Succeeds /\ NoFault
        /\ git' = [git EXCEPT !.head = "feature", !.branches = git.branches \cup {"feature"}]
     \/ git.head = "rebasing" /\ Fails /\ NoFault /\ UNCHANGED git
     \/ Fails /\ Fault("setup") /\ UNCHANGED git
  /\ UNCHANGED <<mem, disk, art, history>>

(* git branch --show-current is empty without a branch.                    *)
CaptureBranch(s) ==
  /\ Runs(s) /\ Succeeds
  /\ mem' = [Bind({"current_branch"}) EXCEPT
               !.branch = IF git.head \in {"detached", "rebasing"} THEN "" ELSE git.head]
  /\ UNCHANGED <<disk, art, git, faults, history>>

Conflict == git' = [git EXCEPT !.head = "rebasing", !.rebase = mem.branch]

(* A conflict is a result, not a failure.                                  *)
MergebackAttempt ==
  /\ Runs("mergeback-attempt")
  /\ IF mem.branch \notin git.branches \cup {"target"} \/ git.head = "rebasing"
     THEN Fails /\ NoFault /\ UNCHANGED <<art, git>>
     ELSE \/ /\ git' = [git EXCEPT !.head = mem.branch] /\ Succeeds /\ NoFault
             /\ art' = [art EXCEPT !.attempt = "rebased"]
          \/ /\ mem.branch # "target" /\ Conflict /\ Succeeds /\ Fault("conflict")
             /\ art' = [art EXCEPT !.attempt = "conflict"]
          \/ Fails /\ Fault("git") /\ UNCHANGED <<art, git>>
  /\ UNCHANGED <<mem, disk, history>>

ResolveMergeback ==
  /\ Runs("resolve-mergeback")
  /\ \/ /\ Succeeds /\ NoFault
        /\ git' = [git EXCEPT !.head = IF git.head = "rebasing" THEN git.rebase ELSE git.head]
     \/ Succeeds /\ Fault("vague") /\ UNCHANGED git
     \/ Fails /\ Fault("agent") /\ UNCHANGED git
  /\ UNCHANGED <<mem, disk, art, history>>

(* Mutant: the source branch is deleted before the merge is committed.     *)
FinalizePart_DeleteFirst(n) ==
  /\ git' = [git EXCEPT
               !.head = IF n < 4 THEN "target" ELSE "detached",
               !.branches = IF n < 2 THEN git.branches ELSE git.branches \ {mem.branch}]
  /\ merged' = (merged \/ n > 2)

(* The target is checked out (1), has the squash commit (2), the source is *)
(* deleted (3), and the target is released (4).                            *)
FinalizePart(n) ==
  /\ git' = [git EXCEPT
               !.head = IF n < 4 THEN "target" ELSE "detached",
               !.branches = IF n < 3 THEN git.branches ELSE git.branches \ {mem.branch}]
  /\ merged' = (merged \/ n > 1)

(* Mutant: a source that is gone is an error.                              *)
Finalize_NeedsSource ==
  /\ Runs("mergeback-finalize")
  /\ \/ /\ mem.branch \notin git.branches \/ git.head = "rebasing"
        /\ Fails /\ NoFault /\ UNCHANGED <<art, git, merged>>
     \/ /\ git.head # "rebasing" /\ mem.branch \in git.branches
        /\ \/ FinalizePart(4) /\ Succeeds /\ NoFault /\ art' = [art EXCEPT !.final = TRUE]
           \/ (\E n \in 1 .. 4 : FinalizePart(n)) /\ Fails /\ Fault("git") /\ UNCHANGED art
  /\ UNCHANGED <<mem, disk, fresh, fixes, unfinished>>

(* A source branch that is gone has been merged; the target cannot be      *)
(* deleted while it is checked out.                                        *)
Finalize ==
  /\ Runs("mergeback-finalize")
  /\ \/ /\ mem.branch = "" \/ git.head = "rebasing"
        /\ Fails /\ NoFault /\ UNCHANGED <<art, git, merged>>
     \/ /\ git.head # "rebasing" /\ mem.branch = "target"
        /\ git' = [git EXCEPT !.head = "target"]
        /\ Fails /\ NoFault /\ UNCHANGED <<art, merged>>
     \/ /\ git.head # "rebasing" /\ mem.branch \notin git.branches \cup {"", "target"}
        /\ git' = [git EXCEPT !.head = IF git.head = "target" THEN "detached" ELSE git.head]
        /\ Succeeds /\ NoFault /\ art' = [art EXCEPT !.final = TRUE] /\ UNCHANGED merged
     \/ /\ git.head # "rebasing" /\ mem.branch \in git.branches
        /\ \/ FinalizePart(4) /\ Succeeds /\ NoFault /\ art' = [art EXCEPT !.final = TRUE]
           \/ (\E n \in 1 .. 4 : FinalizePart(n)) /\ Fails /\ Fault("git") /\ UNCHANGED art
  /\ UNCHANGED <<mem, disk, fresh, fixes, unfinished>>

-----------------------------------------------------------------------------
(* After a step.                                                           *)

(* Mutant: exhausting the loop is not noticed.                             *)
Advance_Endless ==
  /\ phase = "save"
  /\ \E i \in DOMAIN Loop :
       /\ at = Loop[i]
       /\ \/ i < Len(Loop) /\ at' = Loop[i + 1] /\ phase' = "run" /\ UNCHANGED iter
          \/ /\ i = Len(Loop) /\ art.review = "clean"
             /\ at' = "implement-review-loop" /\ UNCHANGED <<iter, phase>>
          \/ /\ i = Len(Loop) /\ art.review # "clean"
             /\ at' = Loop[1] /\ phase' = "run" /\ iter' = iter + 1
  /\ UNCHANGED <<tries, failed, exit, mem, disk, art, git, faults, history>>

LoopIsDone == art.tasks = "checked" /\ art.review = "clean"

(* In the loop nothing is saved.  An exhausted loop is over too (on_error: *)
(* continue).                                                              *)
Advance ==
  /\ phase = "save"
  /\ \E i \in DOMAIN Loop :
       /\ at = Loop[i]
       /\ \/ i < Len(Loop) /\ at' = Loop[i + 1] /\ phase' = "run" /\ UNCHANGED iter
          \/ /\ i = Len(Loop) /\ (art.review = "clean" \/ iter = MaxIterations)
             /\ at' = "implement-review-loop" /\ UNCHANGED <<iter, phase>>
          \/ /\ i = Len(Loop) /\ art.review # "clean" /\ iter < MaxIterations
             /\ at' = Loop[1] /\ phase' = "run" /\ iter' = iter + 1
  /\ unfinished' = (unfinished \/ (at' = "implement-review-loop" /\ ~LoopIsDone))
  /\ UNCHANGED <<tries, failed, exit, mem, disk, art, git, faults, fresh, merged, fixes>>

(* state.json is saved; a process in which any attempt has failed reports  *)
(* a failure at the end.                                                   *)
Save ==
  /\ phase = "save" /\ disk' = mem
  /\ \E i \in Positions :
       /\ at = Lane[i]
       /\ IF i < Len(Lane) THEN Enter(Lane[i + 1]) /\ UNCHANGED exit
                           ELSE Return(IF failed THEN "fail" ELSE "ok")
  /\ UNCHANGED <<failed, mem, art, git, faults, history>>

(* What an agent changed is committed after that.                          *)
CommitFails ==
  /\ phase = "save" /\ disk' = mem
  /\ at \in {"specify", "plan", "tasks", "analyze", "tasks-remediation", "resolve-mergeback"}
  /\ Fault("setup") /\ Return("fail")
  /\ UNCHANGED <<failed, mem, art, git, history>>

(* A failed step ends the process, in the loop too.                        *)
SaveFailed ==
  /\ phase = "fail" /\ disk' = mem /\ Return("fail")
  /\ UNCHANGED <<failed, mem, art, git, faults, history>>

(* The process dies, also in the middle of the git commands of a step.     *)
Crash ==
  /\ at # "idle" /\ Fault("crash") /\ Return("crash")
  /\ \/ UNCHANGED <<git, merged>>
     \/ /\ Runs("mergeback-attempt") /\ mem.branch \in git.branches
        /\ Conflict /\ UNCHANGED merged
     \/ /\ Runs("mergeback-finalize") /\ mem.branch \in git.branches /\ git.head # "rebasing"
        /\ \E n \in 1 .. 4 : FinalizePart(n)
  /\ UNCHANGED <<failed, mem, disk, art, fresh, fixes, unfinished>>

-----------------------------------------------------------------------------
Init ==
  /\ at = "idle" /\ phase = "run" /\ iter = 1 /\ tries = 0
  /\ failed = FALSE /\ exit = "none"
  /\ mem = Blank /\ disk = [Blank EXCEPT !.exists = FALSE]
  /\ \E d \in {"none", "concrete"}, t \in {"none", "open", "checked"} :
       /\ (d = "concrete") \in Inherited
       /\ (d = "concrete") <=> (t # "none")
       /\ art = [spec |-> d, plan |-> d, tasks |-> t, touched |-> FALSE, analyze |-> "none",
                 review |-> "none", issues |-> FALSE, attempt |-> "none", final |-> FALSE]
  /\ git = [head |-> "spec", branches |-> {"spec"}, rebase |-> ""]
  /\ faults = 0 /\ fresh = FALSE /\ merged = FALSE /\ fixes = 0
  /\ unfinished = FALSE

Plain == {"capture-feature-directory", "set-phase-input", "set-plan-input",
          "set-analyze-input", "review-spec", "review-plan", "set-tasks-input",
          "set-implement-input", "set-remediation-implement-input",
          "commit-before-mergeback", "verify-mergeback"}

Step ==
  \/ Specify \/ Plan \/ Tasks \/ Analyze \/ AnalyzeClean \/ Remediate
  \/ Implement \/ CodeReview \/ ReviewClean \/ Issues \/ EnsureBranch
  \/ \E s \in Plain : Plainly(s)
  \/ \E s \in {"capture-workflow-branch", "capture-mergeback-branch"} : CaptureBranch(s)
  \/ MergebackAttempt \/ ResolveMergeback \/ Finalize
  \/ Advance \/ Save \/ CommitFails \/ SaveFailed

Begin == StartLane \/ ResumeLane \/ ResumeFails \/ SkipLane

Next == Begin \/ Step \/ Crash

Spec == Init /\ [][Next]_vars

(* A process takes its next step, and the operator asks for the run again. *)
FairSpec == Spec /\ WF_vars(Step) /\ WF_vars(Begin)

-----------------------------------------------------------------------------
(* Properties.                                                             *)

Variables == {b[2] : b \in Binds} \cup {"analyze", "code-review", "current_branch"}

Records == [exists : BOOLEAN, bound : SUBSET Variables,
            analyze : {"none", "clean", "blocking"},
            branch : {"", "spec", "feature", "target"}]

Artifacts == [spec : {"none", "poor", "concrete"}, plan : {"none", "poor", "concrete"},
              tasks : {"none", "poor", "open", "checked"}, touched : BOOLEAN,
              analyze : {"none", "clean", "blocking"}, review : {"none", "clean", "critical"},
              issues : BOOLEAN, attempt : {"none", "conflict", "rebased"}, final : BOOLEAN]

Worktrees == [head : {"spec", "feature", "target", "detached", "rebasing"},
              branches : SUBSET {"spec", "feature"}, rebase : {"", "spec", "feature"}]

(* Every variable has its type; the loop runs at most max_iterations times. *)
TypeOK ==
  /\ at \in {"idle"} \cup {Lane[i] : i \in Positions} \cup {Loop[i] : i \in DOMAIN Loop}
  /\ phase \in {"run", "save", "fail"} /\ iter \in 1 .. MaxIterations /\ tries \in 0 .. 1
  /\ failed \in BOOLEAN /\ exit \in {"none", "ok", "fail", "crash", "skipped"}
  /\ mem \in Records /\ disk \in Records /\ art \in Artifacts /\ git \in Worktrees
  /\ faults \in 0 .. MaxFaults
  /\ fresh \in BOOLEAN /\ merged \in BOOLEAN /\ fixes \in Nat /\ unfinished \in BOOLEAN

(* Wherever a lane is resumed, and whatever has failed before, a step runs *)
(* only when the stages before its own have left their artifacts.          *)
PrerequisitesExist ==
  phase = "run" =>
    /\ at = "plan" => art.spec # "none"
    /\ at = "tasks" => art.plan # "none"
    /\ at \in {"analyze", "tasks-remediation", "implement"} => art.tasks # "none"
    /\ at \in {"tasks-remediation", "implement"} => art.analyze # "none"
    /\ at \in {"issues-from-review", "mergeback-attempt", "mergeback-finalize"} =>
         art.review # "none"
    /\ at \in {"mergeback-attempt", "mergeback-finalize"} => art.issues
    /\ at = "mergeback-finalize" => art.attempt # "none"

(* tasks.md is remediated at most once for one analysis: a remediation     *)
(* that was interrupted after it wrote the file is not repeated.           *)
RemediatedOnce == fixes <= 1

(* A lane counts as completed only when the increment branch has all that  *)
(* the worktree had, whatever crashed in the middle of the merge, unless   *)
(* it once merged unfinished work: the record of that merge is never       *)
(* withdrawn, and stands for whatever is done later.                       *)
CompletedIsMerged == (at = "idle" /\ Completed /\ ~unfinished) => merged

(* The code that is merged is the code of the last review, resolutions of  *)
(* rebase conflicts aside, unless a review once passed work that was not   *)
(* finished: its verdict stays, whatever is implemented later.             *)
ReviewIsCurrent == (Runs("mergeback-finalize") /\ ~unfinished) => fresh

(* A process that reports success has completed the lane, unless it went   *)
(* on with unfinished work.                                                *)
OkMeansCompleted == (exit = "ok" /\ ~unfinished) => Completed

(* While the run is resumed, its lane is completed and stays so, unless it *)
(* merged unfinished work and has deleted the branch it would go on with.  *)
LaneCompletes == <>[](at = "idle" /\ Completed) \/ <>unfinished

(* A step never runs on an input that still has the name of a variable in  *)
(* it, as long as no process dies between an artifact and the save of what *)
(* the steps behind it bind.                                               *)
RunsOnBoundInputs == \A r \in Renders : Runs(r[1]) => r[2] \in mem.bound
=============================================================================
