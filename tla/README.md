# Verification of dft

dft runs *flows* — trees of steps that call agents, commands, tools and git —
for the specs of a work breakdown structure (WBS), keeps its state in files
under `.dft/`, and is meant to survive crashes, pauses and repeated runs. This
directory holds TLA+ models of it, TLC configurations that check them on small
instances, and TLAPS proofs of what holds for every instance. Paths below are
relative to the repository (`src/` here).

## 1. Inventory

| Component | Code | State it keeps | Operations | What is hard |
| --- | --- | --- | --- | --- |
| Flow engine | `internal/flow/{runner,dispatch,loop,state,verify}.go` | the Go stack of one process; `.dft/runs/<id>/state.json`; `.dft/inbox`; the git worktree | `Execute`, `Resume`, `ResumeFrom`, step policies (setup, retry, on_error), gates, loops, nested workflows, stages, commit per step | crash between any two of save / commit / step; nested flows that share one state file; pauses through loops and retries |
| Functions | `internal/flow/function_handlers.go`, `git_helpers.go` | branches, worktree, GitHub | `set_var`, branch, commit, rebase and squash mergeback, issues, PRs | sequences of git commands repeated after a crash |
| Definitions | `internal/flow/{loader,bind,model_resolution,context}.go` | none | load, validate, bind inputs, choose models | which trees the engine may be given |
| Outer loop | `internal/execution/{orchestrator,executor}.go`, `internal/domain/wbs.go` | `done`, `completed`, `execution-orchestration.json`, callbacks | `Execute`, `runSpec`, `readySpecs`, `notify` | order across repeated runs; lost callbacks; a Status that contradicts a return |
| Service | `internal/execution/service.go` | `execution-result.json` | `Execute`, `Status` | result written last, read by Status |
| Spec Kit lane | `internal/execution/worktree_executor.go`, `internal/orchestration/*` | worktree, artifacts, journal | stages, artifact assessment, resume decision, journal | completeness derived from artifacts, not from what ran |
| Eval phase | `internal/eval/*`, `internal/domain/eval.go`, `internal/app/evaluate_command.go` | `eval-ready.json`, `eval-plan.json`, `evaluation.json` | readiness, authoring, execution, verdict | aggregation of verdicts; artifacts that change under the evaluation; one file written twice |
| Run store | `internal/adapters/state/*`, `internal/app/{cli,v2_status}.go` | JSON manifests, SQLite, `.status` | save, load, queue, cancel, resume | stores written one after the other, for a run of which one lane was resumed |
| Verifier | `internal/adapters/verify/checker.go` | none | checks | – |
| Provisioning | `internal/app/provision.go` | the assets in a user's repository, `provisioning-manifest.json` | `init`, `sync`, `--force` | which file is the user's own, after failing commands, edits and upgrades |
| Schemas, stats, harness commands | `internal/app/*` | none | printing | – |
| Adapters | `internal/adapters/{git,github,copilot,hermes,agentstub}` | external | processes, HTTP | – |

Interactions: the CLI (`submit`) calls the outer loop; it asks the registry for
the executor of a spec's lane, asks that executor's `Status`, and calls its
`Execute`. `Service` builds a `flow.Runner` and calls `Runner.Execute`;
`WorktreeExecutor` provisions a worktree, decides from artifacts where to resume
the lane and calls `Runner.Execute` or `Runner.ResumeFrom`. The runner calls the
agent, the command dispatcher, the verifier and an observer (the lane's
journal). The only concurrency is that of processes in time: one process at a
time works on a run, may be killed anywhere, and a later one finds its files.

What makes each part correct: the engine resumes where it stopped, neither
skipping nor repeating finished steps, gates protect what follows them, no
failure is silent, exit and record agree. The outer loop respects dependencies
across runs, tells the truth, stops at the first failure. The lane's assessment
agrees with what was done, and its journal with the assessment. No written work is
lost between branches, and a recorded merge is one. A verdict is earned by what was
seen. The stores of a run tell of its lanes. Files of the user survive. The hazards behind these, each with its line, are in
`PROJECT.json`.

## 2. Modules

| Module | Models | Lines of the code |
| --- | --- | --- |
| `FlowRunner` | the flow engine | `runner.go`, `dispatch.go`, `loop.go`, `state.go`, `verify.go` |
| `DurableFlow` | what `state.json` promises to whoever resumes | abstract |
| `MCFlowRunner` | three small flows | – |
| `FlowRunnerProofs`, `FlowSafetyProofs` | proofs about the engine | – |
| `WbsOrchestrator` | the outer loop and its executors seen from it | `orchestrator.go`, `executor.go`, `service.go`, `worktree_executor.go` |
| `DagSchedule` | what a WBS promises | abstract |
| `MCWbsOrchestrator` | two small WBSs | – |
| `WbsProofs` | proofs about the outer loop | – |
| `SpecLane` | the Spec Kit lane of one spec, its assessment and its resumption | `speckit_lane.go`, `speckit_artifact_state.go`, `speckit_resume.go`, `worktree_executor.go`, the functions the lane calls |
| `LaneJournal` | the journal of a lane, as an observer of `SpecLane` | `speckit_journal.go`, `speckit_contract.go` |
| `Mergeback` | the branches and the worktree of a spec, one git command at a time | `function_handlers.go`, `git_helpers.go`, `worktree_executor.go`, `worktree.go`, `runner.go`, `speckit_artifact_state.go` |
| `Checker` | the deterministic checks, as operators | `checker.go` |
| `EvalPhase` | the evaluation of what a run delivered | `eval/*.go`, `domain/eval.go`, `evaluate_command.go`, `harness.go` |
| `MCEvalPhase` | a program, a service and six plans | – |
| `Provision` | `dft init` and `dft sync` | `provision.go` |
| `RunStore` | `dft resume`, `dft cancel` and the two stores | `cli.go`, `v2_status.go`, `json_store.go`, `sqlite_store.go` |
| `MCRepository` | `Mergeback`, `Provision` and `RunStore`, side by side | – |
| `SpecLaneProofs`, `MergebackProofs`, `EvalPhaseProofs`, `ProvisionProofs`, `RunStoreProofs` | proofs about the module of that name, and about `LaneJournal` | – |

`FlowRunner` implements `DurableFlow`, `WbsOrchestrator` implements
`DagSchedule`, each by an `INSTANCE … WITH` whose specification is a property of
a run and a theorem.

### FlowRunner

A flow is a constant tree: `Def[s]` has the fields of `flow.Step` that steer
control. A `staged` definition has the lists of its stages in `body`, in the
order `executeStages` runs them. Every step occurs once in the tree, so the
local variables of the Go activations can be a function of the step (`loc`: the
setup counter, the attempt, the index in the body, the iteration), and the Go
stack is the path from the root to `at`. `pc` says where control is in that
activation and `ret` what its callee returned (`ok`, `fail`, `pause`; the pause
is the `pauseError` that `errors.As` finds under any wrapping).

| Action | Code |
| --- | --- |
| `Execute`, `Resume` | a process is started on the run id: the first calls `Runner.Execute`, later ones `Runner.Resume`, with or without auto-approval of gates |
| `StartFlow` | the first save of `Execute`, before any step |
| `RunSetup`, `SetupReturned` | the setup loop of `executeStepWithPolicy` |
| `SkipDisabled`, `RunLeaf`, `ApproveGate`, `PauseAtGate`, `EnterWorkflow`, `WorkflowUnreadable`, `EnterLoop` | the cases of `executeStep` |
| `LoopNext`, `LoopReturned`, `LoopIterationEnds` | `executeLoopStep` |
| `FlowNext`, `FlowAdvances`, `CommitStep`, `FlowStops`, `FlowEnds` | the loops of `Execute`, `resumeFromState`, `executeStages` |
| `Settle` (operator) | the end of an attempt: retry, `on_error`, return |
| `Crash`, `TornSave` | the process is killed between two steps; inside `os.WriteFile`, that of the first save included |
| `SaveError`, `CommitError`, `ArtifactError` | `saveState`, `commitStep`, the directory of a step or a JSON artifact fail |

What a leaf does (a command, an agent, a tool, a function, a list of checks) is
external: it succeeds or fails, and a tool, agent, command or git function may
have changed the worktree in either case. The worktree is the set of steps
whose changes are uncommitted; a commit (`git add -A`) takes them all. `when`
and `exit_when` are nondeterministic where they are present. `disk.owner` says
whose state the file holds; the code stores no such thing and no action reads
it. `done`, `ran`, `approved`, `failed` are history.

Not in this model: the data of steps (variables, outputs, rendering — planned as
`StepRender`), `ResumeFrom` (the lane's entry point, in `SpecLane`), two processes on one run id at the same time (the code has no lock; nothing in
it starts two).

### WbsOrchestrator

One process runs `Orchestrator.Execute` over the WBS; `ready`, `cur`,
`verdict`, `done`, `completed` are its locals. `finished` is the set of specs of
which `Executor.Status` says Completed and `succeeded` (history) the set of
those whose `Execute` once returned no error. For the generic flow the two
agree, since `Service.Execute` writes the file that `Status` reads as its last
act. For the Spec Kit lane they need not: `Execute` returns an error when any
attempt in the history of its flow failed, repaired or not
(`worktree_executor.go:70`), while `Status` assesses artifacts; and it returns
none although a task is unchecked. Both outcomes are in `ExecutorReturns`. In
`ResultUnwritten` the spec was executed to the end, and the write of
`execution-result.json` fails: the result that is returned with that error says
completed (`service.go:97`, `worktree_executor.go:76`). The callback of a spec
posts the status of the result, not the verdict (`SpecMessage`), and so the two
are separate variables; `unwritten` (history) has the specs this happened to.
`Settled` is the union, the specs that some account calls finished. `told` is
what the external receiver of callbacks has got. A registry belongs to a
process, and may lack the executor of a lane: `NoExecutor` is a fault that a
process meets at the first spec of a lane, or not at all.

Repeated processes on one run id are what the comment of `Orchestrator` is
about; `submit` draws a fresh run id for each call, so today only callers of the
package get there.

### SpecLane

The lane of one spec in a git worktree with an increment branch. Two records
survive a process. The *artifacts* (`art`) are the documents of the worktree and
the `parsed.json` of steps; from them alone `assessSpecKitLaneState` (`Open`)
decides where to go on. `state.json` (`disk`) has the variables and step outputs
that the resumed steps render; it is saved after each top-level step, and not
inside the loop. What can go wrong is mostly that the two disagree.

| Action | Code |
| --- | --- |
| `StartLane`, `ResumeLane`, `ResumeFails`, `SkipLane` | `ResumeSpecKitLane`, `Runner.ResumeFrom`, `WorktreeExecutor.Status` |
| `Specify`, `Plan`, `Tasks`, `Analyze`, `Remediate`, `Implement`, `CodeReview`, `ResolveMergeback` | the command and agent steps of the lane, with the artifact checks of `verifySpeckitCommandArtifacts` |
| `AnalyzeClean`, `ReviewClean` | the tolerated verify steps |
| `Plainly`, `Issues`, `EnsureBranch`, `CaptureBranch`, `MergebackAttempt`, `Finalize` | the function steps |
| `Advance` | the next step of the loop, or its end |
| `Save`, `SaveFailed`, `CommitFails` | what the engine does after a top-level step |
| `Crash` | the process is killed, also between two git commands of the mergeback |

A document is `none`, `poor` (the assessment takes it for a template or for too
short) or good; `touched` says that `tasks.md` is newer than the analysis, the
only thing `fileUpdatedAfter` asks. Agents are external: by `Kinds` they fail
(`agent`), fail but leave their file (`leftover`), pass their checks with a file
that the assessment does not accept or without doing what was asked (`vague`),
leave tasks unchecked (`partial`), find something (`blocking`, `critical`). Git
may conflict (`conflict`), or fail while the branch is set up or a step is
committed (`setup`) and during the mergeback (`git`). The git state (`git`) is
what is checked out, which source branches exist, and the branch of a rebase in
progress. `Inherited` lets the worktree start with documents of an earlier spec
in the directory that `.specify/feature.json` names; `FeatureJson` says that the
agent of `specify` records that directory, so that later steps find it even if
they render no name. `fresh`, `merged`, `fixes` are history.

`unfinished` is history too: the lane once went on from its loop although a task
was unchecked or the last review critical, or a review found nothing to object
to while a task was open. The code lets it (section 3, under *Lane*), and what it
promises ends there, so four properties are about lanes that did not.

What a conflict resolution changes in the code, the remote branch, and lanes
without git or with a customised definition are left out.

### LaneJournal

`SpecLane` with the observer that the runner calls before and after each step.
Every step of the lane that belongs to a stage is split in three: `StepStarted`
appends an attempt that runs, `RunStep` is the step, `StepCompleted` writes its
status. A process may die between any two of them, with the journal behind the
artifacts, and in the middle of the write (`file` is `torn`). The journal is read
at the start of every process (`BeginWithJournal`, `JournalUnreadable`), though
no decision depends on what it says. Only the latest attempt of a stage is ever
changed, so the model keeps that one's status (`latest`) and counts the earlier
ones that still say running (`stale`). The stages of this lane are never skipped.

### Mergeback

What `SpecLane` has as one step with four parts is here the sequence of git
commands, and around it the worktree, the branches that an earlier run of the
same spec left (`EnsureFeatureBranch`: their name does not depend on the run),
branches that other worktrees hold (`held`), the remote branch and the other
lanes that move the target. A tree is the set of the changes that it has:
`doc`, `code`, `old` (of an earlier run), `other` (of another lane), and
`markers`, the conflict markers. `mstep` is the next command; `Interrupted`
stops the process before any of them, because it is killed, the command fails or
the agent does. What an agent does with a conflict is `ResolveConflict`,
`LeaveUnresolved` or `AbortRebase`; `neglect` records that one reported success
over a conflict. What the next process does is decided by the records of
`mergeback-attempt` and `mergeback-finalize` (`ResumePoint`).

### Checker and EvalPhase

`Checker` has every kind of check as an operator on what there is at a path and
what a command prints; a file is what a check can tell of it. `EvalPhase` runs
them at the end of an evaluation.

A process of `EvalPhase` probes the surfaces of the contract (`CheckSurface`,
`WriteReady`), has an agent author a plan (`Author`), runs packs, scenarios and
steps (`StartPack`, `UnboundPack`, `RunProgram`, `Request`, `Expectation`,
`KeepEvidence`), concludes (`Conclude`) and writes `evaluation.json`
(`WriteResult`), once as an `EvalResult` and, when it is the command that runs,
again in the format that the command and the harness read. The artifacts are
external: each is up, faulty or down, and `Change` may change them between any
two steps. `Callers` are the command, which gives the phase neither agent nor
verifier, and users of the package with and without a verifier. `Crash` and
`WriteFails` may leave the file that is being written torn.

### Provision, RunStore and MCRepository

`Provision` goes through the assets one by one (`next`) and writes the hashes at
the end. The contents of a file are what decides: absent, as shipped by a
version of dft, the user's own, edited below the managed header, or torn.
An asset is read (`DecideToWrite`) in one step and written (`WriteAsset`) in
another, with the user at work in between (`UserEdits`); `touched` (history) has
what she edited since. `Upgrade` installs another dft between two commands.

`RunStore` is `dft resume`: load the manifest (from SQLite if that opens, from
the JSON file otherwise), pick the one lane that can be resumed, run it, open
the database, write both stores. Of a lane the module has whether it left
anything and whether its artifacts say that it is complete; `RunLane` may leave it
anywhere when it fails, and may return no error over a lane that is half way, as
`ResumeSpecKitLane` does (`OkMeansCompleted` of `SpecLane` says when). `passed`
(history) has those lanes.

The three modules share no state; `MCRepository` checks them in one run, where
`focus` says which of them a behaviour is about.

## 3. Runs

All runs use the cfg of their name. All cfgs but those of the lane say
`CHECK_DEADLOCK FALSE`: after the last process has returned, the system stops.
A lane can always be asked for again; its runs check for deadlock.

| Run | Question | Bounds | Result |
| --- | --- | --- | --- |
| `MCFlowFlat` | safety of the engine without nested workflows, refinement of `DurableFlow`, termination | 8 steps (tool with setup and retry, gate, guarded loop of 2 iterations whose exhaustion is tolerated, command), all five kinds of fault, 2 faults, 3 processes | holds |
| `MCFlowNested` | nested workflows sharing `state.json` | 11 steps, a tolerated plain and a retried staged nested flow, setup by a gate; a commit or artifact error, no crash, 3 processes | holds |
| `MCFlowStaged` | stages | 6 steps; crash, torn and failing saves, artifact errors; 2 processes (a staged flow is not resumed) | holds |
| `MCFlowNestedCrash` | does Resume start at the first incomplete step after a crash in a nested workflow? | one crash | **violated** |
| `MCWbsDiamond` | safety of the outer loop, refinement of `DagSchedule` | 4 specs in a diamond, both lanes, listed against their order; 2 faults of 4 kinds, 3 processes | holds |
| `MCWbsBlocked` | a cycle at run time, and termination | 4 specs, 2 faults of 3 kinds, 3 processes | holds |
| `SpecLaneFaults` | does a step run before its input exists, is an analysis remediated twice, is the journal true, was every attempt that still runs left by a fault? | every kind of fault, 3 faults, any number of processes, fresh and inherited documents | holds |
| `SpecLaneSound` | does completed mean merged, merged mean reviewed, success mean completed? | 4 faults of every kind but `vague`, fresh and inherited documents | holds |
| `SpecLaneLive` | is a lane completed if it is resumed again and again, and do its steps find their input? | 5 faults, no crash, no failing setup | holds |
| `MCEvalPhase` | are scenarios behind the gate, is the verdict earned, do the files agree with the process? | 2 artifacts of 3 states, 2 surfaces, 6 plans, 3 callers, 1 change, 1 fault, 2 processes | holds |
| `MCEvalCommand` | does `dft evaluate` get to a verdict? | no fault, one process | **violated** |
| `MCRepository` | is work lost, a record false, a conflict committed, a file of the user overwritten, a sync out of date, a status untrue? | one spec with branches of an earlier run, 3 interruptions; 2 assets, 3 commands, 2 versions, 2 edits, 1 accident; 2 lanes, 3 resumes, 2 troubles | holds |

Why the bounds are enough to be interesting: the number of processes and faults
(`MaxRuns`, `MaxFaults` of each cfg) lets a second process be hit by a second
fault and a third one recover; loops have two iterations so that the second
starts from a used frame (three in `SpecLane`, as in the code: three faults let
all three reviews be critical, a fourth hits the lane after that); each flow has a step before and one after every
special step. `SpecLane` bounds faults, not processes. The plans of `MCEvalPhase`
put a pack without a surface first, last and between others, with a passing, a
failing and no deterministic check, since the verdict is aggregated over all of them.
Three interruptions of `Mergeback` allow one in the rebase, one while it is
resumed and one in the finalization; two edits and an upgrade among three
commands make the hash of an asset differ from it in every way. The theorems below remove
the bounds for the properties they cover. Each cfg names the constants it uses;
none replaces a definition.

### What the properties say

Engine. `ImplementsDurable`: seen through `state.json` the engine takes no step
but those of `DurableFlow`, the loss of the file in any save before the last
included. `SavedIndexIsEarned`, `RunsFirstIncomplete`, `NoStepSkipped` relate the
saved index to what has been done and to where control is, across processes.
`GateGuardsSuccessors`: nothing behind a gate has run without approval. It makes
an exception that the code has: a gate with `on_error: continue` whose inbox
item cannot be written (`dispatch.go:281`) is stepped over. `PauseIsReported`,
`PauseUnwinds`, `ExitMatchesDisk`, `NoSilentFailure` relate return values,
policies, inbox and record. `FewUncommitted` is what the commit order does give:
no more uncommitted finished steps than faults. `NoSilentFailure` is stated step
by step, so it holds along every path of the tree to the tolerating ancestor.
`EveryProcessEnds`: bounded retries and loops.

Outer loop. `DependenciesSettled`; `ReportsAreTrue` (completed is told of a run
only when all its specs are settled, and of a spec when it is settled, or was
executed to the end and lost its result, in which case the process goes on to no
other spec); `SuccessIsComplete` (a run
that says it succeeded has completed, recorded and reported every spec),
`BlockedOnlyByCycle`, `CompletedOutlivesReruns` (a completed record is
overwritten only after the lane ran a succeeded spec again and failed),
`EveryRunEnds`, `ImplementsDag`.

Lane. `PrerequisitesExist`: wherever the assessment resumes, and whatever failed
with or without leaving files, no step runs before the stages it needs have left
theirs. `RemediatedOnce`: modification times are enough to remediate one
analysis once. `CompletedIsMerged`: the sequence of git commands of the
mergeback may be cut anywhere and repeated, and a completed lane is still merged
(`FinalizePart_DeleteFirst` shows why their order matters). `ReviewIsCurrent`:
what is merged is what was reviewed last. `OkMeansCompleted` relates the two
accounts of `WorktreeExecutor`, in the direction that holds.
`RunsOnBoundInputs`: the two records agree as long as no process dies between
them. `LaneCompletes`. `JournalIsTrue`: a stage that the journal calls succeeded
has left its artifact, whatever died in between, and a lane that returned success
ends in it with a mergeback that succeeded. `AttemptsEnd`: every attempt that
runs for ever was left by a fault of its own.

Eval phase. `ScenariosAfterGate`: no scenario runs on a surface that this process
has not bound, or from a plan that it has not recorded. `VerdictIsEarned`: the
one variable that packs, scenarios, checks and coverage all write says pass if
and only if all of them hold, and blocked for what was not evaluated, in
whatever order the packs come. `FilesAgree`: what `evaluation.json` says is what
the process found that wrote it, a process that failed leaves no verdict of its
own, and the harness is never told of a pass. The last is a consequence of
finding 2 below: only the command writes the format that the harness reads, and
it has no agent that could author a plan.

Repository. `NothingLost`: everything that was ever written is on a branch or in
the worktree, whatever was interrupted and whichever branches were there.
`RecordIsTrue`: a recorded mergeback has the work on the target and its source
gone. `OnlyAgentsLeaveMarkers`: the engine commits what it finds after every
step, and still no interruption of its own makes it commit a conflict to a
branch. `UserFilesSurvive` and `SyncedIsCurrent` are the two sides of deciding by
a header and a hash; the first lets nothing but an edit between the read and the
write of a file be lost. `StatusTellsOfLanes`: in a run that was resumed into
success no lane is half way, but for those that returned no error half way; and
the database lags behind the JSON file, never the reverse.

Some hazards of `PROJECT.json` name no property, or say in a note what theirs
leaves out: there the code does what the hazard describes, and the properties make
an exception for it instead of catching it.

### Fairness

`FairSpec` of `FlowRunner` and `WbsOrchestrator` has weak fairness of the steps of a running process
and of nothing else: the runner is one goroutine that waits for no other part,
and what it calls (agents, commands, executors) is taken to return. Starting
processes and faults are not fair. Liveness properties therefore say that a
process that is started ends, not that one is started. `SpecLane` is about
resumption and has fairness of `Begin` too: the operator (`dft resume`) asks for
the lane again whenever a process has ended. It claims nothing if nobody asks.

### Findings

1. A nested workflow shares the state file of its parent; a crash inside it
   makes `Resume` skip steps of the parent (`dispatch.go:149`,
   `MCFlowNestedCrash`).
2. `dft evaluate` gives the eval phase neither agent nor verifier, so that the
   author of the plan refuses: the command ends with an error whenever the
   artifacts are ready, and never gets to a verdict other than blocked
   (`evaluate_command.go:55`, `MCEvalCommand`).

The models contain more behaviour of this kind, for which no run is kept. Each
shows as a counterexample when the formula is checked under the constants named.

Engine and outer loop:

* `state.json` moves on before `commitStep`; a crash in between leaves a step
  uncommitted in a run that then succeeds (`runner.go:179`: `exit = "ok" => dirty = {}` with two
  tools and a crash).
* What agents change inside a loop that ends the flow is never committed
  (`runner.go:182`: the same formula with a flow that ends with a loop, no fault).
* `WBS.Validate` accepts cycles of more than one spec (`orchestrator.go:59`:
  `exit # "blocked"` with the WBS of `MCWbsBlocked`).
* When the save of its pause fails, a nested workflow returns the error of the
  save in place of the pause; with `on_error: continue` or `retry` its step
  tolerates or repeats that, so a gate inside it is stepped over or asked again
  (`runner.go:170`: `PauseUnwinds` with one `save` and a nested workflow that
  begins with a gate).
* A kill or an error inside the first save leaves a torn `state.json` where there
  was none, and no `Resume` reads it (`runner.go:148`: `disk.status # "torn"`, one `torn` or `save`).
* A spec that was executed, and whose result file cannot be written, is announced
  as completed, and its run as failed; for the generic flow the next process
  executes it again (`orchestrator.go:93`: `ReportsAreTrue` without `unwritten`,
  one `write`).
* A gate with `on_error: continue` whose inbox item cannot be written counts as
  passed (`dispatch.go:281`: `GateGuardsSuccessors` without its condition on
  such gates, one `artifact`).
* A failing callback, like a blocked run, leaves no orchestration result
  (`orchestrator.go:95`: `exit = "fail" => file # "absent"`, one `post`).

Lane:

* Three critical reviews exhaust the loop, and the lane merges all the same
  (`speckit_lane.go:232`: `Runs("mergeback-finalize") => art.review = "clean"`,
  three `critical`).
* A remediated analysis makes `Execute` report a failure of the lane it
  completed (`worktree_executor.go:70`: `at = "idle" /\ Completed => exit #
  "fail"`, one `blocking`).
* Killed between the analysis and its save, the lane is resumed at a remediation
  that has lost the output to remediate (`speckit_resume.go:75`:
  `Runs("tasks-remediation") => "analyze" \in mem.bound`, `crash`, `blocking`).
* With inherited documents a new run is resumed in the middle, without a
  `state.json`, and cannot start (`speckit_resume.go:75`: `LaneCompletes` with
  `Inherited = {TRUE}`, no fault).
* A `mergeback-finalize` that fails with the increment branch checked out,
  followed by a resumed loop (`partial`), makes the increment branch the source
  of the next mergeback (`LaneCompletes` without its condition on `unfinished`,
  `partial`, `git`).
* A code review that finds nothing critical ends the loop, and stays valid
  whatever is implemented after it. If it left a task open and the lane is killed,
  it is resumed at `implement`; killed once more, behind the review: what was
  implemented is merged unreviewed (`speckit_artifact_state.go:143`:
  `ReviewIsCurrent` without its condition on `unfinished`, `crash` and
  `partial`).
* A lane that merged unfinished work is sent back to its loop by the assessment.
  The record of its mergeback is never withdrawn: when the loop is done, the
  lane is completed with the new work on no branch that was merged, or merges
  what was not reviewed, or finds its branch deleted and never ends
  (`speckit_artifact_state.go:209`: `CompletedIsMerged`, `ReviewIsCurrent` and
  `LaneCompletes` without their condition on `unfinished`).
* The loop does not save the outputs of its steps. After a crash behind a clean
  review the lane is resumed at `issues-from-review`, whose input is then
  missing for ever (`function_handlers.go:323`: `LaneCompletes` with
  `Kinds = {"crash"}`).
* A document that passes the checks of its step and not those of the assessment
  does not keep the process from merging and reporting success; the next one
  starts again at that document (`OkMeansCompleted` with `vague`).
* A process killed while it writes `lane-journal.json` leaves a file that keeps
  every later one from starting (`speckit_journal.go:62`: `file = "whole"`).

Mergeback (none of these loses work):

* An agent that reports a conflict resolved has its markers committed; the next
  step looks for unmerged files and finds none (`runner.go:255`).
* A process killed inside a conflicting rebase, before the conflict is recorded,
  is resumed at `commit-before-mergeback`: the markers are committed on a HEAD
  without a branch, the name of which is then empty, and no later process gets
  on (`function_handlers.go:365`, `157`).
* A recorded rebase is not repeated when the target has moved since: the trees
  differ after the squash, for ever (`function_handlers.go:473`).
* `git worktree add` killed after it made the branch leaves one that keeps the
  worktree from being provisioned again (`worktree.go:92`).
* In a second run of a spec, the document is committed on the branch of the
  worktree and the work goes on from the feature branch of the first run: the
  document is never merged (`function_handlers.go:192`).

Evaluation and records:

* The files that users of the eval package leave, and those of a command that
  was killed before its second write, have no `verdict` for the harness to find.
  `dft evaluate` returns 0 whatever the verdict, and the harness does not look at
  the exit code either.
* `dft cancel` writes a marker that nothing reads (`v2_status.go:215`), and
  `dft status` calls an evaluation complete when its file is there.
* `dft resume` marks the run succeeded when the lane returns no error, also when
  the lane is half way, which it may be after unfinished work
  (`cli.go:250`, `speckit_resume.go:75`: `StatusTellsOfLanes` without `passed`).
* An edit that the user makes between the read of an asset and its write is
  overwritten without `--force` (`provision.go:62`, `88`: `UserFilesSurvive`
  without `writing`).
* A second `init` forgets the hashes of the files that have no header; later
  syncs leave them at the old version (`provision.go:66`).

## 4. Proofs

The assumptions are those of the modules on their constants: `FlowAssumption`
and `OnceAssumption` (the shape of the tree: what `loader.go` lets through; a
step occurs once, in the setup or in the body of its parent), `WbsAssumption` (what
`Validate` lets through), `EvalAssumption` (surfaces, packs and scenarios are
lists, ids are unique), and the types of the bounds. TLC evaluates all of them on every run. No theorem
bounds processes, faults, retries or resumptions but by the parameter itself.

A property of the runs is seldom inductive. Each proof strengthens it with what
the code relies on without saying so: mostly where control can be when a file
has a certain content. TLC has checked every inductive invariant below as an
invariant of the runs before it was proved. One lemma per operator that changes
control, one step per action.

### Engine

* `FlowRunnerProofs!TypeCorrect`: types, for *every* flow, nested and staged
  ones included.
* `FlowSafetyProofs`, flat flows (`FlatFlow`: no nested workflow; with one and a
  crash these properties fail, finding 1). `FlatInv` joins `SavedIndexIsEarned`
  with three facts: a running process has a readable file or has not got beyond
  its first save (`Running`), control inside a top-level step agrees with the index in the
  frame of the root (`InsideStep`), and in the root's own code the frame and the
  file move together (`AtRoot`). From it follow `SavedIndexSafe`,
  `FirstIncompleteSafe`; with a count of what a commit sweeps, `CommitsSafe`; and
  `Refinement`: every step, those of faults included, also in the first save, is
  a step of `DurableFlow` or a stutter; that needs to know where a process can
  be when the file is still absent (`StatusInv`).
* `PauseSafe`, every flow: a pause is held by a step that returns it, and every
  policy above passes it on. The hypothesis `PausesAreSaved` says that no save
  fails unless the flow is flat; without it the property is false (section 3,
  *Engine and outer loop*).
* `NothingSkipped`, `GateSafe`, `ExitSafe`, `ReportSafe`: for flat flows whatever
  happens, for staged roots (`Resume` refuses them), and for nested flows without
  crashes and failing saves. That is `RootRecovers`, and finding 1 shows what
  happens without it. `NestInv` says that the active step lies inside the
  top-level step at the index of the root's frame, whoever owns `state.json`
  (`InsideTop`, `FrameInv`), and that the file is the root's own again whenever
  control is back in the root and has saved (`RecordInv`). `GateSafe` adds that a
  gate is done only when approved (`ApprovedDone`) and that what has run has run
  in order (`RanInOrder`).
* `FailuresSafe`, every flow: when a process returns no error, each step that
  failed has handed its error to a parent that failed too or that tolerates it.
  `FailInv` makes the Go stack explicit: the active step and those above it, at
  increasing depths, each of them the child that the frame above it waits for
  (`Stack`). A failed step has its parent on that stack, failed, or tolerating it
  (`Handed`), and no child that a frame has passed has failed (`FrameIs`). When
  only the root is left on the stack and has passed its body, nothing is on its
  way. The hypotheses are `PausesAreSaved` and `GuardsOnLeaves`: a step with
  children and a `when` guard that fails may be skipped when its parent retries,
  and then returns no error over a child that failed (TLC finds this on a
  workflow with one retry around a guarded loop).

### Outer loop

`WbsProofs`: for every WBS, lanes, faults and number of processes. `BatchInv`
says that completed specs are settled, that a batch waits for nothing, that
as long as no spec has failed in this process those done are those completed, and
that a result about to be posted as completed is that of a spec which is settled
or `unwritten`.
From it: `DependenciesSafe`, `ReportsSafe`, `BlockedSafe` (the specs not done
are the witness of the cycle) and `WbsRefinement`. `SuccessSafe` adds what has
been announced by the time the run is (`SuccessInv`); `CompletedSafe`, an action
property, adds that only a spec of the Spec Kit lane can fail after it succeeded
(`RerunInv`).

### Lane

`SpecLaneProofs`, for every set of `Kinds`, with the journal and without. The
lane is first shown to move along its chain of steps (`Successors`), so that
"this step is behind the process" can be said without history.

* `LaneInv` has the types and which artifacts the steps behind a process have
  left (`LeftInv`). From it `LaneTypeCorrect`, `PrerequisitesSafe`,
  `RemediationSafe`, under all faults.
* `SoundInv`: artifacts are there in the order of the stages (`ChainInv`), a
  lane that is not `unfinished` has reviewed the code that it has and does not
  come back to its loop (`LoopInv`), and all branches that git, a process and
  `state.json` name exist until the work is merged (`BranchInv`). From it
  `CompletionSafe`, `ReviewSafe`, `SuccessSafe`. Their hypothesis `Dependable`,
  no `vague` agents, is that of the run `SpecLaneSound`, and needed (section 3).
* `HeardInv` and `WrittenInv` relate what the observer has heard to where the
  process is. From them `JournalSafe`, under all faults.
* `InputsInv`: what the steps behind a process bind is in memory, and between
  processes in `state.json`. From it `InputsBound`. Its hypothesis
  `Uninterrupted` excludes the faults behind which the two records disagree:
  a crash, a branch set-up or commit that fails, an agent that fails but leaves
  its file or passes with one that is not accepted.
* `AttemptsInv`, under all faults: each attempt that is left running is paid for
  by a fault, except the one that the process owns (`Owned`, `OwnedInv`). Some
  faults are spent later, so `CreditInv` keeps one in store for a stage that was
  left undone (`Missed`) and for a mergeback that may be repeated (`Reopened`).
  Behind the mergeback attempt the last step will end what runs (`Certain`);
  that needs to know that nobody has the target checked out before the merge
  (`TargetInv`), and that behind the implementation no finding of the analysis
  is open (`ImplementedInv`). From it `AttemptsSafe`.

### Branches, evaluation, stores, provisioning

* `MergebackProofs`: `MergebackInv` says where HEAD may be at each command
  (`HeadInv`), on which branch the work is until the target has it (`WorkInv`,
  `CodeInv`), and where markers may be that nobody has resolved (`MarkersInv`).
  From it `WorkIsKept`, `FinalIsMerged`, `EngineLeavesNoMarkers`, for any number
  of interruptions.
* `EvalPhaseProofs`, for every contract and every plan: `GateInv` (`GateSafe`),
  `VerdictInv` (`FilesSafe`), and `CountInv`, which says what the variable that
  accumulates the verdict holds after some of the packs and scenarios
  (`VerdictSafe`, an action property).
* `RunStoreProofs`: `StoreInv` has what a process knows of its lane until it
  writes, and what the stores say of each other (`StatusIsAboutLanes`), for any
  number of specs.
* `ProvisionProofs`, for any list of assets and any history: a recorded hash is
  one of dft's (`OnlyDftRecorded`), and a file about to be written is the user's
  own only if she edited it since it was read, unless the command is forced
  (`ReadBeforeWritten`), from which `UserFilesAreSafe`; the assets
  that a sync has passed are current (`SyncedSoFar`, `RecordsKept`), from which
  `SyncBringsUpToDate`.

### Only model-checked

* Liveness (`EveryProcessEnds`, `EveryRunEnds`, `LaneCompletes`): out of reach
  of the prover.

Of nested flows nothing is claimed about the saved index, the commits and the
refinement: a nested workflow writes its own index into the file of the root
(finding 1).

## 5. Plan

What is left, most important first.

1. `StepRender` and `AgentCall`: the maps that rendering shares between
   iterations (`runner.go:351`), retries of agent steps, what a loop condition
   reads (`loop.go:56`).
2. Pure algorithms as operators with reference definitions: `WBS.Validate`
   against acyclicity, branch resolution, step shapes of the loader, the
   tokenizer of JSON decoding.
3. An abstract lane, a counter over stages, that the lane without crashes
   refines.

Not modelled, and why: printing, flag parsing, schemas, metrics (no control
depends on them); GitHub and the agents (external processes and network calls,
seen by their callers as success, failure or loss); `submit`'s resolution of
prompts and branch names (data); the job queue, the inbox table, `BeginIncrement`,
`CompleteSpec`, `CompleteIncrement` and `eval/manifest.go`, which only tests call;
the harness of mock agents, and scripts.
