------------------------------- MODULE EvalPhase -----------------------------
(***************************************************************************)
(* The evaluation of what a run delivered: internal/eval and the command   *)
(* `dft evaluate'.  A process probes the surfaces of the contract (the     *)
(* readiness gate), has an agent author a plan of scenarios, runs the      *)
(* scenarios against the artifacts, and writes evaluation.json.            *)
(*                                                                         *)
(* Three files in .dft/runs/<id>/eval survive it: eval-ready.json,         *)
(* eval-plan.json and evaluation.json.  The artifacts are external: each   *)
(* is up, up but faulty, or down, and may change under the process, so     *)
(* that what the gate saw need not be what a scenario finds.               *)
(***************************************************************************)
EXTENDS Checker, FiniteSets

CONSTANTS
  Artifacts,  \* what may be delivered: programs, files and endpoints
  ByUri,      \* those with an ArtifactRef.URI; the others have a path
  Surfaces,   \* the surfaces of EvalSurfaceContract, in order
  Manifests,  \* the artifacts that orchestration-result.json may list
  Plans,      \* what the plan author may answer
  Callers,    \* who calls: "command", or the package with an agent, and
              \* with ("full") or without ("unverified") a verifier
  FaultKinds, \* the faults a behaviour may meet
  MaxFaults,  \* bound on their number
  MaxChanges, \* bound on the changes of the artifacts
  MaxRuns     \* bound on the number of processes

IsList(s) == Len(s) \in Nat /\ s = [k \in 1..Len(s) |-> s[k]]

(* The surfaces of a contract, the packs of a plan and their scenarios are *)
(* slices.                                                                 *)
ASSUME EvalAssumption ==
  /\ ByUri \subseteq Artifacts
  /\ IsList(Surfaces)
  /\ \A p \in Plans :
       IsList(p.packs) /\ \A k \in DOMAIN p.packs : IsList(p.packs[k].scenarios)
  /\ \A i, j \in DOMAIN Surfaces : Surfaces[i].id = Surfaces[j].id => i = j
  /\ Surfaces # << >>
  /\ Manifests \subseteq SUBSET Artifacts
  /\ Callers \subseteq {"command", "full", "unverified"}
  /\ FaultKinds \subseteq {"crash", "write", "agent", "evidence"}
  /\ MaxFaults \in Nat /\ MaxChanges \in Nat /\ MaxRuns \in Nat

VARIABLES
  pc,       \* where the process is
  caller,   \* who called it
  manifest, \* ArtifactManifest, as the build phase left it
  state,    \* what the artifacts are
  i,        \* surface, then pack, that is being looked at
  j,        \* scenario of the pack
  n,        \* step of the scenario
  bound,    \* the surfaces with a SurfaceBinding
  ready,    \* EvalReady.Status
  plan,     \* EvalPlan
  st,       \* scenarioState
  packst,   \* PackExecution.Status
  res,      \* EvalResult.Status
  passed,   \* passedRequirements
  files,    \* the three files: which process wrote them, what they say, and
            \* whether the verdict is an EvalResult or the command's summary
  exit,     \* how the last process returned; "none" while it runs or if killed
  runs,     \* processes so far
  changes,  \* changes of artifacts so far
  faults,   \* faults so far
  outs      \* history: <<pack, scenario>> of the scenarios that passed

local == <<caller, i, j, n, bound, ready, plan, st, packst, res, passed>>
world == <<manifest, state, changes>>
vars  == <<pc, local, world, files, exit, runs, faults, outs>>

States == {"up", "faulty", "down"}
Status == {"pass", "fail", "error", "blocked"}

(* What a process that has not begun would read of a scenario.             *)
NoState == [exit |-> 0, out |-> "", err |-> "", status |-> 0, body |-> "none"]
NoPlan  == [requires |-> {}, packs |-> << >>, checks |-> << >>]

(* A file, as the process that is running leaves it.                       *)
Doc(says, form) == [by |-> runs, says |-> says, form |-> form]
NoDoc == [by |-> 0, says |-> "none", form |-> "none"]
Write(f, says, form) == files' = [files EXCEPT ![f] = Doc(says, form)]

(* os.WriteFile truncates before it writes; making the directory may fail. *)
WriteLost(f) == UNCHANGED files \/ Write(f, "torn", "none")

Fault(k) == k \in FaultKinds /\ faults < MaxFaults /\ faults' = faults + 1

Return(e) == pc' = "idle" /\ exit' = e
Goto(p)   == pc' = p /\ UNCHANGED exit

-----------------------------------------------------------------------------
(* The artifacts, as programs, services and files.                         *)

Runs(a) == a \notin ByUri /\ state[a] # "down"
ExitCode(a) == IF ~Runs(a) THEN 1 ELSE IF state[a] = "up" THEN 0 ELSE 2
Stdout(a) == IF Runs(a) /\ state[a] = "up" THEN "hello" ELSE ""
Stderr(a) == IF Runs(a) /\ state[a] = "faulty" THEN "usage" ELSE ""

Answers(a) == a \in ByUri /\ state[a] # "down"
HttpStatus(a) == IF state[a] = "up" THEN 200 ELSE 500
HttpBody(a)   == IF state[a] = "up" THEN "ok" ELSE "none"

Repo ==
  [files |-> [a \in Artifacts |->
     [is      |-> IF Runs(a) THEN "file" ELSE "absent",
      hits    |-> IF state[a] = "up" THEN 1 ELSE 0,
      json    |-> HttpBody(a), sum |-> IF state[a] = "up" THEN 1 ELSE 2,
      tracked |-> FALSE, magic |-> TRUE, heavy |-> TRUE]],
   commands |-> {a \in Artifacts \ ByUri : state[a] = "up"},
   git |-> TRUE, unmerged |-> FALSE, hidden |-> {}]

(* The artifact that a relative path or an absolute URL leads to; a        *)
(* relative path needs a surface that is bound to a URI.                   *)
Reaches(binding, at) == IF at = "/" THEN binding ELSE at

-----------------------------------------------------------------------------
(* ReadinessGate.runProbe                                                  *)
ProbeHolds(p, binding) ==
  /\ p.argc
  /\ \/ p.kind = "file_exists" /\ Exists(Repo.files[p.at])
     \/ p.kind = "command_exit_zero" /\ p.at \in Repo.commands
     \/ /\ p.kind = "http_status"
        /\ Answers(Reaches(binding, p.at))
        /\ HttpStatus(Reaches(binding, p.at)) = p.want

(* `dft evaluate' finds the design and the orchestration result, or a test *)
(* calls Orchestrator.Run with their contents.                             *)
Evaluate(c) ==
  /\ pc = "idle" /\ runs < MaxRuns
  /\ runs' = runs + 1 /\ caller' = c
  /\ i' = 1 /\ j' = 1 /\ n' = 1 /\ bound' = {} /\ ready' = "pass" /\ plan' = NoPlan
  /\ st' = NoState /\ packst' = "pass" /\ res' = "pass" /\ passed' = {} /\ outs' = {}
  /\ IF manifest = {} THEN Return("error") ELSE pc' = "surface" /\ exit' = "none"
  /\ UNCHANGED <<world, files, faults>>

(* A surface is bound if its artifact is listed; all its probes are run,   *)
(* and one that fails blocks, but takes no binding back.                   *)
CheckSurface ==
  /\ pc = "surface" /\ i <= Len(Surfaces)
  /\ LET s == Surfaces[i] IN
     /\ bound' = IF s.artifact \in manifest THEN bound \cup {s.id} ELSE bound
     /\ ready' = IF /\ s.artifact \in manifest
                    /\ \A p \in s.probes : ProbeHolds(p, s.artifact)
                 THEN ready ELSE "blocked"
  /\ i' = i + 1
  /\ UNCHANGED <<pc, caller, j, n, plan, st, packst, res, passed, world, files, exit,
                 runs, faults, outs>>

(* Mutant: the phase goes on although the gate blocks. *)
WriteReady_GoesOn ==
  /\ pc = "surface" /\ i > Len(Surfaces)
  /\ Write("ready", ready, "none") /\ Goto("author")
  /\ UNCHANGED <<local, world, runs, faults, outs>>

WriteReady ==
  /\ pc = "surface" /\ i > Len(Surfaces)
  /\ Write("ready", ready, "none")
  /\ IF ready = "blocked" THEN res' = "blocked" /\ Goto("write")
                          ELSE UNCHANGED res /\ Goto("author")
  /\ UNCHANGED <<caller, i, j, n, bound, ready, plan, st, packst, passed, world, runs,
                 faults, outs>>

-----------------------------------------------------------------------------
(* EvalPlan.Validate                                                       *)
PlanValid(p) ==
  /\ p.packs # << >> \/ p.checks # << >>
  /\ \A k, l \in DOMAIN p.packs : p.packs[k].id = p.packs[l].id => k = l
  /\ \A k \in DOMAIN p.packs :
       /\ p.packs[k].scenarios # << >>
       /\ \A s \in DOMAIN p.packs[k].scenarios : p.packs[k].scenarios[s].steps # << >>
  /\ \A k \in DOMAIN p.checks : p.checks[k].id # "" /\ p.checks[k].kind # ""

HasAgent    == caller # "command"
HasVerifier == caller = "full"

(* ArtifactOnlyPlanAuthor.Author: an answer that is no plan is an error.   *)
Author(p) ==
  /\ pc = "author" /\ HasAgent /\ PlanValid(p)
  /\ plan' = p /\ i' = 1
  /\ Write("plan", "pass", "none")
  /\ Goto("pack")
  /\ UNCHANGED <<caller, j, n, bound, ready, st, packst, res, passed, world, runs, faults,
                 outs>>

AuthorFails ==
  /\ pc = "author"
  /\ \/ ~HasAgent /\ UNCHANGED faults
     \/ HasAgent /\ (\E p \in Plans : ~PlanValid(p)) /\ UNCHANGED faults
     \/ HasAgent /\ Fault("agent")
  /\ Return("error")
  /\ UNCHANGED <<local, world, files, runs, outs>>

-----------------------------------------------------------------------------
(* Executor.executePack and executeScenario                                *)
Pack     == plan.packs[i]
Scenario == Pack.scenarios[j]
Step     == Scenario.steps[n]

SurfaceOf(id) == Surfaces[CHOOSE k \in DOMAIN Surfaces : Surfaces[k].id = id]
Binding == SurfaceOf(Pack.surface).artifact

(* Mutant: the verdict of the last pack that did not pass counts. *)
PackEnds_LastCounts(status) ==
  /\ res' = IF status = "pass" THEN res
            ELSE IF status = "blocked" THEN "blocked" ELSE "fail"
  /\ passed' = IF status = "pass"
               THEN passed \cup UNION {Pack.scenarios[s].reqs : s \in DOMAIN Pack.scenarios}
               ELSE passed
  /\ i' = i + 1 /\ packst' = "pass"

(* Mutant: the status of the pack is the verdict. *)
PackEnds_AsVerdict(status) ==
  /\ res' = IF status = "pass" THEN res ELSE status
  /\ i' = i + 1 /\ packst' = "pass" /\ UNCHANGED passed

(* Execute takes the status of a pack over: a pack that did not pass       *)
(* covers none of its requirements, not even by scenarios that passed.     *)
PackEnds(status) ==
  /\ res' = IF status = "pass" THEN res
            ELSE IF status = "blocked" \/ res = "blocked" THEN "blocked" ELSE "fail"
  /\ passed' = IF status = "pass"
               THEN passed \cup UNION {Pack.scenarios[s].reqs : s \in DOMAIN Pack.scenarios}
               ELSE passed
  /\ i' = i + 1 /\ packst' = "pass"

UnboundPack ==
  /\ pc = "pack" /\ i <= Len(plan.packs) /\ Pack.surface \notin bound
  /\ PackEnds("blocked")
  /\ UNCHANGED <<pc, caller, j, n, bound, ready, plan, st, world, files, exit, runs,
                 faults, outs>>

StartScenario(s) == j' = s /\ n' = 1 /\ st' = NoState

StartPack ==
  /\ pc = "pack" /\ i <= Len(plan.packs) /\ Pack.surface \in bound
  /\ StartScenario(1) /\ Goto("step")
  /\ UNCHANGED <<caller, i, bound, ready, plan, packst, res, passed, world, files, runs,
                 faults, outs>>

(* The pack takes the status of its last scenario that did not pass.       *)
ScenarioEnds(status) ==
  /\ outs' = IF status = "pass" THEN outs \cup {<<i, j>>} ELSE outs
  /\ LET p == IF status = "pass" THEN packst ELSE status IN
     IF j < Len(Pack.scenarios)
     THEN /\ packst' = p /\ StartScenario(j + 1) /\ Goto("step")
          /\ UNCHANGED <<i, res, passed>>
     ELSE PackEnds(p) /\ Goto("pack") /\ UNCHANGED <<j, n, st>>
  /\ UNCHANGED <<caller, bound, ready, plan, world, files, runs>>

NextStep == n' = n + 1 /\ UNCHANGED <<pc, caller, i, j, bound, ready, plan, packst, res,
                                      passed, world, files, exit, runs, faults, outs>>

AtStep == pc = "step" /\ n <= Len(Scenario.steps)

(* A program that cannot be started is one that exits with 1: cli.run      *)
(* itself never fails.                                                     *)
RunProgram ==
  /\ AtStep /\ Step.do = "cli.run"
  /\ st' = [st EXCEPT !.exit = ExitCode(Binding), !.out = Stdout(Binding),
                      !.err = Stderr(Binding)]
  /\ NextStep

Request ==
  /\ AtStep /\ Step.do \in {"http.get", "http.post_json"}
  /\ LET a == Reaches(Binding, Step.at) IN
     IF Step.argc /\ Answers(a)
     THEN /\ st' = [st EXCEPT !.status = HttpStatus(a), !.body = HttpBody(a)]
          /\ NextStep
     ELSE ScenarioEnds("fail") /\ UNCHANGED faults

Contains(text, part) == part \in {"", text}

Expected ==
  /\ Step.argc
  /\ \/ Step.do = "cli.expect_exit_code" /\ st.exit = Step.code
     \/ Step.do = "cli.expect_stdout_contains" /\ Contains(st.out, Step.text)
     \/ Step.do = "cli.expect_stderr_contains" /\ Contains(st.err, Step.text)
     \/ Step.do = "file.exists" /\ Exists(Repo.files[Step.at])
     \/ /\ Step.do = "file.contains"
        /\ Readable(Repo.files[Step.at]) /\ Repo.files[Step.at].hits > 0
     \/ Step.do = "http.expect_status" /\ st.status = Step.code
     \/ /\ Step.do = "http.expect_json_path_equals"
        /\ st.body # "none" /\ st.body = Step.text

(* The other steps change nothing; an action that is not known fails.      *)
Expectation ==
  /\ AtStep /\ Step.do \notin {"cli.run", "http.get", "http.post_json"}
  /\ IF Expected THEN NextStep /\ UNCHANGED st
                 ELSE ScenarioEnds("fail") /\ UNCHANGED faults

(* What the scenario observed is kept in files named after its id alone.   *)
KeepEvidence ==
  /\ pc = "step" /\ n > Len(Scenario.steps)
  /\ \/ ScenarioEnds("pass") /\ UNCHANGED faults
     \/ ScenarioEnds("error") /\ Fault("evidence")

-----------------------------------------------------------------------------
Covers(p) == UNION {p.scenarios[s].reqs : s \in DOMAIN p.scenarios}

(* coverageFor: what the plan requires or, if it names nothing, whatever   *)
(* its scenarios say they are for.                                         *)
Required == IF plan.requires # {} THEN plan.requires
            ELSE UNION {Covers(plan.packs[k]) : k \in DOMAIN plan.packs}

(* Execute after the packs: the checks, whose failure outranks a block,    *)
(* and the coverage.                                                       *)
Conclude ==
  /\ pc = "pack" /\ i > Len(plan.packs)
  /\ IF plan.checks # << >> /\ ~HasVerifier
     THEN Return("error") /\ UNCHANGED res
     ELSE LET checked == IF AllPass(plan.checks, Repo) THEN res ELSE "fail" IN
          /\ res' = IF checked = "pass" /\ ~(Required \subseteq passed)
                    THEN "fail" ELSE checked
          /\ Goto("write")
  /\ UNCHANGED <<caller, i, j, n, bound, ready, plan, st, packst, passed, world, files,
                 runs, faults, outs>>

(* Mutant: what the command is told is that the phase passed. *)
WriteResult_Passing ==
  /\ pc = "write"
  /\ Write("verdict", IF caller = "command" THEN "pass" ELSE res, "result")
  /\ IF caller = "command" THEN Goto("rewrite") ELSE Return("ok")
  /\ UNCHANGED <<local, world, runs, faults, outs>>

(* The package writes its EvalResult; the command then writes evaluation.json *)
(* again, with a summary of its own.                                       *)
WriteResult ==
  /\ \/ /\ pc = "write" /\ Write("verdict", res, "result")
        /\ IF caller = "command" THEN Goto("rewrite") ELSE Return("ok")
     \/ pc = "rewrite" /\ Write("verdict", res, "verdict") /\ Return("ok")
  /\ UNCHANGED <<local, world, runs, faults, outs>>

(* The file that is being written next.                                    *)
Writing == IF pc \in {"write", "rewrite"} THEN "verdict"
           ELSE IF pc = "author" THEN "plan" ELSE "ready"

(* A write that fails ends the phase, but for the second one of the        *)
(* verdict, which nobody looks at.                                         *)
WriteFails ==
  /\ \/ pc = "surface" /\ i > Len(Surfaces)
     \/ pc = "author" /\ HasAgent
     \/ pc \in {"write", "rewrite"}
  /\ Fault("write") /\ WriteLost(Writing)
  /\ Return(IF pc = "rewrite" THEN "ok" ELSE "error")
  /\ UNCHANGED <<local, world, runs, outs>>

-----------------------------------------------------------------------------
(* Something outside changes an artifact.                                  *)
Change(a) ==
  /\ changes < MaxChanges /\ changes' = changes + 1
  /\ \E s \in States \ {state[a]} : state' = [state EXCEPT ![a] = s]
  /\ UNCHANGED <<pc, local, manifest, files, exit, runs, faults, outs>>

(* The process is killed, perhaps while it writes.                         *)
Crash ==
  /\ pc # "idle" /\ Fault("crash") /\ WriteLost(Writing)
  /\ pc' = "idle" /\ UNCHANGED <<local, world, exit, runs, outs>>

Init ==
  /\ pc = "idle" /\ caller = "command" /\ manifest \in Manifests
  /\ state \in [Artifacts -> States]
  /\ i = 1 /\ j = 1 /\ n = 1 /\ bound = {} /\ ready = "pass" /\ plan = NoPlan
  /\ st = NoState /\ packst = "pass" /\ res = "pass" /\ passed = {} /\ outs = {}
  /\ files = [f \in {"ready", "plan", "verdict"} |-> NoDoc]
  /\ exit = "none" /\ runs = 0 /\ changes = 0 /\ faults = 0

ProcessStep ==
  \/ CheckSurface \/ WriteReady
  \/ (\E p \in Plans : Author(p)) \/ AuthorFails
  \/ UnboundPack \/ StartPack \/ RunProgram \/ Request \/ Expectation \/ KeepEvidence
  \/ Conclude \/ WriteResult \/ WriteFails

Next ==
  \/ \E c \in Callers : Evaluate(c)
  \/ ProcessStep
  \/ \E a \in Artifacts : Change(a)
  \/ Crash

Spec == Init /\ [][Next]_vars
-----------------------------------------------------------------------------
(* Harness.runEval, and likewise `dft evaluate inspect': the file counts,  *)
(* whatever the process returned.                                          *)
HarnessVerdict ==
  IF files.verdict.says = "none" THEN "error: file not found"
  ELSE IF files.verdict.says = "torn" THEN "error: invalid json"
  ELSE IF files.verdict.form = "result" THEN "error: missing verdict"
  ELSE files.verdict.says

TypeOK ==
  /\ pc \in {"idle", "surface", "author", "pack", "step", "write", "rewrite"}
  /\ caller \in Callers \cup {"command"} /\ manifest \in Manifests
  /\ state \in [Artifacts -> States]
  /\ i \in Nat \ {0} /\ j \in Nat \ {0} /\ n \in Nat \ {0}
  /\ bound \subseteq {Surfaces[k].id : k \in DOMAIN Surfaces}
  /\ ready \in {"pass", "blocked"} /\ plan \in Plans \cup {NoPlan}
  /\ packst \in {"pass", "fail", "error"} /\ res \in {"pass", "fail", "blocked"}
  /\ \A f \in {"ready", "plan", "verdict"} :
       /\ files[f].by \in 0..runs
       /\ files[f].says \in Status \cup {"none", "torn"}
       /\ files[f].form \in {"none", "result", "verdict"}
  /\ exit \in {"none", "ok", "error"}
  /\ runs \in 0..MaxRuns /\ changes \in 0..MaxChanges /\ faults \in 0..MaxFaults

(* Scenarios run only behind the gate: the process that runs them has      *)
(* itself bound every surface, recorded that nothing blocks, and recorded  *)
(* the plan they are from (orchestrator.go:30-73).                         *)
ScenariosAfterGate ==
  pc \in {"pack", "step"} =>
    /\ files.ready.by = runs /\ files.ready.says = "pass"
    /\ files.plan.by = runs /\ files.plan.says = "pass" /\ PlanValid(plan)
    /\ \A k \in DOMAIN Surfaces : Surfaces[k].id \in bound

AllBound == \A k \in DOMAIN plan.packs : plan.packs[k].surface \in bound
AllPassed ==
  \A k \in DOMAIN plan.packs : \A s \in DOMAIN plan.packs[k].scenarios : <<k, s>> \in outs
PassedPacks ==
  {k \in DOMAIN plan.packs :
     \A s \in DOMAIN plan.packs[k].scenarios : <<k, s>> \in outs}
AllRequired == Required \subseteq UNION {Covers(plan.packs[k]) : k \in PassedPacks}

Concludes == pc = "pack" /\ pc' = "write"

(* The verdict is earned.  It is pass if and only if every pack was bound, *)
(* every scenario passed, every requirement has a scenario that passed in  *)
(* a pack that passed, and every deterministic check holds; and what was   *)
(* not evaluated is not called failed: it is blocked if some pack had no   *)
(* surface, in whatever order the packs came, unless a deterministic check *)
(* did fail (executor.go:70-115).                                          *)
VerdictIsEarned ==
  [][(pc = "pack" /\ pc' = "write") =>
       /\ res' = "pass" <=> /\ AllBound /\ AllPassed /\ AllRequired
                            /\ AllPass(plan.checks, Repo)
       /\ res' = "blocked" <=> ~AllBound /\ AllPass(plan.checks, Repo)]_vars

(* The files tell of the process that returned: one that returned without  *)
(* an error wrote the verdict itself, over readiness of its own, unless    *)
(* its last write was lost; one that failed left no verdict of its own;    *)
(* and the harness is never told of a pass: the verdict it asks for is     *)
(* written by the command alone, which has no agent and so gets no further *)
(* than a gate that blocks (evaluate_command.go:46-75, harness.go:59-78).  *)
FilesAgree ==
  /\ exit = "ok" => /\ files.verdict.by = runs /\ files.ready.by = runs
                    /\ files.verdict.says \in {res, "torn"}
                    /\ files.ready.says = "blocked" => res = "blocked"
  /\ exit = "error" => ~(files.verdict.by = runs /\ files.verdict.says # "torn")
  /\ HarnessVerdict # "pass"

(* docs/user-manual.md:104: `evaluate' runs readiness, the BDD evaluation  *)
(* and the verdict.  A command that meets no fault, on artifacts that are  *)
(* ready, gets to a verdict (evaluate_command.go:46-63).                   *)
CommandReachesVerdict ==
  (exit # "none" /\ caller = "command" /\ faults = 0 /\ manifest # {} /\ ready = "pass")
    => exit = "ok"
=============================================================================
