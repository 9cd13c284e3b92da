--------------------------- MODULE EvalPhaseProofs ---------------------------
(***************************************************************************)
(* Proofs about the evaluation of a run, for every contract, every plan    *)
(* that an agent may author, all callers, every history of processes and   *)
(* of artifacts that change under them, and any number of faults.          *)
(***************************************************************************)
EXTENDS EvalPhase, TLAPS

Names == {"ready", "plan", "verdict"}

(* Variables have their types, and there are three files.                  *)
TypeInv == TypeOK /\ DOMAIN files = Names

(* What the phase has established by the time it is somewhere: readiness   *)
(* is written before anything else is done, only a gate that passed leads  *)
(* further, and packs are executed of a plan that was validated and kept.  *)
GateInv ==
  /\ pc = "surface" =>
       (ready = "pass" => \A k \in DOMAIN Surfaces : k < i => Surfaces[k].id \in bound)
  /\ pc \in {"author", "pack", "step"} =>
       ready = "pass" /\ \A k \in DOMAIN Surfaces : Surfaces[k].id \in bound
  /\ pc \in {"author", "pack", "step", "write", "rewrite"} =>
       files.ready.by = runs /\ files.ready.says = ready
  /\ pc \in {"pack", "step"} =>
       files.plan.by = runs /\ files.plan.says = "pass" /\ PlanValid(plan)

(* The verdict in the file and the one in the process: there is none of    *)
(* this process before it writes, the command has only a blocked one to    *)
(* write, and only the command writes in the format of the harness.        *)
VerdictInv ==
  /\ pc # "idle" => exit = "none"
  /\ pc \in {"surface", "author", "pack", "step", "write"} => files.verdict.by < runs
  /\ pc \in {"pack", "step"} => caller # "command"
  /\ pc \in {"write", "rewrite"} =>
       ((caller = "command" \/ ready = "blocked") => res = "blocked")
  /\ pc = "rewrite" =>
       files.verdict.by = runs /\ files.verdict.says = res /\ caller = "command"
  /\ files.verdict.form = "none" => files.verdict.says \in {"none", "torn"}
  /\ files.verdict.form = "verdict" => files.verdict.says = "blocked"

(* A pack whose scenarios have all passed.                                 *)
Passed(k) == \A s \in DOMAIN plan.packs[k].scenarios : <<k, s>> \in outs

(* The packs so far, as the process counts them.                           *)
CountInv ==
  /\ pc \in {"surface", "author"} =>
       outs = {} /\ passed = {} /\ res = "pass" /\ packst = "pass"
  /\ pc \in {"pack", "step"} =>
       /\ \A o \in outs :
            /\ o[1] \in DOMAIN plan.packs /\ plan.packs[o[1]].surface \in bound
            /\ o[2] \in Nat
            /\ o[1] < i \/ (pc = "step" /\ o[1] = i /\ o[2] < j)
       /\ passed = UNION {Covers(plan.packs[k]) :
                            k \in {l \in DOMAIN plan.packs : l < i /\ Passed(l)}}
       /\ res = "blocked" <=>
            \E k \in DOMAIN plan.packs : k < i /\ plan.packs[k].surface \notin bound
       /\ res = "pass" <=>
            \A k \in DOMAIN plan.packs : k < i => plan.packs[k].surface \in bound /\ Passed(k)
  /\ pc = "pack" => packst = "pass"
  /\ pc = "step" =>
       /\ i \in DOMAIN plan.packs /\ Pack.surface \in bound
       /\ j \in DOMAIN Pack.scenarios
       /\ packst = "pass" <=> \A s \in DOMAIN Pack.scenarios : s < j => <<i, s>> \in outs

-----------------------------------------------------------------------------
(* The lists of a contract and of a plan are finite sequences.             *)
LEMMA Lists ==
  /\ DOMAIN Surfaces = 1..Len(Surfaces) /\ Len(Surfaces) \in Nat
  /\ \A p \in Plans \cup {NoPlan} :
       /\ DOMAIN p.packs = 1..Len(p.packs) /\ Len(p.packs) \in Nat
       /\ \A k \in DOMAIN p.packs :
            /\ DOMAIN p.packs[k].scenarios = 1..Len(p.packs[k].scenarios)
            /\ Len(p.packs[k].scenarios) \in Nat
            /\ p.packs[k].scenarios # << >> => Len(p.packs[k].scenarios) > 0
<1>1. ASSUME NEW s, IsList(s)
      PROVE  DOMAIN s = 1..Len(s) /\ Len(s) \in Nat /\ (s # << >> => Len(s) > 0)
  <2>1. Len(s) \in Nat /\ s = [k \in 1..Len(s) |-> s[k]]
    BY <1>1 DEF IsList
  <2>2. DOMAIN s = 1..Len(s)
    BY <2>1
  <2>3. Len(s) = 0 => s = << >>
    <3>1. SUFFICES ASSUME Len(s) = 0 PROVE s = << >>
      OBVIOUS
    <3>2. s \in [1..0 -> {}]
      BY <2>1, <3>1
    <3>3. QED
      BY <3>2
  <2>4. QED
    BY <2>1, <2>2, <2>3
<1>2. IsList(Surfaces)
  BY EvalAssumption
<1>3. ASSUME NEW p \in Plans
      PROVE  IsList(p.packs) /\ \A k \in DOMAIN p.packs : IsList(p.packs[k].scenarios)
  BY EvalAssumption
<1>4. DOMAIN NoPlan.packs = 1..Len(NoPlan.packs) /\ Len(NoPlan.packs) = 0
  BY DEF NoPlan
<1>5. QED
  BY <1>1, <1>2, <1>3, <1>4

(* Writing one of the files replaces it, and leaves the others alone.      *)
LEMMA Writes ==
  ASSUME DOMAIN files = Names, NEW f \in Names, NEW says, NEW form, Write(f, says, form)
  PROVE  /\ DOMAIN files' = Names
         /\ files'[f].by = runs /\ files'[f].says = says /\ files'[f].form = form
         /\ \A g \in Names \ {f} : files'[g] = files[g]
  BY DEF Write, Doc

(* A write that is lost leaves the file as it was or torn.                 *)
LEMMA LostWrites ==
  ASSUME DOMAIN files = Names, NEW f \in Names, WriteLost(f)
  PROVE  /\ DOMAIN files' = Names
         /\ \/ files' = files
            \/ files'[f].by = runs /\ files'[f].says = "torn" /\ files'[f].form = "none"
         /\ \A g \in Names \ {f} : files'[g] = files[g]
  BY Writes DEF WriteLost

(* What may happen to a process, when it has not been killed.              *)
LEMMA Faults == ASSUME TypeInv, NEW k, Fault(k) PROVE faults' \in 0..MaxFaults
  BY EvalAssumption DEF TypeInv, TypeOK, Fault

(* The end of a pack, and of a scenario, leave the counters and the verdict *)
(* with their types.                                                        *)
Counters ==
  /\ i \in Nat \ {0} /\ j \in Nat \ {0} /\ n \in Nat \ {0}
  /\ packst \in {"pass", "fail", "error"} /\ res \in {"pass", "fail", "blocked"}

LEMMA PackEndsTypes ==
  ASSUME Counters, NEW status, PackEnds(status)
  PROVE  /\ i' \in Nat \ {0}
         /\ packst' \in {"pass", "fail", "error"} /\ res' \in {"pass", "fail", "blocked"}
  BY DEF Counters, PackEnds

LEMMA ScenarioEndsTypes ==
  ASSUME Counters, NEW status \in {"pass", "fail", "error"}, ScenarioEnds(status)
  PROVE  Counters' /\ pc' \in {"step", "pack"} /\ exit' = exit
<1>1. CASE j < Len(Pack.scenarios)
  <2>1. packst' \in {"pass", "fail", "error"} /\ i' = i /\ res' = res
    BY <1>1 DEF ScenarioEnds, Counters
  <2>2. j' = j + 1 /\ n' = 1 /\ pc' = "step" /\ exit' = exit
    BY <1>1 DEF ScenarioEnds, StartScenario, Goto
  <2>3. QED
    BY <2>1, <2>2 DEF Counters
<1>2. CASE ~(j < Len(Pack.scenarios))
  <2>1. PackEnds(IF status = "pass" THEN packst ELSE status)
    BY <1>2 DEF ScenarioEnds
  <2>2. j' = j /\ n' = n /\ pc' = "pack" /\ exit' = exit
    BY <1>2 DEF ScenarioEnds, Goto
  <2>3. QED
    BY <2>1, <2>2, PackEndsTypes DEF Counters
<1>3. QED
  BY <1>1, <1>2

(* The part of the state that is not about packs and files.                *)
Rest ==
  /\ pc \in {"idle", "surface", "author", "pack", "step", "write", "rewrite"}
  /\ caller \in Callers \cup {"command"} /\ manifest \in Manifests
  /\ state \in [Artifacts -> States]
  /\ bound \subseteq {Surfaces[k].id : k \in DOMAIN Surfaces}
  /\ ready \in {"pass", "blocked"} /\ plan \in Plans \cup {NoPlan}
  /\ exit \in {"none", "ok", "error"}
  /\ runs \in 0..MaxRuns /\ changes \in 0..MaxChanges /\ faults \in 0..MaxFaults

FilesInv ==
  /\ DOMAIN files = Names
  /\ \A f \in Names :
       /\ files[f].by \in 0..runs
       /\ files[f].says \in Status \cup {"none", "torn"}
       /\ files[f].form \in {"none", "result", "verdict"}

LEMMA TypeParts == TypeInv <=> Counters /\ Rest /\ FilesInv
  BY DEF TypeInv, TypeOK, Counters, Rest, FilesInv, Names

(* Counters are counted up from one.                                       *)
LEMMA CountersStep == TypeInv /\ [Next]_vars => Counters'
<1> SUFFICES ASSUME TypeInv, [Next]_vars PROVE Counters'
  OBVIOUS
<1>t. Counters /\ Rest
  BY TypeParts
<1> USE <1>t
<1>1. ASSUME NEW c \in Callers, Evaluate(c) PROVE Counters'
  BY <1>1 DEF Evaluate, Counters
<1>2. CASE CheckSurface
  BY <1>2 DEF CheckSurface, Counters
<1>3. CASE WriteReady
  BY <1>3 DEF WriteReady, Counters
<1>4. ASSUME NEW p \in Plans, Author(p) PROVE Counters'
  BY <1>4 DEF Author, Counters
<1>5. CASE AuthorFails
  BY <1>5 DEF AuthorFails, local, Counters
<1>6. CASE UnboundPack
  BY <1>6, PackEndsTypes DEF UnboundPack, Counters
<1>7. CASE StartPack
  BY <1>7 DEF StartPack, StartScenario, Counters
<1>8. CASE RunProgram
  BY <1>8 DEF RunProgram, NextStep, Counters
<1>9. CASE Request
  BY <1>9, ScenarioEndsTypes DEF Request, NextStep, Counters
<1>10. CASE Expectation
  BY <1>10, ScenarioEndsTypes DEF Expectation, NextStep, Counters
<1>11. CASE KeepEvidence
  BY <1>11, ScenarioEndsTypes DEF KeepEvidence
<1>12. CASE Conclude
  BY <1>12 DEF Conclude, Counters
<1>13. CASE WriteResult
  BY <1>13 DEF WriteResult, local, Counters
<1>14. CASE WriteFails
  BY <1>14 DEF WriteFails, local, Counters
<1>15. ASSUME NEW a \in Artifacts, Change(a) PROVE Counters'
  BY <1>15 DEF Change, local, Counters
<1>16. CASE Crash
  BY <1>16 DEF Crash, local, Counters
<1>17. CASE UNCHANGED vars
  BY <1>17 DEF vars, local, Counters
<1>18. QED
  BY <1>1, <1>2, <1>3, <1>4, <1>5, <1>6, <1>7, <1>8, <1>9, <1>10, <1>11, <1>12, <1>13,
     <1>14, <1>15, <1>16, <1>17 DEF Next, ProcessStep

(* What the scenarios leave alone.                                         *)
LEMMA ScenarioKeeps ==
  ASSUME NEW status, ScenarioEnds(status)
  PROVE  UNCHANGED <<caller, bound, ready, plan, world, files, runs>>
  BY DEF ScenarioEnds

LEMMA RestStep == TypeInv /\ [Next]_vars => Rest'
<1> SUFFICES ASSUME TypeInv, [Next]_vars PROVE Rest'
  OBVIOUS
<1>t. Counters /\ Rest
  BY TypeParts
<1> USE <1>t
<1>1. ASSUME NEW c \in Callers, Evaluate(c) PROVE Rest'
  BY <1>1, EvalAssumption DEF Evaluate, Return, world, Rest
<1>2. CASE CheckSurface
  <2>1. i \in DOMAIN Surfaces
    BY <1>2, Lists DEF CheckSurface, Counters
  <2>2. bound' \subseteq {Surfaces[k].id : k \in DOMAIN Surfaces}
    BY <1>2, <2>1 DEF CheckSurface, Rest
  <2>3. QED
    BY <1>2, <2>2 DEF CheckSurface, world, Rest
<1>3. CASE WriteReady
  BY <1>3 DEF WriteReady, Goto, world, Rest
<1>4. ASSUME NEW p \in Plans, Author(p) PROVE Rest'
  BY <1>4 DEF Author, Goto, world, Rest
<1>5. CASE AuthorFails
  BY <1>5, Faults DEF AuthorFails, Return, local, world, Rest
<1>6. CASE UnboundPack
  BY <1>6 DEF UnboundPack, world, Rest
<1>7. CASE StartPack
  BY <1>7 DEF StartPack, Goto, world, Rest
<1>8. CASE RunProgram
  BY <1>8 DEF RunProgram, NextStep, world, Rest
<1>s. ASSUME NEW status \in {"pass", "fail", "error"}, ScenarioEnds(status),
             faults' \in 0..MaxFaults
      PROVE  Rest'
  BY <1>s, ScenarioEndsTypes, ScenarioKeeps DEF world, Rest
<1>9. CASE Request
  <2>1. CASE NextStep
    BY <2>1 DEF NextStep, world, Rest
  <2>2. CASE ScenarioEnds("fail") /\ UNCHANGED faults
    BY <2>2, <1>s DEF Rest
  <2>3. QED
    BY <1>9, <2>1, <2>2 DEF Request
<1>10. CASE Expectation
  <2>1. CASE NextStep
    BY <2>1 DEF NextStep, world, Rest
  <2>2. CASE ScenarioEnds("fail") /\ UNCHANGED faults
    BY <2>2, <1>s DEF Rest
  <2>3. QED
    BY <1>10, <2>1, <2>2 DEF Expectation
<1>11. CASE KeepEvidence
  BY <1>11, <1>s, Faults DEF KeepEvidence, Rest
<1>12. CASE Conclude
  BY <1>12 DEF Conclude, Return, Goto, world, Rest
<1>13. CASE WriteResult
  BY <1>13 DEF WriteResult, Return, Goto, local, world, Rest
<1>14. CASE WriteFails
  BY <1>14, Faults DEF WriteFails, Return, local, world, Rest
<1>15. ASSUME NEW a \in Artifacts, Change(a) PROVE Rest'
  BY <1>15, EvalAssumption DEF Change, local, Rest
<1>16. CASE Crash
  BY <1>16, Faults DEF Crash, local, world, Rest
<1>17. CASE UNCHANGED vars
  BY <1>17 DEF vars, local, world, Rest
<1>18. QED
  BY <1>1, <1>2, <1>3, <1>4, <1>5, <1>6, <1>7, <1>8, <1>9, <1>10, <1>11, <1>12, <1>13,
     <1>14, <1>15, <1>16, <1>17 DEF Next, ProcessStep

(* The files in .dft/runs are written by no other action than these.       *)
LEMMA FilesStep == TypeInv /\ [Next]_vars => FilesInv'
<1> SUFFICES ASSUME TypeInv, [Next]_vars PROVE FilesInv'
  OBVIOUS
<1>t. Counters /\ Rest /\ FilesInv
  BY TypeParts
<1>r. runs \in Nat /\ runs \in 0..runs
  BY <1>t, EvalAssumption DEF Rest
<1>f. ASSUME UNCHANGED <<files, runs>> PROVE FilesInv'
  BY <1>t, <1>f DEF FilesInv
<1>w. ASSUME NEW f \in Names, NEW s \in Status \cup {"none", "torn"},
             NEW m \in {"none", "result", "verdict"}, Write(f, s, m), UNCHANGED runs
      PROVE  FilesInv'
  BY <1>t, <1>r, <1>w, Writes DEF FilesInv
<1>l. ASSUME WriteLost(Writing), UNCHANGED runs PROVE FilesInv'
  <2>1. Writing \in Names
    BY DEF Writing, Names
  <2>2. CASE UNCHANGED files
    BY <1>l, <2>2, <1>f
  <2>3. CASE Write(Writing, "torn", "none")
    BY <1>l, <2>1, <2>3, <1>w DEF Status
  <2>4. QED
    BY <1>l, <2>2, <2>3 DEF WriteLost
<1>1. ASSUME NEW c \in Callers, Evaluate(c) PROVE FilesInv'
  <2>1. runs' = runs + 1 /\ files' = files
    BY <1>1 DEF Evaluate
  <2>2. 0..runs \subseteq 0..(runs + 1)
    BY <1>r
  <2>3. QED
    BY <1>t, <2>1, <2>2 DEF FilesInv
<1>2. CASE CheckSurface
  BY <1>2, <1>f DEF CheckSurface
<1>3. CASE WriteReady
  <2>1. Write("ready", ready, "none") /\ UNCHANGED runs /\ ready \in {"pass", "blocked"}
    BY <1>3, <1>t DEF WriteReady, Rest
  <2>2. QED
    BY <2>1, <1>w DEF Names, Status
<1>4. ASSUME NEW p \in Plans, Author(p) PROVE FilesInv'
  BY <1>4, <1>w DEF Author, Names, Status
<1>5. CASE AuthorFails
  BY <1>5, <1>f DEF AuthorFails
<1>6. CASE UnboundPack
  BY <1>6, <1>f DEF UnboundPack
<1>7. CASE StartPack
  BY <1>7, <1>f DEF StartPack
<1>8. CASE RunProgram
  BY <1>8, <1>f DEF RunProgram, NextStep
<1>9. CASE Request
  BY <1>9, <1>f, ScenarioKeeps DEF Request, NextStep
<1>10. CASE Expectation
  BY <1>10, <1>f, ScenarioKeeps DEF Expectation, NextStep
<1>11. CASE KeepEvidence
  BY <1>11, <1>f, ScenarioKeeps DEF KeepEvidence
<1>12. CASE Conclude
  BY <1>12, <1>f DEF Conclude
<1>13. CASE WriteResult
  <2>1. res \in Status
    BY <1>t DEF Counters, Status
  <2>2. QED
    BY <1>13, <2>1, <1>w DEF WriteResult, Names
<1>14. CASE WriteFails
  BY <1>14, <1>l DEF WriteFails
<1>15. ASSUME NEW a \in Artifacts, Change(a) PROVE FilesInv'
  BY <1>15, <1>f DEF Change
<1>16. CASE Crash
  BY <1>16, <1>l DEF Crash
<1>17. CASE UNCHANGED vars
  BY <1>17, <1>f DEF vars
<1>18. QED
  BY <1>1, <1>2, <1>3, <1>4, <1>5, <1>6, <1>7, <1>8, <1>9, <1>10, <1>11, <1>12, <1>13,
     <1>14, <1>15, <1>16, <1>17 DEF Next, ProcessStep

(* Every variable keeps its type.                                          *)
LEMMA TypeStep == TypeInv /\ [Next]_vars => TypeInv'
<1>1. Counters' /\ Rest' /\ FilesInv' => TypeInv'
  BY DEF TypeInv, TypeOK, Counters, Rest, FilesInv, Names
<1>2. QED
  BY <1>1, CountersStep, RestStep, FilesStep

LEMMA TypeInit == Init => TypeInv
<1> SUFFICES ASSUME Init PROVE TypeInv
  OBVIOUS
<1>1. Counters
  BY DEF Init, Counters
<1>2. Rest
  BY EvalAssumption DEF Init, Rest
<1>3. FilesInv
  BY DEF Init, FilesInv, Names, NoDoc
<1>4. QED
  BY <1>1, <1>2, <1>3, TypeParts

(* Every variable keeps its type, whatever the callers and the agents do   *)
(* and whatever is lost (orchestrator.go, executor.go, readiness.go).      *)
THEOREM EvalTypeCorrect == Spec => []TypeOK
<1>1. TypeInv => TypeOK
  BY DEF TypeInv
<1>2. QED
  BY TypeInit, TypeStep, <1>1, PTL DEF Spec

-----------------------------------------------------------------------------
(* The gate is behind everything that follows it: the processes that are   *)
(* further have written their readiness, and bound every surface.          *)
LEMMA GateStep == TypeInv /\ GateInv /\ [Next]_vars => GateInv'
<1> SUFFICES ASSUME TypeInv, GateInv, [Next]_vars PROVE GateInv'
  OBVIOUS
<1>t. Counters /\ Rest /\ FilesInv
  BY TypeParts
<1>d. DOMAIN files = Names /\ "ready" \in Names /\ "plan" \in Names /\ "verdict" \in Names
  BY <1>t DEF FilesInv, Names
<1>s. ASSUME UNCHANGED <<bound, ready, plan, runs, files>>, pc \in {"pack", "step"},
             pc' \in {"pack", "step", "write", "idle"}
      PROVE  GateInv'
  BY <1>s DEF GateInv
<1>i. ASSUME pc' = "idle" PROVE GateInv'
  BY <1>i DEF GateInv
<1>e. ASSUME NEW status \in {"pass", "fail", "error"}, ScenarioEnds(status), pc = "step"
      PROVE  GateInv'
  BY <1>e, <1>t, <1>s, ScenarioKeeps, ScenarioEndsTypes
<1>1. ASSUME NEW c \in Callers, Evaluate(c) PROVE GateInv'
  <2>1. pc' \in {"idle", "surface"} /\ i' = 1
    BY <1>1 DEF Evaluate, Return
  <2>2. \A k \in DOMAIN Surfaces : ~(k < i')
    BY <2>1, Lists
  <2>3. QED
    BY <2>1, <2>2 DEF GateInv
<1>2. CASE CheckSurface
  <2>1. /\ pc = "surface" /\ pc' = "surface" /\ i \in Nat /\ i' = i + 1
        /\ i \in DOMAIN Surfaces
    BY <1>2, <1>t, Lists DEF CheckSurface, Counters
  <2>2. ready' = "pass" =>
          ready = "pass" /\ Surfaces[i].id \in bound' /\ bound \subseteq bound'
    BY <1>2, <1>t DEF CheckSurface, Rest
  <2>3. \A k \in DOMAIN Surfaces : k < i' => k < i \/ k = i
    BY <2>1, Lists
  <2>4. QED
    BY <2>1, <2>2, <2>3 DEF GateInv
<1>3. CASE WriteReady
  <2>1. /\ pc = "surface" /\ UNCHANGED <<bound, ready, runs>>
        /\ pc' = IF ready = "blocked" THEN "write" ELSE "author"
    BY <1>3 DEF WriteReady, Goto
  <2>2. files'["ready"].by = runs /\ files'["ready"].says = ready
    BY <1>3, <1>d, Writes DEF WriteReady
  <2>3. \A k \in DOMAIN Surfaces : k < i
    BY <1>3, <1>t, Lists DEF WriteReady, Counters
  <2>4. QED
    BY <2>1, <2>2, <2>3, <1>t DEF GateInv, Rest
<1>4. ASSUME NEW p \in Plans, Author(p) PROVE GateInv'
  <2>1. /\ pc = "author" /\ pc' = "pack" /\ UNCHANGED <<bound, ready, runs>>
        /\ plan' = p /\ PlanValid(p)
    BY <1>4 DEF Author, Goto
  <2>2. /\ files'["plan"].by = runs /\ files'["plan"].says = "pass"
        /\ files'["ready"] = files["ready"]
    BY <1>4, <1>d, Writes DEF Author
  <2>3. PlanValid(plan')
    BY <2>1
  <2>4. QED
    BY <2>1, <2>2, <2>3 DEF GateInv
<1>5. CASE AuthorFails
  BY <1>5, <1>i DEF AuthorFails, Return
<1>6. CASE UnboundPack
  BY <1>6, <1>s DEF UnboundPack
<1>7. CASE StartPack
  BY <1>7, <1>s DEF StartPack, Goto
<1>8. CASE RunProgram
  BY <1>8, <1>s DEF RunProgram, NextStep, AtStep
<1>9. CASE Request
  BY <1>9, <1>s, <1>e DEF Request, NextStep, AtStep
<1>10. CASE Expectation
  BY <1>10, <1>s, <1>e DEF Expectation, NextStep, AtStep
<1>11. CASE KeepEvidence
  BY <1>11, <1>e DEF KeepEvidence
<1>12. CASE Conclude
  <2>1. /\ pc = "pack" /\ UNCHANGED <<bound, ready, plan, runs, files>>
        /\ pc' \in {"write", "idle"}
    BY <1>12 DEF Conclude, Return, Goto
  <2>2. QED
    BY <2>1, <1>s
<1>13. CASE WriteResult
  <2>1. pc \in {"write", "rewrite"} /\ pc' \in {"rewrite", "idle"} /\ UNCHANGED <<ready, runs>>
    BY <1>13 DEF WriteResult, Goto, Return, local
  <2>2. files'["ready"] = files["ready"]
    BY <1>13, <1>d, Writes DEF WriteResult
  <2>3. QED
    BY <2>1, <2>2 DEF GateInv
<1>14. CASE WriteFails
  BY <1>14, <1>i DEF WriteFails, Return
<1>15. ASSUME NEW a \in Artifacts, Change(a) PROVE GateInv'
  BY <1>15 DEF Change, local, GateInv
<1>16. CASE Crash
  BY <1>16, <1>i DEF Crash
<1>17. CASE UNCHANGED vars
  BY <1>17 DEF vars, local, GateInv
<1>18. QED
  BY <1>1, <1>2, <1>3, <1>4, <1>5, <1>6, <1>7, <1>8, <1>9, <1>10, <1>11, <1>12, <1>13,
     <1>14, <1>15, <1>16, <1>17 DEF Next, ProcessStep

(* Scenarios run only behind the gate of the same process, and of a plan   *)
(* that it has kept (orchestrator.go:30-73).                               *)
THEOREM GateSafe == Spec => []ScenariosAfterGate
<1>1. Init => TypeInv /\ GateInv
  BY TypeInit DEF Init, GateInv
<1>2. TypeInv /\ GateInv /\ [Next]_vars => TypeInv' /\ GateInv'
  BY TypeStep, GateStep
<1>3. TypeInv /\ GateInv => ScenariosAfterGate
  BY DEF TypeInv, GateInv, ScenariosAfterGate
<1>4. QED
  BY <1>1, <1>2, <1>3, PTL DEF Spec

-----------------------------------------------------------------------------
(* What the process and the harness are told.                              *)
ToldInv == VerdictInv /\ FilesAgree

LEMMA ToldStep == TypeInv /\ GateInv /\ ToldInv /\ [Next]_vars => ToldInv'
<1> SUFFICES ASSUME TypeInv, GateInv, ToldInv, [Next]_vars PROVE ToldInv'
  OBVIOUS
<1>t. Counters /\ Rest /\ FilesInv
  BY TypeParts
<1>d. /\ DOMAIN files = Names /\ "ready" \in Names /\ "plan" \in Names /\ "verdict" \in Names
      /\ runs \in Nat /\ files["verdict"].by \in 0..runs
  BY <1>t, EvalAssumption DEF FilesInv, Names, Rest
(* A step that leaves the verdict alone and does not return.               *)
<1>s. ASSUME UNCHANGED <<caller, ready, runs, exit>>, files'["verdict"] = files["verdict"],
             pc \in {"surface", "author", "pack", "step"},
             pc' \in {"author", "pack", "step", "write"} \cup {pc},
             pc' \in {"pack", "step"} => caller # "command",
             pc' = "write" => ((caller = "command" \/ ready = "blocked") => res' = "blocked")
      PROVE  ToldInv'
  <2>1. VerdictInv'
    BY <1>s DEF ToldInv, VerdictInv
  <2>2. exit' = "none"
    BY <1>s DEF ToldInv, VerdictInv
  <2>3. HarnessVerdict' # "pass"
    BY <1>s DEF ToldInv, FilesAgree, HarnessVerdict
  <2>4. QED
    BY <2>1, <2>2, <2>3 DEF ToldInv, FilesAgree
(* The process fails before it has a verdict.                              *)
<1>x. ASSUME UNCHANGED runs, files'["verdict"] = files["verdict"], pc' = "idle",
             exit' = "error", files["verdict"].by < runs
      PROVE  ToldInv'
  <2>1. VerdictInv'
    BY <1>x DEF ToldInv, VerdictInv
  <2>2. HarnessVerdict' # "pass"
    BY <1>x DEF ToldInv, FilesAgree, HarnessVerdict
  <2>3. ~(files'["verdict"].by = runs')
    BY <1>x, <1>d
  <2>4. QED
    BY <1>x, <2>1, <2>2, <2>3 DEF ToldInv, FilesAgree
<1>p. ASSUME pc \in {"pack", "step"}, UNCHANGED <<caller, ready, runs, exit, files>>,
             pc' \in {"pack", "step"}
      PROVE  ToldInv'
  BY <1>p, <1>s DEF ToldInv, VerdictInv
<1>e. ASSUME NEW status \in {"pass", "fail", "error"}, ScenarioEnds(status), pc = "step"
      PROVE  ToldInv'
  BY <1>e, <1>t, <1>p, ScenarioKeeps, ScenarioEndsTypes
<1>1. ASSUME NEW c \in Callers, Evaluate(c) PROVE ToldInv'
  <2>1. /\ pc' \in {"idle", "surface"} /\ files' = files /\ runs' = runs + 1
        /\ exit' = IF pc' = "idle" THEN "error" ELSE "none"
    BY <1>1 DEF Evaluate, Return
  <2>2. files'["verdict"].by < runs'
    BY <2>1, <1>d
  <2>3. VerdictInv'
    BY <2>1, <2>2 DEF ToldInv, VerdictInv
  <2>4. HarnessVerdict' # "pass"
    BY <2>1 DEF ToldInv, FilesAgree, HarnessVerdict
  <2>5. ~(files'["verdict"].by = runs')
    BY <2>2, <2>1, <1>d
  <2>6. QED
    BY <2>1, <2>3, <2>4, <2>5 DEF ToldInv, FilesAgree
<1>2. CASE CheckSurface
  <2>1. /\ pc = "surface" /\ pc' = "surface" /\ UNCHANGED <<caller, runs, exit, files>>
    BY <1>2 DEF CheckSurface
  <2>2. VerdictInv'
    BY <2>1 DEF ToldInv, VerdictInv
  <2>3. HarnessVerdict' # "pass" /\ exit' = "none"
    BY <2>1 DEF ToldInv, FilesAgree, HarnessVerdict, VerdictInv
  <2>4. QED
    BY <2>2, <2>3 DEF ToldInv, FilesAgree
<1>3. CASE WriteReady
  <2>1. /\ pc = "surface" /\ UNCHANGED <<caller, ready, runs, exit>>
        /\ IF ready = "blocked" THEN res' = "blocked" /\ pc' = "write" ELSE pc' = "author"
    BY <1>3 DEF WriteReady, Goto
  <2>2. files'["verdict"] = files["verdict"]
    BY <1>3, <1>d, Writes DEF WriteReady
  <2>3. QED
    BY <2>1, <2>2, <1>s
<1>4. ASSUME NEW p \in Plans, Author(p) PROVE ToldInv'
  <2>1. /\ pc = "author" /\ pc' = "pack" /\ UNCHANGED <<caller, ready, runs, exit>>
        /\ caller # "command"
    BY <1>4 DEF Author, Goto, HasAgent
  <2>2. files'["verdict"] = files["verdict"]
    BY <1>4, <1>d, Writes DEF Author
  <2>3. QED
    BY <2>1, <2>2, <1>s
<1>5. CASE AuthorFails
  <2>1. files["verdict"].by < runs
    BY <1>5 DEF AuthorFails, ToldInv, VerdictInv
  <2>2. QED
    BY <1>5, <2>1, <1>x DEF AuthorFails, Return
<1>6. CASE UnboundPack
  BY <1>6, <1>p DEF UnboundPack
<1>7. CASE StartPack
  BY <1>7, <1>p DEF StartPack, Goto
<1>8. CASE RunProgram
  BY <1>8, <1>p DEF RunProgram, NextStep, AtStep
<1>9. CASE Request
  BY <1>9, <1>p, <1>e DEF Request, NextStep, AtStep
<1>10. CASE Expectation
  BY <1>10, <1>p, <1>e DEF Expectation, NextStep, AtStep
<1>11. CASE KeepEvidence
  BY <1>11, <1>e DEF KeepEvidence
<1>12. CASE Conclude
  <2>1. pc = "pack" /\ UNCHANGED <<caller, ready, runs, files>>
    BY <1>12 DEF Conclude
  <2>2. caller # "command" /\ ready # "blocked" /\ files["verdict"].by < runs
    BY <2>1 DEF ToldInv, VerdictInv, GateInv
  <2>3. CASE plan.checks # << >> /\ ~HasVerifier
    BY <1>12, <2>1, <2>2, <2>3, <1>x DEF Conclude, Return
  <2>4. CASE ~(plan.checks # << >> /\ ~HasVerifier)
    <3>1. pc' = "write" /\ exit' = exit
      BY <1>12, <2>4 DEF Conclude, Goto
    <3>2. QED
      BY <2>1, <2>2, <3>1, <1>s
  <2>5. QED
    BY <2>3, <2>4
<1>13. CASE WriteResult
  <2>1. UNCHANGED <<caller, ready, res, runs>>
    BY <1>13 DEF WriteResult, local
  <2>2. /\ files'["verdict"].by = runs /\ files'["verdict"].says = res
        /\ files'["ready"] = files["ready"]
        /\ pc = "write" => files'["verdict"].form = "result"
        /\ pc = "rewrite" => files'["verdict"].form = "verdict"
    BY <1>13, <1>d, Writes DEF WriteResult
  <2>3. /\ pc = "write" => IF caller = "command" THEN pc' = "rewrite" /\ exit' = exit
                                                 ELSE pc' = "idle" /\ exit' = "ok"
        /\ pc = "rewrite" => pc' = "idle" /\ exit' = "ok"
        /\ pc \in {"write", "rewrite"}
    BY <1>13 DEF WriteResult, Goto, Return
  <2>4. /\ files["ready"].by = runs /\ files["ready"].says = ready
        /\ ready = "blocked" => res = "blocked"
        /\ pc = "rewrite" => res = "blocked"
        /\ caller = "command" => res = "blocked"
        /\ exit = "none"
    BY <2>3 DEF GateInv, ToldInv, VerdictInv
  <2>5. VerdictInv'
    BY <2>1, <2>2, <2>3, <2>4 DEF VerdictInv
  <2>6. HarnessVerdict' # "pass"
    BY <2>2, <2>3, <2>4, <1>t DEF HarnessVerdict
  <2>7. QED
    BY <2>1, <2>2, <2>3, <2>4, <2>5, <2>6 DEF ToldInv, FilesAgree
<1>14. CASE WriteFails
  <2>1. /\ UNCHANGED <<caller, ready, res, runs>> /\ pc' = "idle"
        /\ exit' = IF pc = "rewrite" THEN "ok" ELSE "error"
    BY <1>14 DEF WriteFails, Return, local
  <2>2. CASE pc \in {"surface", "author"}
    <3>1. Writing \in Names \ {"verdict"}
      BY <2>2 DEF Writing, Names
    <3>2. files'["verdict"] = files["verdict"]
      BY <1>14, <1>d, <3>1, LostWrites DEF WriteFails
    <3>3. files["verdict"].by < runs
      BY <2>2 DEF ToldInv, VerdictInv
    <3>4. QED
      BY <2>1, <2>2, <3>2, <3>3, <1>x
  <2>3. CASE pc \in {"write", "rewrite"}
    <3>1. Writing = "verdict"
      BY <2>3 DEF Writing
    <3>2. /\ \/ files' = files
             \/ /\ files'["verdict"].by = runs /\ files'["verdict"].says = "torn"
                /\ files'["verdict"].form = "none"
          /\ files'["ready"] = files["ready"]
      BY <1>14, <1>d, <3>1, LostWrites DEF WriteFails
    <3>3. VerdictInv'
      BY <2>1, <3>2 DEF ToldInv, VerdictInv
    <3>4. HarnessVerdict' # "pass"
      BY <3>2 DEF HarnessVerdict, ToldInv, FilesAgree
    <3>5. exit' = "ok" =>
            /\ files'["verdict"].by = runs' /\ files'["ready"].by = runs'
            /\ files'["verdict"].says \in {res', "torn"}
            /\ files'["ready"].says = "blocked" => res' = "blocked"
      BY <2>1, <3>2 DEF GateInv, ToldInv, VerdictInv
    <3>6. exit' = "error" => ~(files'["verdict"].by = runs' /\ files'["verdict"].says # "torn")
      <4>1. pc = "write" => files["verdict"].by # runs
        BY <1>d DEF ToldInv, VerdictInv
      <4>2. QED
        BY <2>1, <2>3, <3>2, <4>1
    <3>7. QED
      BY <3>3, <3>4, <3>5, <3>6 DEF ToldInv, FilesAgree
  <2>4. QED
    BY <1>14, <2>2, <2>3 DEF WriteFails
<1>15. ASSUME NEW a \in Artifacts, Change(a) PROVE ToldInv'
  BY <1>15 DEF Change, local, ToldInv, VerdictInv, FilesAgree, HarnessVerdict
<1>16. CASE Crash
  <2>1. /\ pc' = "idle" /\ UNCHANGED <<runs, exit>> /\ exit = "none"
    BY <1>16 DEF Crash, ToldInv, VerdictInv
  <2>2. Writing \in Names
    BY DEF Writing, Names
  <2>3. \/ files'["verdict"] = files["verdict"]
        \/ files'["verdict"].says = "torn" /\ files'["verdict"].form = "none"
    BY <1>16, <1>d, <2>2, LostWrites DEF Crash
  <2>4. VerdictInv'
    BY <2>1, <2>3 DEF ToldInv, VerdictInv
  <2>5. HarnessVerdict' # "pass"
    BY <2>3 DEF HarnessVerdict, ToldInv, FilesAgree
  <2>6. QED
    BY <2>1, <2>4, <2>5 DEF ToldInv, FilesAgree
<1>17. CASE UNCHANGED vars
  BY <1>17 DEF vars, local, ToldInv, VerdictInv, FilesAgree, HarnessVerdict
<1>18. QED
  BY <1>1, <1>2, <1>3, <1>4, <1>5, <1>6, <1>7, <1>8, <1>9, <1>10, <1>11, <1>12, <1>13,
     <1>14, <1>15, <1>16, <1>17 DEF Next, ProcessStep

(* What the files say is what the process found that returned, and the    *)
(* harness is never told of a pass (evaluate_command.go:46-75,             *)
(* orchestrator.go:39-73, harness.go:59-78).                               *)
THEOREM FilesSafe == Spec => []FilesAgree
<1>1. Init => TypeInv /\ GateInv /\ ToldInv
  <2>1. Init => VerdictInv /\ FilesAgree
    BY DEF Init, VerdictInv, FilesAgree, HarnessVerdict, NoDoc
  <2>2. QED
    BY <2>1, TypeInit DEF Init, GateInv, ToldInv
<1>2. TypeInv /\ GateInv /\ ToldInv /\ [Next]_vars => TypeInv' /\ GateInv' /\ ToldInv'
  BY TypeStep, GateStep, ToldStep
<1>3. ToldInv => FilesAgree
  BY DEF ToldInv
<1>4. QED
  BY <1>1, <1>2, <1>3, PTL DEF Spec

-----------------------------------------------------------------------------
(* The packs, as the process counts them.  A process that is among the     *)
(* packs has a plan that is a list of lists, none of them empty.           *)
Among == TypeInv /\ GateInv /\ CountInv

LEMMA PlanFacts ==
  ASSUME TypeInv, GateInv, pc \in {"pack", "step"}
  PROVE  /\ i \in Nat /\ j \in Nat
         /\ DOMAIN plan.packs = 1..Len(plan.packs) /\ Len(plan.packs) \in Nat
         /\ \A k \in DOMAIN plan.packs :
              /\ DOMAIN plan.packs[k].scenarios = 1..Len(plan.packs[k].scenarios)
              /\ Len(plan.packs[k].scenarios) \in Nat /\ Len(plan.packs[k].scenarios) > 0
<1>1. i \in Nat /\ j \in Nat /\ plan \in Plans \cup {NoPlan} /\ PlanValid(plan)
  BY DEF TypeInv, TypeOK, GateInv
<1>2. \A k \in DOMAIN plan.packs : plan.packs[k].scenarios # << >>
  BY <1>1 DEF PlanValid
<1>3. QED
  BY <1>1, <1>2, Lists

(* The packs before the n-th, as they count in the coverage.               *)
PassedBefore(m) == {l \in DOMAIN plan.packs : l < m /\ Passed(l)}

Tally ==
  /\ \A o \in outs :
       o[1] \in DOMAIN plan.packs /\ plan.packs[o[1]].surface \in bound /\ o[2] \in Nat
  /\ passed = UNION {Covers(plan.packs[k]) : k \in PassedBefore(i)}
  /\ res = "blocked" <=>
       \E k \in DOMAIN plan.packs : k < i /\ plan.packs[k].surface \notin bound
  /\ res = "pass" <=>
       \A k \in DOMAIN plan.packs : k < i => plan.packs[k].surface \in bound /\ Passed(k)

LEMMA CountParts ==
  /\ CountInv /\ pc \in {"pack", "step"} => Tally
  /\ pc \in {"pack", "step"} =>
       (CountInv <=>
          /\ Tally
          /\ \A o \in outs : o[1] < i \/ (pc = "step" /\ o[1] = i /\ o[2] < j)
          /\ pc = "pack" => packst = "pass"
          /\ pc = "step" =>
               /\ i \in DOMAIN plan.packs /\ Pack.surface \in bound
               /\ j \in DOMAIN Pack.scenarios
               /\ packst = "pass" <=>
                    \A s \in DOMAIN Pack.scenarios : s < j => <<i, s>> \in outs)
  BY DEF CountInv, Tally, PassedBefore

(* The end of the i-th pack counts it for what it was.                     *)
LEMMA PackCounts ==
  ASSUME Among, pc \in {"pack", "step"}, i \in DOMAIN plan.packs,
         NEW status, PackEnds(status), UNCHANGED <<plan, bound>>,
         NEW new \in SUBSET {<<i, j>>}, outs' = outs \cup new,
         new # {} => Pack.surface \in bound,
         status = "pass" <=> \A s \in DOMAIN Pack.scenarios : <<i, s>> \in outs',
         status = "blocked" <=> Pack.surface \notin bound
  PROVE  Tally'
<1> DEFINE D == DOMAIN plan.packs
           Bnd(k) == plan.packs[k].surface \in bound
<1>1. Tally /\ i \in Nat /\ j \in Nat /\ D = 1..Len(plan.packs)
  BY PlanFacts, CountParts DEF Among
<1>2. i' = i + 1 /\ UNCHANGED <<plan, bound>>
  BY DEF PackEnds
<1>3. \A k \in D \ {i} : Passed(k)' <=> Passed(k)
  <2>1. SUFFICES ASSUME NEW k \in D \ {i}, NEW s
                 PROVE  <<k, s>> \in outs' <=> <<k, s>> \in outs
    BY <1>2 DEF Passed
  <2>2. <<k, s>> \notin new
    OBVIOUS
  <2>3. QED
    BY <2>2
<1>4. \A k \in D : k < i' <=> k < i \/ k = i
  BY <1>1, <1>2
<1>5. Pack = plan.packs[i]
  BY DEF Pack
<1>p. \A l \in D : l = i => (Passed(l)' <=> status = "pass")
  BY <1>2, <1>5 DEF Passed
<1>6. \A o \in outs' : o[1] \in D /\ Bnd(o[1]) /\ o[2] \in Nat
  <2>1. \A o \in new : o[1] = i /\ o[2] = j
    OBVIOUS
  <2>2. QED
    BY <2>1, <1>1, <1>5 DEF Tally
<1>7. PassedBefore(i)' = IF status = "pass" THEN PassedBefore(i) \cup {i} ELSE PassedBefore(i)
  <2>1. PassedBefore(i)' = {l \in D : l < i' /\ Passed(l)'}
    BY <1>2 DEF PassedBefore
  <2>2. ~(i < i)
    BY <1>1
  <2>3. \A l \in D : l < i' /\ Passed(l)' <=>
                       (l < i /\ Passed(l)) \/ (l = i /\ status = "pass")
    BY <2>2, <1>p, <1>3, <1>4
  <2>4. PassedBefore(i)' = {l \in D : (l < i /\ Passed(l)) \/ (l = i /\ status = "pass")}
    BY <2>1, <2>3
  <2>5. QED
    BY <2>4 DEF PassedBefore
<1>8. passed' = UNION {Covers(plan.packs[k]) : k \in PassedBefore(i)'}
  <2>1. CASE status = "pass"
    <3>1. passed' = passed \cup Covers(plan.packs[i])
      BY <2>1, <1>5 DEF PackEnds, Covers
    <3>2. passed = UNION {Covers(plan.packs[k]) : k \in PassedBefore(i)}
      BY <1>1 DEF Tally
    <3>3. PassedBefore(i)' = PassedBefore(i) \cup {i}
      BY <1>7, <2>1
    <3> HIDE DEF D, Bnd
    <3>4. UNION {Covers(plan.packs[k]) : k \in PassedBefore(i) \cup {i}}
            = (UNION {Covers(plan.packs[k]) : k \in PassedBefore(i)}) \cup Covers(plan.packs[i])
      BY Zenon
    <3>5. QED
      BY <3>1, <3>2, <3>3, <3>4
  <2>2. CASE status # "pass"
    BY <2>2, <1>1, <1>7 DEF Tally, PackEnds
  <2>3. QED
    BY <2>1, <2>2
<1>9. res' = "blocked" <=> \E k \in D : k < i' /\ ~Bnd(k)
  <2>1. res = "blocked" <=> \E k \in D : k < i /\ ~Bnd(k)
    BY <1>1 DEF Tally
  <2>2. res' = "blocked" <=> status = "blocked" \/ res = "blocked"
    BY DEF PackEnds
  <2>3. QED
    BY <2>1, <2>2, <1>4, <1>5
<1>10. res' = "pass" <=> \A k \in D : k < i' => Bnd(k) /\ Passed(k)'
  <2>1. res = "pass" <=> \A k \in D : k < i => Bnd(k) /\ Passed(k)
    BY <1>1 DEF Tally
  <2>2. res' = "pass" <=> status = "pass" /\ res = "pass"
    BY DEF PackEnds
  <2>3. ~(i < i)
    BY <1>1
  <2>4. \A k \in D : (k < i' => Bnd(k) /\ Passed(k)') <=>
                       /\ k < i => Bnd(k) /\ Passed(k)
                       /\ k = i => Bnd(k) /\ status = "pass"
    BY <2>3, <1>p, <1>3, <1>4
  <2>5. status = "pass" => Bnd(i)
    BY <1>5
  <2>6. QED
    BY <2>1, <2>2, <2>4, <2>5
<1>11. QED
  BY <1>2, <1>6, <1>8, <1>9, <1>10 DEF Tally, PassedBefore, Passed

(* A scenario that ends is counted in its pack, and the last one ends the  *)
(* pack.                                                                   *)
LEMMA ScenarioCounts ==
  ASSUME Among, pc = "step", NEW status \in {"pass", "fail", "error"}, ScenarioEnds(status)
  PROVE  CountInv'
<1> DEFINE new == IF status = "pass" THEN {<<i, j>>} ELSE {}
           p == IF status = "pass" THEN packst ELSE status
<1>1. /\ i \in Nat /\ j \in Nat
      /\ DOMAIN plan.packs = 1..Len(plan.packs)
      /\ DOMAIN Pack.scenarios = 1..Len(Pack.scenarios) /\ Len(Pack.scenarios) \in Nat
  <2>1. i \in DOMAIN plan.packs
    BY DEF Among, CountInv
  <2>2. QED
    BY <2>1, PlanFacts DEF Among, Pack
<1>2. /\ Tally /\ \A o \in outs : o[1] < i \/ (o[1] = i /\ o[2] < j)
      /\ i \in DOMAIN plan.packs /\ Pack.surface \in bound /\ j \in DOMAIN Pack.scenarios
      /\ packst = "pass" <=> \A s \in DOMAIN Pack.scenarios : s < j => <<i, s>> \in outs
  BY CountParts DEF Among
<1>3. /\ outs' = outs \cup new /\ new \in SUBSET {<<i, j>>}
      /\ UNCHANGED <<plan, bound>>
  BY DEF ScenarioEnds
<1>4. <<i, j>> \notin outs /\ (<<i, j>> \in outs' <=> status = "pass")
  <2>1. <<i, j>> \notin outs
    BY <1>1, <1>2
  <2>2. QED
    BY <2>1, <1>3
<1>5. \A s \in DOMAIN Pack.scenarios : s < j => (<<i, s>> \in outs' <=> <<i, s>> \in outs)
  <2>1. SUFFICES ASSUME NEW s \in DOMAIN Pack.scenarios, s < j PROVE <<i, s>> \notin new
    BY <1>3
  <2>2. s # j
    BY <2>1, <1>1
  <2>3. QED
    BY <2>2
<1>6. p = "pass" <=> \A s \in DOMAIN Pack.scenarios : s < j + 1 => <<i, s>> \in outs'
  <2>1. \A s \in DOMAIN Pack.scenarios : s < j + 1 <=> s < j \/ s = j
    BY <1>1
  <2>2. p = "pass" <=> packst = "pass" /\ status = "pass"
    OBVIOUS
  <2>3. QED
    BY <2>1, <2>2, <1>2, <1>4, <1>5
<1>7. \A o \in outs' : o \in outs \/ o = <<i, j>>
  BY <1>3
<1>8. CASE j < Len(Pack.scenarios)
  <2>1. /\ i' = i /\ j' = j + 1 /\ pc' = "step" /\ packst' = p
        /\ UNCHANGED <<res, passed>>
    BY <1>8 DEF ScenarioEnds, StartScenario, Goto
  <2>2. Pack' = Pack
    BY <2>1, <1>3 DEF Pack
  <2>3. \A o \in outs' :
          o[1] \in DOMAIN plan.packs /\ plan.packs[o[1]].surface \in bound /\ o[2] \in Nat
    BY <1>1, <1>2, <1>7 DEF Tally, Pack
  <2>4. \A l \in DOMAIN plan.packs : l < i => (Passed(l)' <=> Passed(l))
    <3>1. SUFFICES ASSUME NEW l \in DOMAIN plan.packs, l < i, NEW s
                   PROVE  <<l, s>> \in outs' <=> <<l, s>> \in outs
      BY <1>3 DEF Passed
    <3>2. l # i
      BY <3>1, <1>1
    <3>3. <<l, s>> # <<i, j>>
      BY <3>2
    <3>4. QED
      BY <3>3, <1>3
  <2>5. PassedBefore(i)' = PassedBefore(i)
    BY <2>1, <2>4, <1>3 DEF PassedBefore
  <2>6. Tally'
    <3>1. passed' = UNION {Covers(plan.packs[k]) : k \in PassedBefore(i)'}
      BY <2>1, <2>5, <1>2 DEF Tally
    <3>2. res' = "blocked" <=>
            \E k \in DOMAIN plan.packs : k < i /\ plan.packs[k].surface \notin bound
      BY <2>1, <1>2 DEF Tally
    <3>3. res' = "pass" <=>
            \A k \in DOMAIN plan.packs : k < i => plan.packs[k].surface \in bound /\ Passed(k)'
      <4>1. res = "pass" <=>
              \A k \in DOMAIN plan.packs : k < i => plan.packs[k].surface \in bound /\ Passed(k)
        BY <1>2 DEF Tally
      <4>2. QED
        BY <4>1, <2>1, <2>4
    <3>4. QED
      BY <2>1, <2>3, <3>1, <3>2, <3>3, <1>3 DEF Tally, Passed, PassedBefore
  <2>7. \A o \in outs' : o[1] < i' \/ (o[1] = i' /\ o[2] < j')
    <3>1. \A o \in outs : o[1] = i /\ o[2] < j => o[2] < j + 1
      <4>1. SUFFICES ASSUME NEW o \in outs, o[1] = i, o[2] < j PROVE o[2] < j + 1
        OBVIOUS
      <4>2. QED
        BY <4>1, <1>1, <1>2 DEF Tally
    <3>2. QED
      BY <2>1, <3>1, <1>1, <1>2, <1>7
  <2>8. i' \in DOMAIN plan'.packs /\ Pack'.surface \in bound' /\ j' \in DOMAIN Pack'.scenarios
    BY <2>1, <2>2, <1>1, <1>2, <1>3, <1>8
  <2>9. packst' = "pass" <=> \A s \in DOMAIN Pack'.scenarios : s < j' => <<i', s>> \in outs'
    BY <2>1, <2>2, <1>6
  <2>10. QED
    BY <2>1, <2>6, <2>7, <2>8, <2>9 DEF CountInv, Tally, PassedBefore
<1>9. CASE ~(j < Len(Pack.scenarios))
  <2>1. PackEnds(p) /\ pc' = "pack"
    BY <1>9 DEF ScenarioEnds, Goto
  <2>2. \A s \in DOMAIN Pack.scenarios : s < j + 1
    BY <1>1, <1>2, <1>9
  <2>3. p = "pass" <=> \A s \in DOMAIN Pack.scenarios : <<i, s>> \in outs'
    BY <2>2, <1>6
  <2>4. p # "blocked" /\ Pack.surface \in bound
    BY <1>2 DEF Among, TypeInv, TypeOK
  <2>5. Tally'
    <3> HIDE DEF new, p
    <3>1. QED
      BY <2>1, <2>3, <2>4, <1>2, <1>3, PackCounts
  <2>6. i' = i + 1 /\ packst' = "pass"
    BY <2>1 DEF PackEnds
  <2>7. \A o \in outs' : o[1] < i'
    BY <2>6, <1>1, <1>2, <1>7 DEF Tally
  <2>8. QED
    BY <2>1, <2>5, <2>6, <2>7 DEF CountInv, Tally, PassedBefore
<1>10. QED
  BY <1>8, <1>9

LEMMA CountStep == TypeInv /\ GateInv /\ CountInv /\ [Next]_vars => CountInv'
<1> SUFFICES ASSUME TypeInv, GateInv, CountInv, [Next]_vars PROVE CountInv'
  OBVIOUS
<1>i. ASSUME pc' \in {"idle", "write", "rewrite"} PROVE CountInv'
  BY <1>i DEF CountInv
<1>k. ASSUME UNCHANGED <<pc, i, j, bound, plan, packst, res, passed, outs>> PROVE CountInv'
  BY <1>k DEF CountInv, Pack, Passed
<1>b. ASSUME pc = "surface", pc' \in {"surface", "author"},
             UNCHANGED <<packst, res, passed, outs>>
      PROVE  CountInv'
  BY <1>b DEF CountInv
<1>1. ASSUME NEW c \in Callers, Evaluate(c) PROVE CountInv'
  BY <1>1 DEF Evaluate, Return, CountInv
<1>2. CASE CheckSurface
  BY <1>2, <1>b DEF CheckSurface
<1>3. CASE WriteReady
  BY <1>3, <1>i, <1>b DEF WriteReady, Goto
<1>4. ASSUME NEW p \in Plans, Author(p) PROVE CountInv'
  <2>1. /\ outs' = {} /\ passed' = {} /\ res' = "pass" /\ packst' = "pass"
        /\ pc' = "pack" /\ i' = 1 /\ plan' = p
    BY <1>4 DEF Author, Goto, CountInv
  <2>2. \A k \in DOMAIN plan'.packs : ~(k < i')
    BY <2>1, Lists
  <2>3. {l \in DOMAIN plan'.packs : l < i' /\ Passed(l)'} = {}
    BY <2>2
  <2>4. passed' = UNION {Covers(plan'.packs[k]) :
                           k \in {l \in DOMAIN plan'.packs : l < i' /\ Passed(l)'}}
    BY <2>1, <2>3
  <2>5. QED
    BY <2>1, <2>2, <2>4 DEF CountInv, Passed
<1>5. CASE AuthorFails
  BY <1>5, <1>i DEF AuthorFails, Return
<1>6. CASE UnboundPack
  <2>1. /\ pc = "pack" /\ pc' = "pack" /\ UNCHANGED <<plan, bound, outs>>
        /\ i <= Len(plan.packs) /\ Pack.surface \notin bound /\ PackEnds("blocked")
    BY <1>6 DEF UnboundPack
  <2>2. i \in DOMAIN plan.packs /\ i \in Nat
    BY <2>1, PlanFacts DEF TypeInv, TypeOK
  <2>3. \A o \in outs : o[1] < i
    BY <2>1 DEF CountInv
  <2>4. ~\A s \in DOMAIN Pack.scenarios : <<i, s>> \in outs'
    <3>1. 1 \in DOMAIN Pack.scenarios
      BY <2>1, <2>2, PlanFacts DEF Pack
    <3>2. <<i, 1>> \notin outs
      BY <2>2, <2>3
    <3>3. QED
      BY <3>1, <3>2, <2>1
  <2>5. Tally'
    <3>1. {} \in SUBSET {<<i, j>>} /\ outs' = outs \cup {}
      BY <2>1
    <3>2. QED
      BY <2>1, <2>2, <2>4, <3>1, PackCounts DEF Among
  <2>6. i' = i + 1 /\ packst' = "pass"
    BY <2>1 DEF PackEnds
  <2>7. \A o \in outs' : o[1] < i'
    BY <2>1, <2>2, <2>3, <2>6, PlanFacts, CountParts DEF Tally
  <2>8. QED
    BY <2>1, <2>5, <2>6, <2>7 DEF CountInv, Tally, PassedBefore
<1>7. CASE StartPack
  <2>1. /\ pc = "pack" /\ pc' = "step" /\ i' = i /\ j' = 1
        /\ UNCHANGED <<bound, plan, packst, res, passed, outs>>
        /\ i <= Len(plan.packs) /\ Pack.surface \in bound
    BY <1>7 DEF StartPack, StartScenario, Goto
  <2>2. i \in DOMAIN plan.packs
    BY <2>1, PlanFacts DEF TypeInv, TypeOK
  <2>3. 1 \in DOMAIN Pack.scenarios /\ \A s \in DOMAIN Pack.scenarios : ~(s < 1)
    BY <2>1, <2>2, PlanFacts DEF Pack
  <2>4. Pack' = Pack
    BY <2>1 DEF Pack
  <2>5. Tally'
    BY <2>1, CountParts DEF Tally, PassedBefore, Passed
  <2>6. packst' = "pass" /\ \A o \in outs' : o[1] < i'
    BY <2>1 DEF CountInv
  <2>7. QED
    BY <2>1, <2>2, <2>3, <2>4, <2>5, <2>6 DEF CountInv, Tally, PassedBefore
<1>8. CASE RunProgram
  BY <1>8, <1>k DEF RunProgram, NextStep
<1>9. CASE Request
  BY <1>9, <1>k, ScenarioCounts DEF Request, NextStep, AtStep, Among
<1>10. CASE Expectation
  BY <1>10, <1>k, ScenarioCounts DEF Expectation, NextStep, AtStep, Among
<1>11. CASE KeepEvidence
  BY <1>11, ScenarioCounts DEF KeepEvidence, Among
<1>12. CASE Conclude
  BY <1>12, <1>i DEF Conclude, Return, Goto
<1>13. CASE WriteResult
  BY <1>13, <1>i DEF WriteResult, Return, Goto
<1>14. CASE WriteFails
  BY <1>14, <1>i DEF WriteFails, Return
<1>15. ASSUME NEW a \in Artifacts, Change(a) PROVE CountInv'
  BY <1>15, <1>k DEF Change, local
<1>16. CASE Crash
  BY <1>16, <1>i DEF Crash
<1>17. CASE UNCHANGED vars
  BY <1>17, <1>k DEF vars, local
<1>18. QED
  BY <1>1, <1>2, <1>3, <1>4, <1>5, <1>6, <1>7, <1>8, <1>9, <1>10, <1>11, <1>12, <1>13,
     <1>14, <1>15, <1>16, <1>17 DEF Next, ProcessStep

(* The packs lead to a verdict in no step but that of Conclude.            *)
LEMMA VerdictByConclude ==
  ASSUME [Next]_vars, pc = "pack", pc' = "write"
  PROVE  Conclude
<1>1. CASE ProcessStep
  BY <1>1 DEF ProcessStep, CheckSurface, WriteReady, Author, AuthorFails, UnboundPack,
     StartPack, Goto, RunProgram, Request, Expectation, KeepEvidence, AtStep, WriteResult,
     WriteFails, Return
<1>2. CASE ~ProcessStep
  BY <1>2 DEF Next, Evaluate, Change, Crash, vars, Return
<1>3. QED
  BY <1>1, <1>2

(* What Conclude makes of the tally.                                       *)
LEMMA VerdictStep ==
  TypeInv /\ GateInv /\ CountInv /\ [Next]_vars =>
    (pc = "pack" /\ pc' = "write" =>
       /\ res' = "pass" <=> /\ AllBound /\ AllPassed /\ AllRequired
                            /\ AllPass(plan.checks, Repo)
       /\ res' = "blocked" <=> ~AllBound /\ AllPass(plan.checks, Repo))
<1> SUFFICES ASSUME TypeInv, GateInv, CountInv, [Next]_vars, pc = "pack", pc' = "write"
             PROVE  /\ res' = "pass" <=> /\ AllBound /\ AllPassed /\ AllRequired
                                         /\ AllPass(plan.checks, Repo)
                    /\ res' = "blocked" <=> ~AllBound /\ AllPass(plan.checks, Repo)
  OBVIOUS
<1>1. Conclude
  BY VerdictByConclude
<1>2. \A k \in DOMAIN plan.packs : k < i
  BY <1>1, PlanFacts DEF Conclude
<1>3. Tally
  BY CountParts
<1>4. res = "blocked" <=> ~AllBound
  BY <1>2, <1>3 DEF Tally, AllBound
<1>5. res = "pass" <=> AllBound /\ AllPassed
  <2>1. AllPassed <=> \A k \in DOMAIN plan.packs : Passed(k)
    BY DEF AllPassed, Passed
  <2>2. QED
    BY <2>1, <1>2, <1>3 DEF Tally, AllBound
<1>6. Required \subseteq passed <=> AllRequired
  <2>1. PassedBefore(i) = PassedPacks
    BY <1>2 DEF PassedBefore, PassedPacks, Passed
  <2>2. passed = UNION {Covers(plan.packs[k]) : k \in PassedPacks}
    BY <2>1, <1>3 DEF Tally
  <2>3. QED
    BY <2>2 DEF AllRequired
<1>7. LET checked == IF AllPass(plan.checks, Repo) THEN res ELSE "fail" IN
      res' = IF checked = "pass" /\ ~(Required \subseteq passed) THEN "fail" ELSE checked
  BY <1>1 DEF Conclude, Return
<1>8. QED
  BY <1>4, <1>5, <1>6, <1>7

(* The verdict is earned: of every plan and however the artifacts change,  *)
(* it is pass just when all was bound, passed, covered and checked, and    *)
(* blocked just when no check failed and a pack had no surface             *)
(* (executor.go:70-115).                                                   *)
THEOREM VerdictSafe == Spec => VerdictIsEarned
<1>1. Init => TypeInv /\ GateInv /\ CountInv
  BY TypeInit DEF Init, GateInv, CountInv
<1>2. TypeInv /\ GateInv /\ CountInv /\ [Next]_vars => TypeInv' /\ GateInv' /\ CountInv'
  BY TypeStep, GateStep, CountStep
<1>3. QED
  BY <1>1, <1>2, VerdictStep, PTL DEF Spec, VerdictIsEarned
==============================================================================
