---------------------------- MODULE MCFlowRunner ----------------------------
(* Small flows for FlowRunner.  A flow is built from node records; the     *)
(* constant Def of a run is one of the trees below, Step its domain.       *)
EXTENDS FlowRunner, TLC

Node(t, p, top) ==
  [ type |-> t, function |-> "none", body |-> << >>, setup |-> << >>,
    parent |-> p, top |-> top, onError |-> "fail", retries |-> 0,
    maxIterations |-> 0, when |-> FALSE, exitWhen |-> FALSE, verify |-> FALSE,
    staged |-> FALSE ]

Flow(body) == [Node("workflow", None, "flow") EXCEPT !.body = body]

(* No nested workflow: a tool with a setup step and a retry, a gate, a     *)
(* guarded loop whose exhaustion is tolerated, a command.                  *)
FlatTree ==
  "flow" :> Flow(<<"build", "gate", "fix", "ship">>)
  @@ "build"   :> [Node("tool", "flow", "build") EXCEPT
                     !.setup = <<"prepare">>, !.onError = "retry", !.retries = 1]
  @@ "prepare" :> [Node("function", "build", "build") EXCEPT !.function = "branch"]
  @@ "gate"    :> [Node("gate", "flow", "gate") EXCEPT !.onError = "escalate"]
  @@ "fix"     :> [Node("loop", "flow", "fix") EXCEPT
                     !.body = <<"edit", "check">>, !.maxIterations = 2,
                     !.exitWhen = TRUE, !.onError = "continue"]
  @@ "edit"    :> [Node("agent", "fix", "fix") EXCEPT !.when = TRUE]
  @@ "check"   :> [Node("verify", "fix", "fix") EXCEPT !.onError = "escalate"]
  @@ "ship"    :> [Node("command", "flow", "ship") EXCEPT !.verify = TRUE]
FlatStep == DOMAIN FlatTree

(* Nested workflows: one tolerated and plain, holding an escalating tool   *)
(* and a verified loop; one staged, verified and retried, whose first step *)
(* is set up by a gate.  A gate stands between them.                       *)
NestedTree ==
  "flow" :> Flow(<<"spec", "review", "rollout">>)
  @@ "spec"    :> [Node("workflow", "flow", "spec") EXCEPT
                     !.body = <<"draft", "refine">>, !.onError = "continue"]
  @@ "draft"   :> [Node("tool", "spec", "spec") EXCEPT !.onError = "escalate"]
  @@ "refine"  :> [Node("loop", "spec", "spec") EXCEPT
                     !.body = <<"polish">>, !.maxIterations = 2, !.verify = TRUE,
                     !.onError = "continue"]
  @@ "polish"  :> [Node("agent", "refine", "spec") EXCEPT !.maxIterations = 2]
  @@ "review"  :> Node("gate", "flow", "review")
  @@ "rollout" :> [Node("workflow", "flow", "rollout") EXCEPT
                     !.body = <<"stage", "smoke">>, !.staged = TRUE,
                     !.verify = TRUE, !.onError = "retry", !.retries = 1]
  @@ "stage"   :> [Node("command", "rollout", "rollout") EXCEPT
                     !.setup = <<"confirm">>]
  @@ "confirm" :> Node("gate", "stage", "rollout")
  @@ "smoke"   :> [Node("loop", "rollout", "rollout") EXCEPT
                     !.body = <<"probe">>, !.maxIterations = 1, !.exitWhen = TRUE,
                     !.onError = "continue"]
  @@ "probe"   :> Node("verify", "smoke", "rollout")
NestedStep == DOMAIN NestedTree

(* A definition with stages: a set-up function, two steps, the stage's     *)
(* Verify list.                                                            *)
StagedTree ==
  "flow" :> [Flow(<<"branch", "build", "gate", "accept">>) EXCEPT !.staged = TRUE]
  @@ "branch" :> [Node("function", "flow", "branch") EXCEPT !.function = "branch"]
  @@ "build"  :> [Node("tool", "flow", "build") EXCEPT
                    !.setup = <<"fetch">>, !.onError = "continue"]
  @@ "fetch"  :> Node("command", "build", "build")
  @@ "gate"   :> [Node("gate", "flow", "gate") EXCEPT !.verify = TRUE, !.when = TRUE]
  @@ "accept" :> Node("verify", "flow", "accept")
StagedStep == DOMAIN StagedTree
=============================================================================
