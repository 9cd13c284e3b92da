------------------------- MODULE MCWbsOrchestrator --------------------------
(* Small work breakdown structures for WbsOrchestrator.                    *)
EXTENDS WbsOrchestrator, TLC

(* A diamond listed against its dependency order, with both executors.     *)
DiamondSpecs    == {"api", "db", "ui", "e2e"}
DiamondPosition == "e2e" :> 1 @@ "ui" :> 2 @@ "db" :> 3 @@ "api" :> 4
DiamondDeps     == "e2e" :> {"ui", "api", "db"} @@ "ui" :> {"db"} @@ "db" :> {}
                   @@ "api" :> {"db"}
DiamondLane     == "e2e" :> "flow" @@ "ui" :> "worktree" @@ "db" :> "flow"
                   @@ "api" :> "worktree"

(* Validate accepts this one: two specs wait for each other.               *)
CycleSpecs    == {"base", "left", "right", "tail"}
CyclePosition == "base" :> 1 @@ "left" :> 2 @@ "right" :> 3 @@ "tail" :> 4
CycleDeps     == "base" :> {} @@ "left" :> {"right", "base"} @@ "right" :> {"left"}
                 @@ "tail" :> {"base"}
CycleLane     == "base" :> "worktree" @@ "left" :> "flow" @@ "right" :> "flow"
                 @@ "tail" :> "flow"
=============================================================================
