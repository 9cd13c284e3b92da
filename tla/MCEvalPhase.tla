------------------------------ MODULE MCEvalPhase -----------------------------
(* A program and a service, two surfaces, and plans that differ in order,  *)
(* bindings, coverage and checks.                                          *)
EXTENDS EvalPhase

MCSurfaces ==
  <<[id |-> "cli", artifact |-> "app",
     probes |-> {[kind |-> "file_exists", argc |-> TRUE, at |-> "app", want |-> 0]}],
    [id |-> "api", artifact |-> "svc",
     probes |-> {[kind |-> "http_status", argc |-> TRUE, at |-> "/", want |-> 200]}]>>

Act(what, at, code, text) ==
  [do |-> what, at |-> at, code |-> code, text |-> text, argc |-> TRUE]

Runs0   == Act("cli.run", "", 0, "")
Greets  == [reqs |-> {"r1"},
            steps |-> <<Runs0, Act("cli.expect_stdout_contains", "", 0, "hello"),
                        Act("cli.expect_exit_code", "", 0, "")>>]
Usage   == [reqs |-> {"r2"},
            steps |-> <<Runs0, Act("cli.expect_stderr_contains", "", 0, "usage")>>]
Silent  == [reqs |-> {"r2"}, steps |-> <<Act("cli.expect_stdout_contains", "", 0, "hello")>>]
Files   == [reqs |-> {"r2"}, steps |-> <<Act("file.exists", "app", 0, ""),
                                         Act("file.contains", "app", 0, "")>>]
Serves  == [reqs |-> {"r3"},
            steps |-> <<Act("http.get", "/", 0, ""), Act("http.expect_status", "", 200, "")>>]
Posts   == [reqs |-> {"r3"},
            steps |-> <<Act("http.post_json", "svc", 0, ""),
                        Act("http.expect_json_path_equals", "", 0, "ok")>>]
Unknown == [reqs |-> {"r3"}, steps |-> <<Act("db.query", "", 0, "")>>]

OfPack(id, surface, scenarios) == [id |-> id, surface |-> surface, scenarios |-> scenarios]

Check(kind, path, want) ==
  [id |-> "c", kind |-> kind, argc |-> TRUE, path |-> path, other |-> path, want |-> want,
   value |-> "", allowed |-> {"linux"}]

MCPlans ==
  {[requires |-> {"r1", "r2", "r3"}, checks |-> << >>,
    packs |-> <<OfPack("p", "cli", <<Greets, Files>>), OfPack("q", "api", <<Serves, Posts>>)>>],
   [requires |-> {}, checks |-> <<Check("count_matches_equals", "app", 1)>>,
    packs |-> <<OfPack("p", "db", <<Unknown>>), OfPack("q", "cli", <<Greets, Silent>>)>>],
   [requires |-> {}, checks |-> << >>,
    packs |-> <<OfPack("p", "api", <<Unknown>>), OfPack("q", "cli", <<Usage>>),
                OfPack("r", "db", <<Unknown>>)>>],
   [requires |-> {"r1", "r2"}, packs |-> <<OfPack("p", "cli", <<Greets>>)>>,
    checks |-> <<Check("no_binary_artifacts", "app", 0), Check("os", "app", 0)>>],
   [requires |-> {}, packs |-> << >>, checks |-> <<Check("command_exit_zero", "app", 0)>>],
   NoPlan}

MCManifests == {{}, {"app"}, {"app", "svc"}}
=============================================================================
