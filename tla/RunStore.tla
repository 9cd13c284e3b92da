-------------------------------- MODULE RunStore ------------------------------
(***************************************************************************)
(* The record of a run and the commands that read and write it:            *)
(* app/cli.go, app/v2_status.go and adapters/state.  The status of a run   *)
(* is kept twice, in .dft/runs/<id>/manifest.json and in .dft/state.db;    *)
(* `dft resume' resumes one lane of the run and then writes both, one      *)
(* after the other.  `dft cancel' writes a third record, .status.          *)
(*                                                                         *)
(* The lanes are those of module SpecLane, reduced to whether they left    *)
(* anything on disk and whether their artifacts say that they are complete. *)
(* One resume runs at a time, and may be killed; the others only read, or  *)
(* write .status.                                                          *)
(***************************************************************************)
EXTENDS Integers, FiniteSets

CONSTANTS
  RunSpecs,    \* the specs in design/wbs.json of the run
  MaxResumes,  \* bound on the number of resume processes
  MaxTroubles  \* bound on the failures of the stores, and kills

ASSUME RunStoreAssumption ==
  RunSpecs # {} /\ IsFiniteSet(RunSpecs) /\ MaxResumes \in Nat /\ MaxTroubles \in Nat

VARIABLES
  json,      \* manifest.json: which process wrote it, and the status it says
  db,        \* the row of the run in table runs, likewise
  marker,    \* .status
  wbs,       \* whether design/wbs.json can be read
  adapter,   \* the adapter in the manifest: "dispatcher", "plain" or "unknown"
  lanes,     \* each lane: "unseen", "active" or "complete"
  at,        \* where the process is
  loaded, \* the manifest it loaded
  picked,    \* the spec it resumes
  outcome,   \* what ResumeSpecKitLane returned
  result,    \* how the last process ended; "none" while it runs or if killed
  resumes, troubles, \* counts
  ran,       \* history: the process that ran has resumed a lane
  passed     \* history: lanes of which a resume returned no error half way

storeVars == <<json, db, marker, wbs, adapter, lanes, at, loaded, picked, outcome,
               result, resumes, troubles, ran, passed>>
setting   == <<wbs, adapter>>
resuming  == <<loaded, picked, outcome>>

RunStatus == {"running", "failed", "succeeded"}
Row(status) == [by |-> resumes, says |-> status]
NoRow == [by |-> 0, says |-> "none"]

Trouble == troubles < MaxTroubles /\ troubles' = troubles + 1

Ends(e)  == at' = "idle" /\ result' = e
GoOn(p)  == at' = p /\ UNCHANGED result

ResumeRun ==
  /\ at = "idle" /\ resumes < MaxResumes /\ resumes' = resumes + 1
  /\ at' = "load" /\ result' = "none" /\ ran' = FALSE
  /\ UNCHANGED <<json, db, marker, setting, lanes, resuming, troubles, passed>>

(* loadRunManifest: SQLite, if it opens, answers alone; it is created if   *)
(* it is not there.                                                        *)
LoadManifest ==
  /\ at = "load"
  /\ \E record \in {db, json} :
       /\ IF record = db THEN UNCHANGED troubles ELSE Trouble
       /\ IF record.says \in {"none", "torn"} THEN Ends("error") /\ UNCHANGED loaded
          ELSE GoOn("pick") /\ loaded' = record.says
  /\ UNCHANGED <<json, db, marker, setting, lanes, picked, outcome, resumes, ran, passed>>

(* loadSpecLaneSummaries leaves out the lanes that left nothing.           *)
Active == {s \in RunSpecs : lanes[s] = "active"}
Candidates == IF Cardinality(RunSpecs) = 1 THEN RunSpecs ELSE Active

(* loadResumableSpecForRun, selectAgentAdapter                             *)
PickSpec ==
  /\ at = "pick" /\ wbs /\ Cardinality(Candidates) = 1 /\ adapter = "dispatcher"
  /\ picked' \in Candidates /\ GoOn("lane")
  /\ UNCHANGED <<json, db, marker, setting, lanes, loaded, outcome, resumes, troubles, ran,
                 passed>>

NothingToResume ==
  /\ at = "pick" /\ ~(wbs /\ Cardinality(Candidates) = 1 /\ adapter = "dispatcher")
  /\ Ends("error")
  /\ UNCHANGED <<json, db, marker, setting, lanes, resuming, resumes, troubles, ran, passed>>

(* ResumeSpecKitLane, as module SpecLane has it: a lane that is complete   *)
(* stays so, one that is not may be left anywhere, also by a process that  *)
(* fails or is killed.                                                     *)
LaneAfter ==
  IF lanes[picked] = "complete" THEN {"complete"} ELSE {lanes[picked], "active", "complete"}

(* No error does not mean complete: a flow that went on with unfinished    *)
(* work to its end returns none, and the lane is half way.                 *)
RunLane ==
  /\ at = "lane" /\ GoOn("open") /\ ran' = TRUE
  /\ \E l \in LaneAfter :
       /\ lanes' = [lanes EXCEPT ![picked] = l]
       /\ \/ outcome' = "failed" /\ UNCHANGED passed
          \/ outcome' = "ok" /\ l = "complete" /\ UNCHANGED passed
          \/ outcome' = "ok" /\ l = "active" /\ passed' = passed \cup {picked}
  /\ UNCHANGED <<json, db, marker, setting, loaded, picked, resumes, troubles>>

(* The database is opened only now: if that fails, what the lane did is    *)
(* not recorded.                                                           *)
OpenStore ==
  /\ at = "open"
  /\ \/ GoOn("json") /\ UNCHANGED troubles
     \/ Ends("error") /\ Trouble
  /\ UNCHANGED <<json, db, marker, setting, lanes, resuming, resumes, ran, passed>>

NewStatus == IF outcome = "ok" THEN "succeeded" ELSE "failed"

SaveJSON ==
  /\ at = "json"
  /\ \/ json' = Row(NewStatus) /\ GoOn("sqlite") /\ UNCHANGED troubles
     \/ Trouble /\ Ends("error") /\ json' \in {json, Row("torn")}
  /\ UNCHANGED <<db, marker, setting, lanes, resuming, resumes, ran, passed>>

(* Mutant: a failed lane is a failed command, but not a failed run. *)
SaveSQLite_KeepsFailures ==
  /\ at = "sqlite"
  /\ \/ /\ db' = Row(IF outcome = "ok" THEN NewStatus ELSE loaded)
        /\ Ends(IF outcome = "ok" THEN "ok" ELSE "error") /\ UNCHANGED troubles
     \/ Trouble /\ Ends("error") /\ UNCHANGED db
  /\ UNCHANGED <<json, marker, setting, lanes, resuming, resumes, ran, passed>>

SaveSQLite ==
  /\ at = "sqlite"
  /\ \/ /\ db' = Row(NewStatus)
        /\ Ends(IF outcome = "ok" THEN "ok" ELSE "error") /\ UNCHANGED troubles
     \/ Trouble /\ Ends("error") /\ UNCHANGED db
  /\ UNCHANGED <<json, marker, setting, lanes, resuming, resumes, ran, passed>>

(* updateRunStatusV2: whether the marker was written is not looked at, and *)
(* nothing reads it.                                                       *)
Cancel ==
  /\ \/ marker' = "cancelled" /\ UNCHANGED troubles
     \/ Trouble /\ UNCHANGED marker
  /\ UNCHANGED <<json, db, setting, lanes, at, resuming, result, resumes, ran, passed>>

KilledResume ==
  /\ at # "idle" /\ Trouble /\ at' = "idle"
  /\ IF at = "json" THEN json' \in {json, Row("torn")} ELSE UNCHANGED json
  /\ \/ UNCHANGED lanes
     \/ at = "lane" /\ \E l \in LaneAfter : lanes' = [lanes EXCEPT ![picked] = l]
  /\ UNCHANGED <<db, marker, setting, resuming, result, resumes, ran, passed>>

(* A run of an earlier build: its row says that it runs or that it failed. *)
StoreInit ==
  /\ db \in {NoRow, [by |-> 0, says |-> "failed"], [by |-> 0, says |-> "running"]}
  /\ json \in {NoRow, db} /\ marker = "none"
  /\ wbs \in BOOLEAN /\ adapter \in {"dispatcher", "plain", "unknown"}
  /\ lanes \in [RunSpecs -> {"unseen", "active", "complete"}]
  /\ at = "idle" /\ loaded = "none" /\ picked = CHOOSE s \in RunSpecs : TRUE
  /\ outcome = "none" /\ result = "none" /\ resumes = 0 /\ troubles = 0 /\ ran = FALSE
  /\ passed = {}

StoreNext ==
  \/ ResumeRun \/ LoadManifest \/ PickSpec \/ NothingToResume \/ RunLane
  \/ OpenStore \/ SaveJSON \/ SaveSQLite \/ Cancel \/ KilledResume

StoreSpec == StoreInit /\ [][StoreNext]_storeVars

-----------------------------------------------------------------------------
StoreTypeOK ==
  /\ json \in [by : 0..resumes, says : RunStatus \cup {"none", "torn"}]
  /\ db \in [by : 0..resumes, says : RunStatus \cup {"none"}]
  /\ marker \in {"none", "cancelled"} /\ wbs \in BOOLEAN
  /\ adapter \in {"dispatcher", "plain", "unknown"}
  /\ lanes \in [RunSpecs -> {"unseen", "active", "complete"}]
  /\ at \in {"idle", "load", "pick", "lane", "open", "json", "sqlite"}
  /\ loaded \in RunStatus \cup {"none"} /\ picked \in RunSpecs
  /\ outcome \in {"none", "ok", "failed"} /\ result \in {"none", "ok", "error"}
  /\ resumes \in 0..MaxResumes /\ troubles \in 0..MaxTroubles /\ ran \in BOOLEAN
  /\ passed \subseteq RunSpecs

(* What `dft status' shows is about the lanes: in a run that was resumed   *)
(* into success no lane is half way but those of which a resume returned   *)
(* no error, whichever processes died in between and whatever was resumed  *)
(* since; and a resume that returned success, or ran a lane without        *)
(* trouble, is what both stores tell (cli.go:235-260).  Nor does it show   *)
(* what manifest.json has not got: the database lags, through kills and    *)
(* failing writes, and a process that wrote both left them equal           *)
(* (cli.go:263-271).                                                       *)
StatusTellsOfLanes ==
  /\ (db.says = "succeeded" /\ db.by > 0) => Active \subseteq passed
  /\ result = "ok" => /\ db = Row("succeeded") /\ json = db
                      /\ lanes[picked] = "complete" \/ picked \in passed
  /\ (result = "error" /\ ran /\ troubles = 0) => db = Row("failed") /\ json = db
  /\ db.by <= json.by /\ ((db.by = json.by /\ db.by > 0) => db = json)
=============================================================================
