---------------------------- MODULE RunStoreProofs ---------------------------
(***************************************************************************)
(* Proofs about the two records of a run's status, for every set of specs, *)
(* any number of resumes, of kills and of stores that fail.                *)
(***************************************************************************)
EXTENDS RunStore, FiniteSetTheorems, TLAPS

(* Behind the lane, the process knows the lane's outcome.                  *)
Behind == at \in {"open", "json", "sqlite"}

(* No process has a result before it ends, nor has it run a lane before it *)
(* is behind it; and it is the last one to write.                          *)
ProcessInv ==
  /\ at # "idle" => result = "none" /\ db.by < resumes
  /\ at \in {"load", "pick", "lane"} => ~ran
  /\ Behind => outcome # "none"

(* The spec that is resumed is the only lane that is half way; behind a    *)
(* resume without an error it is complete, or known as passed half way.    *)
PickedInv ==
  /\ at = "lane" => picked \in Candidates /\ Active \subseteq {picked}
  /\ (Behind /\ outcome = "ok") =>
       Active \subseteq passed /\ (lanes[picked] = "complete" \/ picked \in passed)

(* A row of a resume that succeeded leaves no lane to be resumed but those *)
(* that were passed half way; where the run has one spec, which may be     *)
(* resumed whatever it is, this one is complete, or was passed.            *)
OnlyPassed ==
  /\ Active \subseteq passed
  /\ Cardinality(RunSpecs) = 1 => \A s \in RunSpecs : lanes[s] = "complete" \/ s \in passed

SucceededInv == (db.says = "succeeded" /\ db.by > 0) => OnlyPassed

(* What the two stores say of each other, and of the last process.         *)
StoresInv ==
  /\ at = "sqlite" => json = Row(NewStatus)
  /\ result = "ok" => /\ db = Row("succeeded") /\ json = db
                      /\ lanes[picked] = "complete" \/ picked \in passed
  /\ (result = "error" /\ ran /\ troubles = 0) => db = Row("failed") /\ json = db
  /\ db.by <= json.by /\ ((db.by = json.by /\ db.by > 0) => db = json)

StoreInv == ProcessInv /\ PickedInv /\ SucceededInv /\ StoresInv

-----------------------------------------------------------------------------
(* Every variable keeps its type.                                          *)
LEMMA StoreTypeStep == StoreTypeOK /\ [StoreNext]_storeVars => StoreTypeOK'
<1> SUFFICES ASSUME StoreTypeOK, [StoreNext]_storeVars PROVE StoreTypeOK'
  OBVIOUS
<1>l. ASSUME NEW x \in LaneAfter, lanes' = [lanes EXCEPT ![picked] = x]
      PROVE  lanes' \in [RunSpecs -> {"unseen", "active", "complete"}]
  BY <1>l DEF StoreTypeOK, LaneAfter
<1> USE RunStoreAssumption
    DEF StoreTypeOK, RunStatus, Row, Trouble, Ends, GoOn, setting, resuming
<1>1. CASE ResumeRun
  <2>1. 0..resumes \subseteq 0..resumes' /\ resumes' \in 0..MaxResumes
    BY <1>1 DEF ResumeRun
  <2>2. /\ json' \in [by : 0..resumes', says : RunStatus \cup {"none", "torn"}]
        /\ db' \in [by : 0..resumes', says : RunStatus \cup {"none"}]
    BY <1>1, <2>1 DEF ResumeRun
  <2> QED BY <1>1, <2>1, <2>2 DEF ResumeRun
<1>2. CASE LoadManifest BY <1>2 DEF LoadManifest
<1>3. CASE PickSpec BY <1>3 DEF PickSpec, Candidates, Active
<1>4. CASE NothingToResume BY <1>4 DEF NothingToResume
<1>5. CASE RunLane
  <2>1. lanes' \in [RunSpecs -> {"unseen", "active", "complete"}]
    BY <1>5, <1>l DEF RunLane
  <2> QED BY <1>5, <2>1 DEF RunLane
<1>6. CASE OpenStore BY <1>6 DEF OpenStore
<1>7. CASE SaveJSON BY <1>7 DEF SaveJSON, NewStatus
<1>8. CASE SaveSQLite BY <1>8 DEF SaveSQLite, NewStatus
<1>9. CASE Cancel BY <1>9 DEF Cancel
<1>10. CASE KilledResume
  <2>1. lanes' \in [RunSpecs -> {"unseen", "active", "complete"}]
    BY <1>10, <1>l DEF KilledResume
  <2> QED BY <1>10, <2>1 DEF KilledResume
<1>11. CASE UNCHANGED storeVars BY <1>11 DEF storeVars
<1> QED
  BY <1>1, <1>2, <1>3, <1>4, <1>5, <1>6, <1>7, <1>8, <1>9, <1>10, <1>11 DEF StoreNext

(* manifest.json, the row in state.db, .status and the lanes keep their    *)
(* shape, whatever fails (cli.go:205-271).                                 *)
THEOREM StoreTypeCorrect == StoreSpec => []StoreTypeOK
<1>1. StoreInit => StoreTypeOK
  <2> SUFFICES ASSUME StoreInit PROVE StoreTypeOK
    OBVIOUS
  <2>1. picked \in RunSpecs
    BY RunStoreAssumption DEF StoreInit
  <2>2. db \in [by : {0}, says : {"none", "failed", "running"}] /\ resumes = 0
    BY DEF StoreInit, NoRow
  <2>3. json \in [by : {0}, says : {"none", "failed", "running"}]
    BY <2>2 DEF StoreInit, NoRow
  <2>4. wbs \in BOOLEAN /\ ran \in BOOLEAN /\ passed \subseteq RunSpecs
    BY Zenon DEF StoreInit
  <2>5. resumes \in 0..MaxResumes /\ troubles \in 0..MaxTroubles
    BY RunStoreAssumption DEF StoreInit
  <2>6. 0 \in 0..resumes
    BY <2>2
  <2> QED
    BY <2>1, <2>2, <2>3, <2>4, <2>5, <2>6 DEF StoreInit, StoreTypeOK, RunStatus
<1> QED
  BY <1>1, StoreTypeStep, PTL DEF StoreSpec

-----------------------------------------------------------------------------
(* The process.                                                            *)

(* A process goes on without a result, and behind the lane has an outcome. *)
LEMMA ProcessStep ==
  StoreTypeOK /\ ProcessInv /\ [StoreNext]_storeVars => ProcessInv'
<1> SUFFICES ASSUME StoreTypeOK, ProcessInv, [StoreNext]_storeVars PROVE ProcessInv'
  OBVIOUS
<1> USE DEF ProcessInv, Behind, Ends, GoOn, setting, resuming
<1>1. CASE ResumeRun BY <1>1 DEF ResumeRun, StoreTypeOK
<1>2. CASE LoadManifest BY <1>2 DEF LoadManifest
<1>3. CASE PickSpec BY <1>3 DEF PickSpec
<1>4. CASE NothingToResume BY <1>4 DEF NothingToResume
<1>5. CASE RunLane BY <1>5 DEF RunLane
<1>6. CASE OpenStore BY <1>6 DEF OpenStore
<1>7. CASE SaveJSON BY <1>7 DEF SaveJSON
<1>8. CASE SaveSQLite BY <1>8 DEF SaveSQLite
<1>9. CASE Cancel BY <1>9 DEF Cancel
<1>10. CASE KilledResume BY <1>10 DEF KilledResume
<1>11. CASE UNCHANGED storeVars BY <1>11 DEF storeVars
<1> QED
  BY <1>1, <1>2, <1>3, <1>4, <1>5, <1>6, <1>7, <1>8, <1>9, <1>10, <1>11 DEF StoreNext

(* What is picked is all there is to resume (loadResumableSpecForRun).     *)
LEMMA PickedAlone ==
  ASSUME NEW s \in Candidates, Cardinality(Candidates) = 1
  PROVE  Active \subseteq {s} /\ (Cardinality(RunSpecs) = 1 => RunSpecs = {s})
<1>1. IsFiniteSet(Candidates) /\ Active \subseteq Candidates
  BY RunStoreAssumption, FS_Subset DEF Candidates, Active
<1>2. Candidates = {s}
  BY <1>1, FS_Singleton
<1> QED
  BY <1>1, <1>2 DEF Candidates

(* The lane that is resumed stays the only one that is half way.           *)
LEMMA PickedStep ==
  StoreTypeOK /\ ProcessInv /\ PickedInv /\ [StoreNext]_storeVars => PickedInv'
<1> SUFFICES ASSUME StoreTypeOK, ProcessInv, PickedInv, [StoreNext]_storeVars
             PROVE  PickedInv'
  OBVIOUS
<1> USE DEF PickedInv, Behind, Ends, GoOn, setting, resuming
<1>1. CASE ResumeRun BY <1>1 DEF ResumeRun
<1>2. CASE LoadManifest BY <1>2 DEF LoadManifest
<1>3. CASE PickSpec
  <2>1. picked' \in Candidates /\ Cardinality(Candidates) = 1 /\ UNCHANGED lanes /\ at' = "lane"
    BY <1>3 DEF PickSpec
  <2>2. Active \subseteq {picked'}
    BY <2>1, PickedAlone
  <2> QED BY <2>1, <2>2 DEF Candidates, Active
<1>4. CASE NothingToResume BY <1>4 DEF NothingToResume
<1>5. CASE RunLane
  <2>1. at = "lane" /\ at' = "open" /\ picked' = picked /\ picked \in RunSpecs
    BY <1>5 DEF RunLane, StoreTypeOK
  <2>2. outcome' = "ok" => \/ lanes' = [lanes EXCEPT ![picked] = "complete"]
                           \/ picked \in passed' /\ lanes' = [lanes EXCEPT ![picked] = "active"]
    BY <1>5 DEF RunLane
  <2> QED BY <2>1, <2>2 DEF Active, StoreTypeOK
<1>6. CASE OpenStore BY <1>6 DEF OpenStore, Active
<1>7. CASE SaveJSON BY <1>7 DEF SaveJSON, Active
<1>8. CASE SaveSQLite BY <1>8 DEF SaveSQLite
<1>9. CASE Cancel BY <1>9 DEF Cancel, Active, Candidates
<1>10. CASE KilledResume BY <1>10 DEF KilledResume
<1>11. CASE UNCHANGED storeVars BY <1>11 DEF storeVars, Active, Candidates
<1> QED
  BY <1>1, <1>2, <1>3, <1>4, <1>5, <1>6, <1>7, <1>8, <1>9, <1>10, <1>11 DEF StoreNext

-----------------------------------------------------------------------------
(* The stores.                                                             *)

(* A lane that is resumed while the row says that a resume succeeded was   *)
(* complete, or passed half way, before: it may be left anywhere again.    *)
LEMMA ResumedAgain ==
  ASSUME StoreTypeOK, PickedInv, OnlyPassed, at = "lane", NEW l \in LaneAfter,
         lanes' = [lanes EXCEPT ![picked] = l], passed \subseteq passed'
  PROVE  OnlyPassed'
<1>1. picked \in RunSpecs
  BY DEF StoreTypeOK
<1>2. lanes[picked] = "complete" \/ picked \in passed
  BY <1>1 DEF PickedInv, Candidates, Active, OnlyPassed
<1>3. l = "complete" \/ picked \in passed
  BY <1>2 DEF LaneAfter
<1>4. \A s \in RunSpecs : lanes'[s] = IF s = picked THEN l ELSE lanes[s]
  BY DEF StoreTypeOK
<1> QED
  BY <1>3, <1>4 DEF OnlyPassed, Active

(* A row that says that a resume succeeded is about all lanes, and a later *)
(* resume does not leave one of them half way that was not so before.      *)
LEMMA SucceededStep ==
  StoreTypeOK /\ ProcessInv /\ PickedInv /\ SucceededInv /\ [StoreNext]_storeVars
    => SucceededInv'
<1> SUFFICES ASSUME StoreTypeOK, ProcessInv, PickedInv, SucceededInv,
                    [StoreNext]_storeVars
             PROVE  SucceededInv'
  OBVIOUS
<1>k. ASSUME UNCHANGED <<db, lanes, passed>> PROVE SucceededInv'
  BY <1>k DEF SucceededInv, OnlyPassed, Active
<1>m. ASSUME db' = db, at = "lane", NEW l \in LaneAfter,
             lanes' = [lanes EXCEPT ![picked] = l], passed \subseteq passed'
      PROVE  SucceededInv'
  BY <1>m, ResumedAgain DEF SucceededInv
<1>1. CASE RunLane
  <2>1. at = "lane" /\ db' = db /\ passed \subseteq passed'
    BY <1>1 DEF RunLane
  <2>2. \E l \in LaneAfter : lanes' = [lanes EXCEPT ![picked] = l]
    BY <1>1 DEF RunLane
  <2> QED BY <1>m, <2>1, <2>2
<1>2. CASE KilledResume BY <1>2, <1>k, <1>m DEF KilledResume
<1>3. CASE SaveSQLite
  <2>1. CASE db' = db BY <1>3, <2>1, <1>k DEF SaveSQLite
  <2>2. CASE db' = Row(NewStatus)
    <3>1. at = "sqlite" /\ UNCHANGED <<lanes, passed>>
      BY <1>3 DEF SaveSQLite
    <3>2. ASSUME NewStatus = "succeeded" PROVE OnlyPassed
      <4>1. outcome = "ok" BY <3>2 DEF NewStatus
      <4>2. /\ Active \subseteq passed /\ picked \in RunSpecs
            /\ lanes[picked] = "complete" \/ picked \in passed
        BY <3>1, <4>1 DEF PickedInv, Behind, StoreTypeOK
      <4>3. Cardinality(RunSpecs) = 1 => RunSpecs = {picked}
        BY <4>2, FS_Singleton, RunStoreAssumption
      <4> QED BY <4>2, <4>3 DEF OnlyPassed
    <3> QED BY <2>2, <3>1, <3>2 DEF SucceededInv, Row, OnlyPassed, Active
  <2> QED BY <1>3, <2>1, <2>2 DEF SaveSQLite
<1>4. CASE \/ ResumeRun \/ LoadManifest \/ PickSpec \/ NothingToResume
           \/ OpenStore \/ SaveJSON \/ Cancel \/ UNCHANGED storeVars
  BY <1>4, <1>k DEF ResumeRun, LoadManifest, PickSpec, NothingToResume, OpenStore,
     SaveJSON, Cancel, storeVars
<1> QED
  BY <1>1, <1>2, <1>3, <1>4 DEF StoreNext

(* The database never knows more than manifest.json, and the two are       *)
(* written alike.                                                          *)
LEMMA StoresStep ==
  StoreTypeOK /\ ProcessInv /\ PickedInv /\ StoresInv /\ [StoreNext]_storeVars
    => StoresInv'
<1> SUFFICES ASSUME StoreTypeOK, ProcessInv, PickedInv, StoresInv, [StoreNext]_storeVars
             PROVE  StoresInv'
  OBVIOUS
<1> USE DEF StoresInv, ProcessInv, Ends, GoOn, Row, NewStatus, setting, resuming
<1>1. CASE ResumeRun BY <1>1 DEF ResumeRun, StoreTypeOK
<1>2. CASE LoadManifest BY <1>2 DEF LoadManifest
<1>3. CASE PickSpec BY <1>3 DEF PickSpec
<1>4. CASE NothingToResume BY <1>4 DEF NothingToResume
<1>5. CASE RunLane BY <1>5 DEF RunLane
<1>6. CASE OpenStore BY <1>6 DEF OpenStore, Trouble, StoreTypeOK
<1>7. CASE SaveJSON
  <2>1. CASE json' = json \/ troubles' = troubles
    BY <1>7, <2>1 DEF SaveJSON, Trouble, StoreTypeOK
  <2>2. CASE json' = Row("torn")
    BY <1>7, <2>2 DEF SaveJSON, Trouble, StoreTypeOK
  <2> QED BY <1>7, <2>1, <2>2 DEF SaveJSON
<1>8. CASE SaveSQLite
  BY <1>8 DEF SaveSQLite, Trouble, StoreTypeOK, PickedInv, Behind
<1>9. CASE Cancel BY <1>9 DEF Cancel, Trouble, StoreTypeOK
<1>10. CASE KilledResume BY <1>10 DEF KilledResume, Trouble, StoreTypeOK
<1>11. CASE UNCHANGED storeVars BY <1>11 DEF storeVars
<1> QED
  BY <1>1, <1>2, <1>3, <1>4, <1>5, <1>6, <1>7, <1>8, <1>9, <1>10, <1>11 DEF StoreNext

(* In a run that was resumed into success no lane is half way but those of *)
(* which a resume returned no error; what a process returned, both stores  *)
(* tell; and the database does not know more than manifest.json, through   *)
(* kills and failing stores, for every set of specs and any number of      *)
(* resumes (cli.go:205-271).                                               *)
THEOREM StatusIsAboutLanes == StoreSpec => []StatusTellsOfLanes
<1>1. StoreInit => StoreInv
  BY DEF StoreInit, StoreInv, ProcessInv, PickedInv, SucceededInv, StoresInv, Behind, NoRow
<1>2. StoreTypeOK /\ StoreInv /\ [StoreNext]_storeVars => StoreInv'
  BY ProcessStep, PickedStep, SucceededStep, StoresStep DEF StoreInv
<1>3. StoreInv => StatusTellsOfLanes
  BY DEF StoreInv, SucceededInv, OnlyPassed, StoresInv, StatusTellsOfLanes
<1> QED
  BY <1>1, <1>2, <1>3, StoreTypeCorrect, PTL DEF StoreSpec
=============================================================================
