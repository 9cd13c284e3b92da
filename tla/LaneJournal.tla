------------------------------ MODULE LaneJournal -----------------------------
(***************************************************************************)
(* The journal of a Spec Kit lane: an observer of the runner keeps, in     *)
(* lane-journal.json, every attempt of each of the eight stages and its    *)
(* status.  It is for audit: no process decides by it where to resume, but *)
(* none starts without having read it (speckit_journal.go).                *)
(*                                                                         *)
(* A stage is named here by its primary step (specKitStageContracts).  The *)
(* observer hears of a step before it begins and after it has ended, so    *)
(* that a process may die between the artifact and the journal, and while  *)
(* it writes the journal.                                                  *)
(***************************************************************************)
EXTENDS SpecLane, FiniteSets

VARIABLES
  latest, \* the status of the latest attempt of each stage
  stale,  \* how many earlier attempts say that they are running
  heard,  \* what the observer heard last: "nothing", "started" or the end
          \* ("succeeded", "failed") of a step that it has yet to write down
  file    \* lane-journal.json is "whole" (or not there yet), or "torn"

journalVars == <<latest, stale, heard, file>>

Stages == {"specify", "plan", "tasks", "analyze", "implement", "code-review",
           "issues-from-review", "mergeback-attempt"}

(* Whose checks are in the primary step itself, and whose in a later one.  *)
ChecksItself == {"specify", "plan", "tasks", "implement"}
VerifiedBy ==
  {<<"analyze", "analyze-clean">>, <<"code-review", "review-clean">>,
   <<"mergeback-attempt", "verify-mergeback">>}

(* BlockingPolicy is remediate or resolve_conflicts.                       *)
Blocks == {"tasks", "analyze", "implement", "code-review", "mergeback-attempt"}

(* The stage whose attempt the end of a step is about.                     *)
About(step) ==
  {s \in Stages : s = step \/ <<s, step>> \in VerifiedBy}

Observed == Stages \cup {v[2] : v \in VerifiedBy}

(* hasBlockingFindings; a review without critical findings may have high   *)
(* ones.                                                                   *)
Findings(s, high) ==
  \/ s \in {"tasks", "analyze"} /\ mem.analyze = "blocking"
  \/ s = "code-review" /\ (art.review = "critical" \/ high)

StageStatus(s, step, high) ==
  IF heard = "failed"
  THEN IF s \in Blocks /\ (step # s \/ s \in ChecksItself) THEN "blocked" ELSE "failed"
  ELSE IF Findings(s, high) THEN "blocked" ELSE "succeeded"

(* Mutant: a primary step that succeeds completes its stage.               *)
Recorded_AtOnce(s, step, high) == StageStatus(s, step, high)

(* Mutant: the later step does not complete it either.                     *)
Recorded_Never(s, step, high) ==
  IF heard = "succeeded" /\ \E v \in VerifiedBy : v[1] = s
  THEN "running" ELSE StageStatus(s, step, high)

(* A stage with checks in a later step is not over with its primary step.  *)
Recorded(s, step, high) ==
  IF heard = "succeeded" /\ s = step /\ \E v \in VerifiedBy : v[1] = s
  THEN "running" ELSE StageStatus(s, step, high)

StepStarted ==
  /\ at \in Stages /\ phase = "run" /\ heard = "nothing" /\ heard' = "started"
  /\ latest' = [latest EXCEPT ![at] = "running"]
  /\ stale' = IF latest[at] = "running" THEN stale + 1 ELSE stale
  /\ UNCHANGED <<vars, file>>

(* A verify step whose failure is tolerated has failed all the same.       *)
EndOfStep ==
  IF \/ phase' # "save"
     \/ at = "analyze-clean" /\ art.analyze # "clean"
     \/ at = "review-clean" /\ art.review # "clean"
  THEN "failed" ELSE "succeeded"

RunStep ==
  /\ phase = "run" /\ heard = IF at \in Stages THEN "started" ELSE "nothing"
  /\ Step
  /\ heard' = IF at \in Observed THEN EndOfStep ELSE "nothing"
  /\ UNCHANGED <<latest, stale, file>>

(* A stage that was never begun, by this journal, is not recorded.         *)
StepCompleted ==
  /\ heard \in {"succeeded", "failed"} /\ heard' = "nothing"
  /\ \E s \in About(at), high \in BOOLEAN :
       latest' = [latest EXCEPT ![s] = IF @ = "none" THEN @ ELSE Recorded(s, at, high)]
  /\ UNCHANGED <<vars, stale, file>>

AfterStep ==
  /\ phase # "run" /\ heard = "nothing"
  /\ Step
  /\ UNCHANGED journalVars

BeginWithJournal == file = "whole" /\ Begin /\ UNCHANGED journalVars

(* The status of the lane is looked at before the journal.                 *)
SkipWithoutJournal == file = "torn" /\ SkipLane /\ UNCHANGED journalVars

JournalUnreadable ==
  /\ at = "idle" /\ file = "torn" /\ ~Completed /\ Return("fail")
  /\ UNCHANGED <<failed, mem, disk, art, git, faults, history, journalVars>>

WritesJournal ==
  \/ heard = "nothing" /\ phase = "run" /\ at \in Stages
  \/ heard \in {"succeeded", "failed"}

(* A save that is cut short leaves a journal that cannot be parsed; one    *)
(* that fails goes unnoticed, and the next one writes everything again.    *)
CrashWithJournal ==
  /\ Crash
  /\ heard' = "nothing" /\ UNCHANGED <<latest, stale>>
  /\ file' \in {file} \cup (IF WritesJournal THEN {"torn"} ELSE {})

JournalInit ==
  /\ Init
  /\ latest = [s \in Stages |-> "none"] /\ stale = 0 /\ heard = "nothing" /\ file = "whole"

JournalNext ==
  \/ BeginWithJournal \/ SkipWithoutJournal \/ JournalUnreadable
  \/ StepStarted \/ RunStep \/ StepCompleted \/ AfterStep \/ CrashWithJournal

JournalSpec == JournalInit /\ [][JournalNext]_<<vars, journalVars>>

-----------------------------------------------------------------------------
(* What an attempt that succeeded has left.                                *)
Left(s) ==
  /\ s = "specify" => art.spec # "none"
  /\ s = "plan" => art.plan # "none"
  /\ s \in {"tasks", "implement"} => art.tasks # "none"
  /\ s = "analyze" => art.analyze = "clean"
  /\ s = "code-review" => art.review = "clean"
  /\ s = "issues-from-review" => art.issues
  /\ s = "mergeback-attempt" => art.final

(* The journal is true to the artifacts that decide: a stage that it calls *)
(* succeeded has left them, whatever died in between, and a lane that      *)
(* returned success ends in it with a mergeback that succeeded             *)
(* (speckit_journal.go:77-123).                                            *)
JournalIsTrue ==
  /\ \A s \in Stages : latest[s] = "succeeded" => Left(s)
  /\ exit = "ok" => latest["mergeback-attempt"] = "succeeded"

RunningAttempts == stale + Cardinality({s \in Stages : latest[s] = "running"})

(* Every attempt is ended by the journal, but one for each fault: an       *)
(* attempt that runs for ever was left by one, which leaves one at most    *)
(* (speckit_journal.go:77-123).                                            *)
AttemptsEnd == RunningAttempts <= faults + (IF at = "idle" THEN 0 ELSE 1)
=============================================================================
