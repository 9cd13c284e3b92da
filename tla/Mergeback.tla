------------------------------- MODULE Mergeback ------------------------------
(***************************************************************************)
(* The branches of one spec: how the worktree executor and the steps of    *)
(* the Spec Kit lane use git, one git command at a time.  A worktree is    *)
(* made on a branch of its own, the work goes to a feature branch, which   *)
(* is rebased onto the increment branch (the target), squashed into it and *)
(* deleted.  A process may be killed, or git may fail, between any two     *)
(* commands; parsed.json of mergeback-attempt and of mergeback-finalize    *)
(* tell the next process where to go on.                                   *)
(*                                                                         *)
(* A tree is the set of the changes that it has.  Two trees may conflict   *)
(* when neither has all that the other has.  SpecLane has the other steps. *)
(***************************************************************************)
EXTENDS Integers, FiniteSets

CONSTANTS MaxUpsets  \* bound on kills, failing commands and failing agents

ASSUME MergebackAssumption == MaxUpsets \in Nat

Changes == {"doc", "code", "old", "other", "markers"}

Steps == {"specify", "ensure", "implement", "commit", "capture", "rebase",
          "record-attempt", "resolve", "commit-resolution", "finalize", "switch",
          "squash", "squash-commit", "delete", "release", "unpublish", "record-final"}

VARIABLES
  refs,     \* the local branches: the tree of each
  remote,   \* the branches that origin has too
  worktree, \* the worktree of the spec is there
  head,     \* what it has checked out: a branch, "detached" or "rebasing"
  apart,    \* the tree of a HEAD that is on no branch
  dirty,    \* changes that are not committed
  unmerged, \* git ls-files --unmerged lists some
  held,     \* branches that another worktree has checked out
  source,   \* vars.current_branch, in state.json
  attempt,  \* parsed.json of mergeback-attempt
  final,    \* parsed.json of mergeback-finalize is there
  mstep,    \* the next git command, "idle" without a process
  upsets,   \* count
  made,     \* what was written, for this spec or another: the artifacts tell
  neglect   \* history: an agent said that it was done, and left a conflict

mergeVars == <<refs, remote, worktree, head, apart, dirty, unmerged, held, source,
               attempt, final, mstep, upsets, made, neglect>>
history == <<made, neglect>>
tree    == <<head, apart, dirty, unmerged>>
records == <<source, attempt, final>>
outside == <<remote, held>>

Upset == upsets < MaxUpsets /\ upsets' = upsets + 1
Then(s) == mstep' = s
Stops == mstep' = "idle"

HeadTree == IF head \in DOMAIN refs THEN refs[head] ELSE apart
Branch(b, changes) == [c \in DOMAIN refs \cup {b} |-> IF c = b THEN changes ELSE refs[c]]
Clean == dirty' = {} /\ unmerged' = FALSE

(* A branch is switched to unless another worktree has it, or a rebase is  *)
(* in progress here.                                                       *)
CanSwitch(b) == b \in DOMAIN refs \ held /\ head # "rebasing"

(* git add -A; git commit: a conflict is committed as it stands.           *)
CommitAll ==
  LET changes == HeadTree \cup dirty \cup (IF unmerged THEN {"markers"} ELSE {}) IN
    /\ IF head \in DOMAIN refs THEN refs' = Branch(head, changes) /\ UNCHANGED apart
                               ELSE apart' = changes /\ UNCHANGED refs
    /\ Clean

-----------------------------------------------------------------------------
(* The lane up to the mergeback.                                           *)

(* provisionWorktree: one that is there is used again.                     *)
ProvisionWorktree ==
  /\ mstep = "idle" /\ ~worktree
  /\ IF "spec" \in DOMAIN refs THEN UNCHANGED <<refs, worktree, head, mstep, upsets>>
     ELSE /\ refs' = Branch("spec", refs["target"])
          /\ \/ worktree' = TRUE /\ head' = "spec" /\ Then("specify") /\ UNCHANGED upsets
             \/ Upset /\ UNCHANGED <<worktree, head, mstep>>
  /\ UNCHANGED <<apart, dirty, unmerged, outside, records, history>>

(* The artifacts tell the stage; a lane that is resumed behind specify     *)
(* does not come through ensure-speckit-branch.                            *)
ResumePoint(step) ==
  \/ step = "specify" /\ "doc" \notin made
  \/ step = "implement" /\ "doc" \in made /\ "code" \notin made
  \/ /\ {"doc", "code"} \subseteq made
     /\ \/ step = "commit" /\ attempt = "none"
        \/ step = "resolve" /\ attempt = "conflict"
        \/ step = "finalize" /\ attempt = "rebased"

ResumeMergeback ==
  /\ mstep = "idle" /\ worktree /\ ~final
  /\ \E step \in Steps : ResumePoint(step) /\ Then(step)
  /\ UNCHANGED <<refs, worktree, tree, outside, records, upsets, history>>

SpecifyDocument ==
  /\ mstep = "specify" /\ Then("ensure")
  /\ refs' = Branch(head, refs[head] \cup {"doc"}) /\ made' = made \cup {"doc"}
  /\ UNCHANGED <<worktree, tree, outside, records, upsets, neglect>>

(* Mutant: git switch -C. *)
EnsureFeatureBranch_Resets ==
  /\ mstep = "ensure"
  /\ refs' = Branch("feature", HeadTree) /\ head' = "feature" /\ Then("implement")
  /\ UNCHANGED <<worktree, apart, dirty, unmerged, outside, records, upsets, history>>

(* The name of the branch does not depend on the run: one that an earlier  *)
(* run of the spec has left is switched to.                                *)
EnsureFeatureBranch ==
  /\ mstep = "ensure"
  /\ IF "feature" \in DOMAIN refs
     THEN /\ UNCHANGED refs
          /\ IF CanSwitch("feature") THEN head' = "feature" /\ Then("implement")
                                     ELSE Stops /\ UNCHANGED head
     ELSE refs' = Branch("feature", HeadTree) /\ head' = "feature" /\ Then("implement")
  /\ UNCHANGED <<worktree, apart, dirty, unmerged, outside, records, upsets, history>>

(* The steps in the loop leave it to commit-before-mergeback to commit.    *)
ImplementSpec ==
  /\ mstep = "implement" /\ Then("commit")
  /\ dirty' = dirty \cup {"code"} /\ made' = made \cup {"code"}
  /\ UNCHANGED <<refs, worktree, head, apart, unmerged, outside, records, upsets, neglect>>

-----------------------------------------------------------------------------
(* The mergeback: its steps, and the git commands of each.                 *)

CommitBeforeMergeback ==
  /\ mstep = "commit" /\ CommitAll /\ Then("capture")
  /\ UNCHANGED <<worktree, head, outside, records, upsets, history>>

(* A HEAD on no branch is no error, but has no name.                       *)
CaptureSource ==
  /\ mstep = "capture" /\ Then("rebase")
  /\ source' = IF head \in DOMAIN refs THEN head ELSE ""
  /\ UNCHANGED <<refs, worktree, tree, outside, attempt, final, upsets, history>>

Conflicting(b) == ~(refs["target"] \subseteq refs[b])

Rebase ==
  /\ mstep = "rebase"
  /\ \/ /\ source = "" /\ Stops /\ UNCHANGED <<refs, tree>>
     \/ /\ source # "" /\ Then("record-attempt")
        /\ \/ /\ refs' = Branch(source, refs[source] \cup refs["target"])
              /\ head' = source /\ UNCHANGED <<apart, dirty, unmerged>>
           \/ /\ Conflicting(source)
              /\ head' = "rebasing" /\ apart' = refs["target"]
              /\ dirty' = refs[source] /\ unmerged' = TRUE /\ UNCHANGED refs
  /\ UNCHANGED <<worktree, outside, records, upsets, history>>

(* Mutant: the engine commits after mergeback-attempt as well. *)
RecordAttempt_Commits ==
  /\ mstep = "record-attempt" /\ Then("resolve")
  /\ attempt' = (IF unmerged THEN "conflict" ELSE "rebased") /\ CommitAll
  /\ UNCHANGED <<worktree, head, outside, source, final, upsets, history>>

RecordAttempt ==
  /\ mstep = "record-attempt" /\ Then("resolve")
  /\ attempt' = IF unmerged THEN "conflict" ELSE "rebased"
  /\ UNCHANGED <<refs, worktree, tree, outside, source, final, upsets, history>>

(* The agent finishes a rebase, as it finds it or put right; when there is *)
(* none, it may leave things as they are, or rebase anew.                  *)
ResolveConflict ==
  /\ mstep = "resolve" /\ Then("commit-resolution") /\ UNCHANGED upsets
  /\ \/ /\ head = "rebasing" /\ ~unmerged
        /\ \E markers \in SUBSET {"markers"} :
             refs' = Branch(source, (refs[source] \cup apart) \ markers)
     \/ /\ head = "rebasing" /\ unmerged
        /\ refs' = Branch(source, refs[source] \cup apart)
     \/ /\ CanSwitch(source) /\ source # ""
        /\ refs' = Branch(source, refs[source] \cup refs["target"])
  /\ head' = source /\ Clean
  /\ UNCHANGED <<worktree, apart, outside, records, history>>

(* It may also say that it is done when it is not.                         *)
LeaveUnresolved ==
  /\ mstep = "resolve" /\ Then("commit-resolution")
  /\ IF head = "rebasing" \/ unmerged THEN Upset ELSE UNCHANGED upsets
  /\ neglect' = (neglect \/ unmerged)
  /\ UNCHANGED <<refs, worktree, tree, outside, records, made>>

AbortRebase ==
  /\ mstep = "resolve" /\ head = "rebasing" /\ Upset
  /\ Then("commit-resolution") /\ head' = source /\ Clean
  /\ UNCHANGED <<refs, worktree, apart, outside, records, history>>

(* The engine commits what the agent left.                                 *)
CommitResolution ==
  /\ mstep = "commit-resolution" /\ CommitAll /\ Then("finalize")
  /\ UNCHANGED <<worktree, head, outside, records, upsets, history>>

(* A source that is gone has been merged.                                  *)
Finalize ==
  /\ mstep = "finalize"
  /\ IF unmerged THEN Stops
     ELSE IF source \notin DOMAIN refs THEN Then("release") ELSE Then("switch")
  /\ UNCHANGED <<refs, worktree, tree, outside, records, upsets, history>>

SwitchTarget ==
  /\ mstep = "switch"
  /\ IF CanSwitch("target") THEN head' = "target" /\ Then("squash")
                            ELSE Stops /\ UNCHANGED head
  /\ UNCHANGED <<refs, worktree, apart, dirty, unmerged, outside, records, upsets, history>>

(* The target may have moved since the rebase.                             *)
Squash ==
  /\ mstep = "squash" /\ dirty' = refs[source] \ refs["target"]
  /\ \/ Then("squash-commit") /\ UNCHANGED unmerged
     \/ Conflicting(source) /\ unmerged' = TRUE /\ Stops
  /\ UNCHANGED <<refs, worktree, head, apart, outside, records, upsets, history>>

(* Mutant: the source is deleted before the squash is committed. *)
CommitSquash_DeletesFirst ==
  /\ mstep = "squash-commit"
  /\ IF source \in DOMAIN refs
     THEN /\ refs' = [b \in DOMAIN refs \ {source} |-> refs[b]]
          /\ UNCHANGED <<apart, dirty, unmerged, mstep>>
     ELSE CommitAll /\ Then("release")
  /\ UNCHANGED <<worktree, head, outside, records, upsets, history>>

CommitSquash ==
  /\ mstep = "squash-commit" /\ CommitAll /\ Then("delete")
  /\ UNCHANGED <<worktree, head, outside, records, upsets, history>>

DeleteSource ==
  /\ mstep = "delete"
  /\ IF refs["target"] # refs[source] THEN Stops /\ UNCHANGED refs
     ELSE refs' = [b \in DOMAIN refs \ {source} |-> refs[b]] /\ Then("release")
  /\ UNCHANGED <<worktree, tree, outside, records, upsets, history>>

(* releaseBranchIfCurrent                                                  *)
ReleaseTarget ==
  /\ mstep = "release" /\ Then("unpublish")
  /\ head' = IF head = "target" THEN "detached" ELSE head
  /\ apart' = IF head = "target" THEN refs["target"] ELSE apart
  /\ UNCHANGED <<refs, worktree, dirty, unmerged, outside, records, upsets, history>>

DeleteRemote ==
  /\ mstep = "unpublish" /\ Then("record-final")
  /\ remote' = remote \ {source}
  /\ UNCHANGED <<refs, worktree, tree, held, records, upsets, history>>

(* verify-mergeback finds what this has written.                           *)
RecordFinal ==
  /\ mstep = "record-final" /\ Stops /\ final' = TRUE
  /\ UNCHANGED <<refs, worktree, tree, outside, source, attempt, upsets, history>>

(* The process is killed, a command fails or the agent does.               *)
Interrupted ==
  /\ mstep # "idle" /\ Upset /\ Stops
  /\ UNCHANGED <<refs, worktree, tree, outside, records, history>>

-----------------------------------------------------------------------------
(* Outside of the process.                                                 *)

(* Another lane of the run is merged, in between two processes of this.    *)
OtherLane ==
  /\ mstep = "idle" /\ head # "target" /\ "target" \notin held
  /\ "other" \notin refs["target"]
  /\ refs' = Branch("target", refs["target"] \cup {"other"}) /\ made' = made \cup {"other"}
  /\ UNCHANGED <<worktree, tree, outside, records, mstep, upsets, neglect>>

(* The operator removes a worktree that was left behind.                   *)
FreeBranches ==
  /\ mstep = "idle" /\ held # {} /\ held' = {}
  /\ UNCHANGED <<refs, remote, worktree, tree, records, mstep, upsets, history>>

MergebackInit ==
  /\ \E left \in SUBSET {"feature"} :
       /\ refs = [b \in {"target"} \cup left |-> IF b = "target" THEN {} ELSE {"old"}]
       /\ remote \in SUBSET left /\ held \in SUBSET (left \cup {"target"})
       /\ made = IF left = {} THEN {} ELSE {"old"}
  /\ worktree = FALSE /\ head = "detached" /\ apart = {} /\ dirty = {} /\ unmerged = FALSE
  /\ source = "" /\ attempt = "none" /\ final = FALSE /\ mstep = "idle" /\ upsets = 0
  /\ neglect = FALSE

MergebackNext ==
  \/ ProvisionWorktree \/ ResumeMergeback \/ SpecifyDocument \/ EnsureFeatureBranch
  \/ ImplementSpec \/ CommitBeforeMergeback \/ CaptureSource \/ Rebase \/ RecordAttempt
  \/ ResolveConflict \/ LeaveUnresolved \/ AbortRebase \/ CommitResolution
  \/ Finalize \/ SwitchTarget \/ Squash \/ CommitSquash \/ DeleteSource
  \/ ReleaseTarget \/ DeleteRemote \/ RecordFinal
  \/ Interrupted \/ OtherLane \/ FreeBranches

MergebackSpec == MergebackInit /\ [][MergebackNext]_mergeVars

-----------------------------------------------------------------------------
MergebackTypeOK ==
  /\ DOMAIN refs \subseteq {"spec", "feature", "target"} /\ "target" \in DOMAIN refs
  /\ \A b \in DOMAIN refs : refs[b] \subseteq Changes
  /\ remote \subseteq {"feature"} /\ held \subseteq {"feature", "target"}
  /\ worktree \in BOOLEAN /\ unmerged \in BOOLEAN /\ final \in BOOLEAN
  /\ head \in {"spec", "feature", "target", "detached", "rebasing"}
  /\ apart \subseteq Changes /\ dirty \subseteq Changes /\ made \subseteq Changes
  /\ mstep \in Steps \cup {"idle"}
  /\ source \in {"", "spec", "feature"} /\ attempt \in {"none", "conflict", "rebased"}
  /\ upsets \in 0..MaxUpsets /\ neglect \in BOOLEAN

(* Whatever is interrupted, aborted or resumed, in whichever run of the    *)
(* spec: nothing that was written is gone.  It is on a branch or in the    *)
(* worktree (function_handlers.go:179-207, 384-496).                       *)
NothingLost == made \subseteq dirty \cup UNION {refs[b] : b \in DOMAIN refs}

(* A mergeback that is recorded as final is one: the increment branch has  *)
(* the work, and the branch it came from is gone, here and at the remote,  *)
(* also when it was recorded by a process that found the source deleted    *)
(* (function_handlers.go:412-438; speckit_artifact_state.go:208-221).      *)
RecordIsTrue ==
  final => /\ "code" \in refs["target"]
           /\ source \notin DOMAIN refs /\ source \notin remote

(* No branch ever has a conflict committed in it, unless an agent reported *)
(* that it had resolved one that it had not: the commands of the engine,   *)
(* which commit whatever they find, and the processes that die among them  *)
(* do not do it alone (runner.go:255-259; function_handlers.go:283-315).   *)
OnlyAgentsLeaveMarkers ==
  (\E b \in DOMAIN refs : "markers" \in refs[b]) => neglect
=============================================================================
