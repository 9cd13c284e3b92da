--------------------------- MODULE MergebackProofs --------------------------
(***************************************************************************)
(* Proofs about the branches of a spec, for any number of kills, of git    *)
(* commands that fail and of agents that do, at any point.                 *)
(***************************************************************************)
EXTENDS Mergeback, TLAPS

(* The work is done in this order; the document and the code are there     *)
(* before a mergeback is tried, and a finished one ends the process.       *)
OrderInv ==
  /\ "markers" \notin made
  /\ mstep \in {"ensure", "implement"} => "doc" \in made
  /\ mstep \in {"specify", "ensure", "implement"} => attempt = "none" /\ "code" \notin made
  /\ "code" \in made => "doc" \in made
  /\ "doc" \in made => worktree
  /\ mstep \notin {"idle", "specify", "ensure", "implement"} => {"doc", "code"} \subseteq made
  /\ (attempt # "none" \/ head = "rebasing") => {"doc", "code"} \subseteq made
  /\ mstep \in {"commit", "capture", "rebase", "record-attempt"} => attempt = "none"
  /\ mstep \in {"resolve", "commit-resolution", "finalize", "switch", "squash",
                "squash-commit", "delete", "release", "unpublish", "record-final"}
       => attempt # "none"
  /\ mstep # "idle" => worktree /\ ~final
  /\ attempt # "none" => worktree

(* Where HEAD is.  Until an attempt is recorded it is on a branch of the   *)
(* spec, or in a rebase; during a rebase, the branch it is about is there. *)
HeadInv ==
  /\ ~worktree => head = "detached" /\ dirty = {} /\ ~unmerged
  /\ (worktree /\ attempt = "none") =>
       head = "rebasing" \/ head \in {"spec", "feature"} \cap DOMAIN refs
  /\ mstep \in {"specify", "ensure", "implement"} => head \in DOMAIN refs
  /\ (worktree /\ "doc" \notin made) => head = "spec"
  /\ head \in {"spec", "feature", "target"} => head \in DOMAIN refs
  /\ mstep \in {"squash", "squash-commit", "delete"} => head = "target"
  /\ (attempt = "none" /\ unmerged) => head = "rebasing"
  /\ (mstep = "rebase" /\ source # "") => head = source /\ source \in DOMAIN refs
  /\ (mstep = "record-attempt" \/ attempt # "none") => source # ""
  /\ (head = "rebasing" /\ (mstep = "record-attempt" \/ attempt # "none"))
       => source \in DOMAIN refs

(* What was written is on a branch, once it has been committed; what is    *)
(* not is where HEAD is.                                                   *)
WorkInv ==
  /\ NothingLost
  /\ (attempt # "none" \/ mstep \in {"capture", "rebase", "record-attempt"}
       \/ head \notin DOMAIN refs) => made \subseteq UNION {refs[b] : b \in DOMAIN refs}
  /\ mstep \in {"capture", "rebase"} => dirty = {}

(* The code is on the branch that the mergeback is about, until this one   *)
(* is deleted, when the target has it.                                     *)
CodeInv ==
  /\ (attempt = "none" /\ "code" \in made /\ head \in DOMAIN refs)
       => "code" \in dirty \cup refs[head]
  /\ (mstep = "record-attempt" \/ (mstep = "rebase" /\ source # ""))
       => source \in DOMAIN refs /\ "code" \in refs[source]
  /\ attempt # "none" =>
       IF source \in DOMAIN refs THEN "code" \in refs[source] ELSE "code" \in refs["target"]
  /\ mstep \in {"switch", "squash", "squash-commit", "delete"} => source \in DOMAIN refs
  /\ mstep \in {"release", "unpublish", "record-final"} => source \notin DOMAIN refs
  /\ mstep = "record-final" => source \notin remote
  /\ RecordIsTrue /\ (final => attempt # "none" /\ worktree)

(* Conflicts that nobody has resolved.                                     *)
MarkersInv ==
  /\ OnlyAgentsLeaveMarkers
  /\ "markers" \in dirty => neglect
  /\ "markers" \in apart =>
       \/ neglect
       \/ /\ attempt = "none" /\ head = "rebasing"
          /\ mstep \in {"idle", "commit", "capture", "rebase"}
  /\ (mstep = "rebase" /\ head = "rebasing") => source = ""
  /\ (mstep = "commit-resolution" /\ unmerged) => neglect
  /\ mstep \in {"capture", "rebase", "switch", "squash", "squash-commit", "delete",
                "release", "unpublish", "record-final"} => ~unmerged
  /\ dirty \subseteq Changes /\ apart \subseteq Changes

MergebackInv ==
  MergebackTypeOK /\ OrderInv /\ HeadInv /\ WorkInv /\ CodeInv /\ MarkersInv

-----------------------------------------------------------------------------
(* A branch is made, or gets another tree; the others stay.                *)
LEMMA BranchFacts ==
  ASSUME NEW b, NEW changes
  PROVE  /\ DOMAIN Branch(b, changes) = DOMAIN refs \cup {b}
         /\ \A c \in DOMAIN refs \cup {b} :
              Branch(b, changes)[c] = IF c = b THEN changes ELSE refs[c]
  BY DEF Branch

(* A commit keeps every branch, and puts what HEAD has, what was changed   *)
(* and what conflicts on the branch that is checked out, if any.           *)
LEMMA CommitFacts ==
  ASSUME CommitAll
  PROVE  /\ dirty' = {} /\ unmerged' = FALSE /\ DOMAIN refs' = DOMAIN refs
         /\ \A b \in DOMAIN refs : b # head => refs'[b] = refs[b]
         /\ head \in DOMAIN refs =>
              /\ refs'[head] = refs[head] \cup dirty \cup (IF unmerged THEN {"markers"} ELSE {})
              /\ apart' = apart
         /\ head \notin DOMAIN refs =>
              /\ refs' = refs
              /\ apart' = apart \cup dirty \cup (IF unmerged THEN {"markers"} ELSE {})
<1> DEFINE changes == HeadTree \cup dirty \cup (IF unmerged THEN {"markers"} ELSE {})
<1>1. /\ dirty' = {} /\ unmerged' = FALSE
      /\ IF head \in DOMAIN refs THEN refs' = Branch(head, changes) /\ UNCHANGED apart
                               ELSE apart' = changes /\ UNCHANGED refs
  BY DEF CommitAll, Clean
<1>2. changes = (IF head \in DOMAIN refs THEN refs[head] ELSE apart)
                  \cup dirty \cup (IF unmerged THEN {"markers"} ELSE {})
  BY DEF HeadTree
<1> HIDE DEF changes
<1>3. CASE head \in DOMAIN refs
  <2>1. refs' = Branch(head, changes) /\ apart' = apart
    BY <1>1, <1>3
  <2>2. /\ DOMAIN refs' = DOMAIN refs \cup {head}
        /\ \A c \in DOMAIN refs \cup {head} : refs'[c] = IF c = head THEN changes ELSE refs[c]
    BY <2>1 DEF Branch
  <2>3. DOMAIN refs' = DOMAIN refs
    BY <2>2, <1>3
  <2> QED BY <1>1, <1>2, <1>3, <2>1, <2>2, <2>3
<1>4. CASE head \notin DOMAIN refs
  BY <1>1, <1>2, <1>4
<1> QED
  BY <1>3, <1>4

(* The branches, and what is on them.                                      *)
RefsOK ==
  /\ DOMAIN refs \subseteq {"spec", "feature", "target"} /\ "target" \in DOMAIN refs
  /\ \A b \in DOMAIN refs : refs[b] \subseteq Changes

(* Branches that are made or committed to have changes on them.            *)
LEMMA BranchType ==
  ASSUME RefsOK, NEW b \in {"spec", "feature", "target"}, NEW x \in SUBSET Changes,
         refs' = Branch(b, x)
  PROVE  RefsOK'
<1>1. DOMAIN refs' = DOMAIN refs \cup {b}
  BY DEF Branch
<1>2. \A c \in DOMAIN refs' : refs'[c] = IF c = b THEN x ELSE refs[c]
  BY DEF Branch
<1> QED
  BY <1>1, <1>2 DEF RefsOK

(* Upsets are counted up to the bound.                                     *)
LEMMA UpsetBound ==
  ASSUME MergebackTypeOK, Upset PROVE upsets' \in 0..MaxUpsets
<1>1. upsets \in 0..MaxUpsets BY DEF MergebackTypeOK
<1>2. upsets < MaxUpsets /\ upsets' = upsets + 1 BY DEF Upset
<1>3. MaxUpsets \in Nat BY MergebackAssumption
<1> QED BY <1>1, <1>2, <1>3

(* What is on some branch.                                                 *)
OnBranches == UNION {refs[b] : b \in DOMAIN refs}

(* The order of the steps is kept.                                         *)
LEMMA OrderStep ==
  MergebackTypeOK /\ OrderInv /\ HeadInv /\ CodeInv /\ [MergebackNext]_mergeVars => OrderInv'
<1> SUFFICES ASSUME MergebackTypeOK, OrderInv, HeadInv, CodeInv, [MergebackNext]_mergeVars
             PROVE OrderInv'
  OBVIOUS
<1> USE DEF Then, Stops, tree, records, outside, history, OrderInv
<1>1. CASE ProvisionWorktree BY <1>1 DEF ProvisionWorktree, CodeInv
<1>2. CASE ResumeMergeback BY <1>2 DEF ResumeMergeback, ResumePoint
<1>3. CASE SpecifyDocument BY <1>3 DEF SpecifyDocument
<1>4. CASE EnsureFeatureBranch BY <1>4 DEF EnsureFeatureBranch
<1>5. CASE ImplementSpec BY <1>5 DEF ImplementSpec
<1>6. CASE CommitBeforeMergeback BY <1>6 DEF CommitBeforeMergeback
<1>7. CASE CaptureSource BY <1>7 DEF CaptureSource
<1>8. CASE Rebase BY <1>8 DEF Rebase, HeadInv
<1>9. CASE RecordAttempt BY <1>9 DEF RecordAttempt
<1>10. CASE ResolveConflict BY <1>10 DEF ResolveConflict, HeadInv, MergebackTypeOK
<1>11. CASE LeaveUnresolved BY <1>11 DEF LeaveUnresolved
<1>12. CASE AbortRebase BY <1>12 DEF AbortRebase, HeadInv, MergebackTypeOK
<1>13. CASE CommitResolution BY <1>13 DEF CommitResolution
<1>14. CASE Finalize BY <1>14 DEF Finalize
<1>15. CASE SwitchTarget BY <1>15 DEF SwitchTarget
<1>16. CASE Squash BY <1>16 DEF Squash
<1>17. CASE CommitSquash BY <1>17 DEF CommitSquash
<1>18. CASE DeleteSource BY <1>18 DEF DeleteSource
<1>19. CASE ReleaseTarget BY <1>19 DEF ReleaseTarget
<1>20. CASE DeleteRemote BY <1>20 DEF DeleteRemote
<1>21. CASE RecordFinal BY <1>21 DEF RecordFinal
<1>22. CASE Interrupted BY <1>22 DEF Interrupted
<1>23. CASE OtherLane BY <1>23 DEF OtherLane
<1>24. CASE FreeBranches BY <1>24 DEF FreeBranches
<1>25. CASE UNCHANGED mergeVars BY <1>25 DEF mergeVars
<1> QED
  BY <1>1, <1>2, <1>3, <1>4, <1>5, <1>6, <1>7, <1>8, <1>9, <1>10, <1>11, <1>12,
     <1>13, <1>14, <1>15, <1>16, <1>17, <1>18, <1>19, <1>20, <1>21, <1>22,
     <1>23, <1>24, <1>25 DEF MergebackNext

(* Every variable keeps its type.                                          *)
LEMMA MergebackTypeStep == MergebackInv /\ [MergebackNext]_mergeVars => MergebackTypeOK'
<1> SUFFICES ASSUME MergebackInv, [MergebackNext]_mergeVars PROVE MergebackTypeOK'
  OBVIOUS
<1>r. RefsOK
  BY DEF MergebackInv, MergebackTypeOK, RefsOK
<1> USE DEF Then, Stops, tree, records, outside, history,
    MergebackInv, MergebackTypeOK, Changes
<1>1. CASE ProvisionWorktree
  <2>1. upsets' \in 0..MaxUpsets
    BY <1>1, UpsetBound DEF ProvisionWorktree
  <2>2. refs' = refs \/ refs' = Branch("spec", refs["target"])
    BY <1>1 DEF ProvisionWorktree
  <2>3. RefsOK'
    BY <1>r, <2>2, BranchType DEF RefsOK
  <2> QED BY <1>1, <2>1, <2>3 DEF ProvisionWorktree, Steps, RefsOK
<1>2. CASE ResumeMergeback BY <1>2, ZenonT(60) DEF ResumeMergeback, ResumePoint, Steps
<1>3. CASE SpecifyDocument BY <1>3 DEF SpecifyDocument, Branch, HeadInv, Steps
<1>4. CASE EnsureFeatureBranch
  <2>1. head \in DOMAIN refs
    BY <1>4 DEF EnsureFeatureBranch, HeadInv
  <2>2. refs' = refs \/ refs' = Branch("feature", refs[head])
    BY <1>4, <2>1 DEF EnsureFeatureBranch, HeadTree
  <2>3. RefsOK'
    BY <1>r, <2>1, <2>2, BranchType DEF RefsOK
  <2> QED BY <1>4, <2>3, ZenonT(60) DEF EnsureFeatureBranch, Steps, RefsOK
<1>5. CASE ImplementSpec BY <1>5 DEF ImplementSpec, Steps
<1>6. CASE CommitBeforeMergeback BY <1>6, CommitFacts, ZenonT(60) DEF CommitBeforeMergeback, Steps
<1>7. CASE CaptureSource BY <1>7 DEF CaptureSource, HeadInv, OrderInv, Steps
<1>8. CASE Rebase
  <2>1. source # "" => head = source /\ source \in DOMAIN refs
    BY <1>8 DEF Rebase, HeadInv
  <2>2. \/ refs' = refs
        \/ source # "" /\ refs' = Branch(source, refs[source] \cup refs["target"])
    BY <1>8, <2>1 DEF Rebase
  <2>3. RefsOK'
    BY <1>r, <2>1, <2>2, BranchType DEF RefsOK
  <2>4. apart' \subseteq Changes /\ dirty' \subseteq Changes /\ unmerged' \in BOOLEAN
    BY <1>8, <2>1 DEF Rebase
  <2> QED BY <1>8, <2>1, <2>3, <2>4 DEF Rebase, Steps, RefsOK
<1>9. CASE RecordAttempt BY <1>9 DEF RecordAttempt, Steps
<1>10. CASE ResolveConflict
  <2>1. source # "" /\ source \in DOMAIN refs
    BY <1>10 DEF ResolveConflict, HeadInv, OrderInv, CanSwitch
  <2>2. \E x \in SUBSET Changes : refs' = Branch(source, x)
    BY <1>10, <2>1 DEF ResolveConflict
  <2>3. RefsOK'
    BY <1>r, <2>1, <2>2, BranchType
  <2> QED BY <1>10, <2>1, <2>3 DEF ResolveConflict, Clean, Steps, RefsOK
<1>11. CASE LeaveUnresolved
  <2>1. upsets' \in 0..MaxUpsets
    BY <1>11, UpsetBound DEF LeaveUnresolved
  <2>2. neglect' \in BOOLEAN
    BY <1>11, Zenon DEF LeaveUnresolved
  <2> QED BY <1>11, <2>1, <2>2 DEF LeaveUnresolved, Steps
<1>12. CASE AbortRebase
  <2>1. upsets' \in 0..MaxUpsets /\ source # ""
    BY <1>12, UpsetBound DEF AbortRebase, OrderInv, HeadInv
  <2> QED BY <1>12, <2>1 DEF AbortRebase, Clean, Steps
<1>13. CASE CommitResolution BY <1>13, CommitFacts, ZenonT(60) DEF CommitResolution, Steps
<1>14. CASE Finalize BY <1>14, ZenonT(60) DEF Finalize, Steps
<1>15. CASE SwitchTarget BY <1>15, ZenonT(60) DEF SwitchTarget, Steps
<1>16. CASE Squash BY <1>16, ZenonT(60) DEF Squash, CodeInv, Conflicting, Steps
<1>17. CASE CommitSquash BY <1>17, CommitFacts, ZenonT(60) DEF CommitSquash, Steps
<1>18. CASE DeleteSource
  <2>1. source # "target"
    OBVIOUS
  <2>2. refs' = refs \/ refs' = [b \in DOMAIN refs \ {source} |-> refs[b]]
    BY <1>18 DEF DeleteSource
  <2>3. RefsOK'
    BY <1>r, <2>1, <2>2 DEF RefsOK
  <2> QED BY <1>18, <2>3, ZenonT(60) DEF DeleteSource, Steps, RefsOK
<1>19. CASE ReleaseTarget BY <1>19 DEF ReleaseTarget, Steps
<1>20. CASE DeleteRemote BY <1>20, ZenonT(60) DEF DeleteRemote, Steps
<1>21. CASE RecordFinal BY <1>21 DEF RecordFinal, Steps
<1>22. CASE Interrupted
  <2>1. upsets' \in 0..MaxUpsets
    BY <1>22, UpsetBound DEF Interrupted
  <2> QED BY <1>22, <2>1 DEF Interrupted
<1>23. CASE OtherLane BY <1>23 DEF OtherLane, Branch
<1>24. CASE FreeBranches BY <1>24, ZenonT(60) DEF FreeBranches
<1>25. CASE UNCHANGED mergeVars BY <1>25, ZenonT(60) DEF mergeVars
<1> QED
  BY <1>1, <1>2, <1>3, <1>4, <1>5, <1>6, <1>7, <1>8, <1>9, <1>10, <1>11, <1>12,
     <1>13, <1>14, <1>15, <1>16, <1>17, <1>18, <1>19, <1>20, <1>21, <1>22,
     <1>23, <1>24, <1>25 DEF MergebackNext

(* HEAD stays on a branch of the spec until an attempt is recorded.        *)
LEMMA HeadStep == MergebackInv /\ MergebackTypeOK' /\ [MergebackNext]_mergeVars => HeadInv'
<1> SUFFICES ASSUME MergebackInv, MergebackTypeOK', [MergebackNext]_mergeVars
             PROVE HeadInv'
  OBVIOUS
<1> USE DEF Then, Stops, tree, records, outside, history,
    MergebackInv, HeadInv
<1>1. CASE ProvisionWorktree
  <2>1. /\ mstep = "idle" /\ ~worktree /\ "target" \in DOMAIN refs
        /\ head = "detached" /\ dirty = {} /\ ~unmerged /\ attempt = "none"
    BY <1>1 DEF ProvisionWorktree, OrderInv, MergebackTypeOK
  <2>2. /\ dirty' = dirty /\ unmerged' = unmerged /\ source' = source
        /\ attempt' = attempt /\ made' = made
    BY <1>1 DEF ProvisionWorktree
  <2>3. ~unmerged'
    BY <2>1, <2>2
  <2>4. CASE worktree' = worktree /\ head' = head /\ mstep' = mstep
    <3>1. ~worktree'
      BY <2>1, <2>4
    <3> QED BY <2>1, <2>2, <2>3, <2>4, <3>1
  <2>5. CASE worktree' = TRUE /\ head' = "spec" /\ mstep' = "specify" /\ "spec" \in DOMAIN refs'
    BY <2>1, <2>2, <2>3, <2>5
  <2> QED BY <1>1, <2>4, <2>5 DEF ProvisionWorktree, Branch
<1>2. CASE ResumeMergeback BY <1>2 DEF ResumeMergeback, ResumePoint, OrderInv
<1>3. CASE SpecifyDocument BY <1>3 DEF SpecifyDocument, Branch
<1>4. CASE EnsureFeatureBranch
  <2>1. /\ attempt = "none" /\ head \in DOMAIN refs /\ "doc" \in made
        /\ mstep = "ensure" /\ worktree /\ head # "rebasing"
    BY <1>4 DEF EnsureFeatureBranch, OrderInv, MergebackTypeOK
  <2>2. /\ DOMAIN refs \subseteq DOMAIN refs'
        /\ \/ head' = head /\ mstep' = "idle"
           \/ head' = "feature" /\ head' \in DOMAIN refs' /\ mstep' = "implement"
    BY <1>4 DEF EnsureFeatureBranch, Branch
  <2>3. UNCHANGED <<worktree, dirty, unmerged, source, attempt, made>>
    BY <1>4 DEF EnsureFeatureBranch
  <2> QED BY <2>1, <2>2, <2>3
<1>5. CASE ImplementSpec BY <1>5 DEF ImplementSpec, OrderInv
<1>6. CASE CommitBeforeMergeback BY <1>6, CommitFacts DEF CommitBeforeMergeback, OrderInv
<1>7. CASE CaptureSource BY <1>7 DEF CaptureSource, OrderInv
<1>8. CASE Rebase BY <1>8 DEF Rebase, Branch, OrderInv, CodeInv, WorkInv, MergebackTypeOK
<1>9. CASE RecordAttempt BY <1>9 DEF RecordAttempt, OrderInv
<1>10. CASE ResolveConflict
  BY <1>10 DEF ResolveConflict, Branch, Clean, OrderInv, CanSwitch, MergebackTypeOK
<1>11. CASE LeaveUnresolved BY <1>11 DEF LeaveUnresolved
<1>12. CASE AbortRebase BY <1>12 DEF AbortRebase, Clean, OrderInv
<1>13. CASE CommitResolution BY <1>13, CommitFacts DEF CommitResolution, OrderInv
<1>14. CASE Finalize BY <1>14 DEF Finalize, OrderInv
<1>15. CASE SwitchTarget BY <1>15 DEF SwitchTarget, OrderInv, CanSwitch
<1>16. CASE Squash BY <1>16 DEF Squash, OrderInv
<1>17. CASE CommitSquash BY <1>17, CommitFacts DEF CommitSquash, OrderInv
<1>18. CASE DeleteSource
  <2>1. attempt # "none" /\ worktree /\ source # "" /\ mstep = "delete"
    BY <1>18 DEF DeleteSource, OrderInv
  <2>2. head = "target" /\ "target" \in DOMAIN refs /\ source # "target"
    BY <2>1 DEF MergebackTypeOK
  <2>3. "target" \in DOMAIN refs'
    BY <1>18, <2>2 DEF DeleteSource
  <2> QED BY <1>18, <2>1, <2>2, <2>3 DEF DeleteSource
<1>19. CASE ReleaseTarget BY <1>19 DEF ReleaseTarget, OrderInv
<1>20. CASE DeleteRemote BY <1>20 DEF DeleteRemote, OrderInv
<1>21. CASE RecordFinal BY <1>21 DEF RecordFinal, OrderInv
<1>22. CASE Interrupted BY <1>22 DEF Interrupted
<1>23. CASE OtherLane BY <1>23 DEF OtherLane, Branch, MergebackTypeOK
<1>24. CASE FreeBranches BY <1>24 DEF FreeBranches
<1>25. CASE UNCHANGED mergeVars BY <1>25 DEF mergeVars
<1> QED
  BY <1>1, <1>2, <1>3, <1>4, <1>5, <1>6, <1>7, <1>8, <1>9, <1>10, <1>11, <1>12,
     <1>13, <1>14, <1>15, <1>16, <1>17, <1>18, <1>19, <1>20, <1>21, <1>22,
     <1>23, <1>24, <1>25 DEF MergebackNext

-----------------------------------------------------------------------------
(* The work.                                                               *)

(* A step that keeps what is on the branches keeps the work.               *)
LEMMA WorkOnBranches ==
  ASSUME made' \subseteq OnBranches', mstep' \in {"capture", "rebase"} => dirty' = {}
  PROVE  WorkInv'
  BY DEF WorkInv, NothingLost, OnBranches

(* Branches that only grow keep all that is on them.                       *)
LEMMA BranchesGrow ==
  ASSUME DOMAIN refs \subseteq DOMAIN refs',
         \A b \in DOMAIN refs : refs[b] \subseteq refs'[b]
  PROVE  OnBranches \subseteq OnBranches'
  BY DEF OnBranches

(* A branch that is made, or gets more, keeps all that is on them.         *)
LEMMA BranchKeeps ==
  ASSUME NEW b, NEW x, refs' = Branch(b, x), b \in DOMAIN refs => refs[b] \subseteq x
  PROVE  OnBranches \subseteq OnBranches' /\ x \subseteq OnBranches'
<1>1. DOMAIN refs' = DOMAIN refs \cup {b}
  BY DEF Branch
<1>2. \A c \in DOMAIN refs' : refs'[c] = IF c = b THEN x ELSE refs[c]
  BY DEF Branch
<1> QED
  BY <1>1, <1>2 DEF OnBranches

(* A commit to a branch takes with it all that was not committed.          *)
LEMMA CommitKeeps ==
  ASSUME CommitAll
  PROVE  /\ OnBranches \subseteq OnBranches'
         /\ head \in DOMAIN refs => dirty \subseteq OnBranches'
<1>1. OnBranches \subseteq OnBranches'
  <2>1. \A b \in DOMAIN refs : refs[b] \subseteq refs'[b]
    BY CommitFacts
  <2> QED BY <2>1, CommitFacts, BranchesGrow
<1>2. head \in DOMAIN refs => dirty \subseteq OnBranches'
  BY CommitFacts DEF OnBranches
<1> QED BY <1>1, <1>2

(* Nothing that was written is lost.                                       *)
LEMMA WorkStep == MergebackInv /\ [MergebackNext]_mergeVars => WorkInv'
<1> SUFFICES ASSUME MergebackInv, [MergebackNext]_mergeVars PROVE WorkInv'
  OBVIOUS
<1>w. made \subseteq dirty \cup OnBranches
  BY DEF MergebackInv, WorkInv, NothingLost, OnBranches
<1> USE DEF Then, Stops, tree, records, outside, history,
    MergebackInv, WorkInv, OnBranches, NothingLost
<1>1. CASE ProvisionWorktree
  <2>1. made \subseteq OnBranches /\ made' = made
    BY <1>1, <1>w DEF ProvisionWorktree, HeadInv
  <2>2. \/ refs' = refs
        \/ "spec" \notin DOMAIN refs /\ refs' = Branch("spec", refs["target"])
    BY <1>1 DEF ProvisionWorktree
  <2>3. OnBranches \subseteq OnBranches'
    BY <2>2, BranchKeeps
  <2> QED BY <1>1, <2>1, <2>3, WorkOnBranches DEF ProvisionWorktree
<1>2. CASE ResumeMergeback BY <1>2 DEF ResumeMergeback, ResumePoint, OrderInv
<1>3. CASE SpecifyDocument
  <2>1. head \in DOMAIN refs /\ attempt = "none"
    BY <1>3 DEF SpecifyDocument, HeadInv, OrderInv
  <2>2. refs' = Branch(head, refs[head] \cup {"doc"})
    BY <1>3 DEF SpecifyDocument
  <2>3. OnBranches \subseteq OnBranches' /\ "doc" \in OnBranches'
    BY <2>2, BranchKeeps
  <2>4. head \in DOMAIN refs'
    BY <2>1, <2>2 DEF Branch
  <2> QED BY <1>3, <1>w, <2>1, <2>3, <2>4 DEF SpecifyDocument
<1>4. CASE EnsureFeatureBranch BY <1>4 DEF EnsureFeatureBranch, Branch, HeadInv, OrderInv
<1>5. CASE ImplementSpec BY <1>5 DEF ImplementSpec, OrderInv, HeadInv
<1>6. CASE CommitBeforeMergeback
  BY <1>6, CommitFacts, CommitKeeps DEF CommitBeforeMergeback, OrderInv
<1>7. CASE CaptureSource BY <1>7 DEF CaptureSource, OrderInv
<1>8. CASE Rebase
  <2>1. made \subseteq OnBranches /\ made' = made /\ mstep' \notin {"capture", "rebase"}
    BY <1>8 DEF Rebase
  <2>2. \/ refs' = refs
        \/ refs' = Branch(source, refs[source] \cup refs["target"])
    BY <1>8 DEF Rebase
  <2>3. OnBranches \subseteq OnBranches'
    BY <2>2, BranchKeeps
  <2> QED BY <2>1, <2>3, WorkOnBranches
<1>9. CASE RecordAttempt BY <1>9 DEF RecordAttempt, OrderInv
<1>10. CASE ResolveConflict
  <2>1. /\ made \subseteq OnBranches /\ made' = made /\ mstep' \notin {"capture", "rebase"}
        /\ "markers" \notin made
    BY <1>10 DEF ResolveConflict, OrderInv
  <2>2. source \in DOMAIN refs
    BY <1>10 DEF ResolveConflict, OrderInv, HeadInv, CanSwitch
  <2>3. PICK x : refs' = Branch(source, x) /\ refs[source] \ {"markers"} \subseteq x
    BY <1>10 DEF ResolveConflict
  <2>4. /\ \A c \in DOMAIN refs : refs[c] \ {"markers"} \subseteq refs'[c]
        /\ DOMAIN refs \subseteq DOMAIN refs'
    BY <2>2, <2>3 DEF Branch
  <2>5. OnBranches \ {"markers"} \subseteq OnBranches'
    BY <2>4 DEF OnBranches
  <2> QED BY <2>1, <2>5, WorkOnBranches
<1>11. CASE LeaveUnresolved BY <1>11 DEF LeaveUnresolved, OrderInv
<1>12. CASE AbortRebase BY <1>12 DEF AbortRebase, Clean, OrderInv
<1>13. CASE CommitResolution
  BY <1>13, CommitFacts, CommitKeeps DEF CommitResolution, OrderInv
<1>14. CASE Finalize BY <1>14 DEF Finalize, OrderInv
<1>15. CASE SwitchTarget BY <1>15 DEF SwitchTarget, OrderInv, CanSwitch
<1>16. CASE Squash BY <1>16 DEF Squash, OrderInv
<1>17. CASE CommitSquash BY <1>17, CommitFacts, CommitKeeps DEF CommitSquash, OrderInv
<1>18. CASE DeleteSource
  <2>1. /\ made \subseteq OnBranches /\ made' = made /\ mstep' \notin {"capture", "rebase"}
        /\ source # "target"
    BY <1>18 DEF DeleteSource, OrderInv, MergebackTypeOK
  <2>2. "target" \in DOMAIN refs
    BY DEF MergebackTypeOK
  <2>3. \/ refs' = refs
        \/ refs["target"] = refs[source] /\ refs' = [b \in DOMAIN refs \ {source} |-> refs[b]]
    BY <1>18 DEF DeleteSource
  <2>4. OnBranches \subseteq OnBranches'
    BY <2>1, <2>2, <2>3 DEF OnBranches
  <2> QED BY <2>1, <2>4, WorkOnBranches
<1>19. CASE ReleaseTarget BY <1>19 DEF ReleaseTarget, OrderInv
<1>20. CASE DeleteRemote BY <1>20 DEF DeleteRemote, OrderInv
<1>21. CASE RecordFinal BY <1>21 DEF RecordFinal, OrderInv
<1>22. CASE Interrupted BY <1>22 DEF Interrupted
<1>23. CASE OtherLane
  <2>1. refs' = Branch("target", refs["target"] \cup {"other"}) /\ made' = made \cup {"other"}
    BY <1>23 DEF OtherLane
  <2>2. /\ OnBranches \subseteq OnBranches'
        /\ (refs["target"] \cup {"other"}) \subseteq OnBranches'
    <3> HIDE DEF OnBranches
    <3> QED BY <2>1, BranchKeeps
  <2>3. DOMAIN refs \subseteq DOMAIN refs'
    BY <2>1 DEF Branch
  <2> QED BY <1>23, <1>w, <2>1, <2>2, <2>3 DEF OtherLane
<1>24. CASE FreeBranches BY <1>24 DEF FreeBranches
<1>25. CASE UNCHANGED mergeVars BY <1>25 DEF mergeVars
<1> QED
  BY <1>1, <1>2, <1>3, <1>4, <1>5, <1>6, <1>7, <1>8, <1>9, <1>10, <1>11, <1>12,
     <1>13, <1>14, <1>15, <1>16, <1>17, <1>18, <1>19, <1>20, <1>21, <1>22,
     <1>23, <1>24, <1>25 DEF MergebackNext

(* The code follows the branch that the mergeback is about, to the target. *)
LEMMA CodeStep == MergebackInv /\ [MergebackNext]_mergeVars => CodeInv'
<1> SUFFICES ASSUME MergebackInv, [MergebackNext]_mergeVars PROVE CodeInv'
  OBVIOUS
<1> USE DEF Then, Stops, tree, records, outside, history,
    MergebackInv, CodeInv, RecordIsTrue
<1>1. CASE ProvisionWorktree BY <1>1 DEF ProvisionWorktree, Branch, OrderInv, HeadInv
<1>2. CASE ResumeMergeback BY <1>2 DEF ResumeMergeback, ResumePoint, OrderInv
<1>3. CASE SpecifyDocument
  BY <1>3 DEF SpecifyDocument, Branch, HeadInv, OrderInv, MergebackTypeOK
<1>4. CASE EnsureFeatureBranch
  BY <1>4 DEF EnsureFeatureBranch, Branch, HeadTree, HeadInv, OrderInv
<1>5. CASE ImplementSpec BY <1>5 DEF ImplementSpec, OrderInv, HeadInv
<1>6. CASE CommitBeforeMergeback BY <1>6, CommitFacts DEF CommitBeforeMergeback, OrderInv
<1>7. CASE CaptureSource BY <1>7 DEF CaptureSource, OrderInv, WorkInv
<1>8. CASE Rebase BY <1>8 DEF Rebase, Branch, OrderInv, HeadInv
<1>9. CASE RecordAttempt BY <1>9 DEF RecordAttempt, OrderInv
<1>10. CASE ResolveConflict
  BY <1>10 DEF ResolveConflict, Branch, Clean, OrderInv, CanSwitch, HeadInv
<1>11. CASE LeaveUnresolved BY <1>11 DEF LeaveUnresolved, OrderInv
<1>12. CASE AbortRebase BY <1>12 DEF AbortRebase, Clean, OrderInv
<1>13. CASE CommitResolution
  <2>1. attempt # "none" /\ mstep' = "finalize"
    BY <1>13 DEF CommitResolution, OrderInv
  <2>2. /\ DOMAIN refs' = DOMAIN refs /\ "target" \in DOMAIN refs
        /\ \A b \in DOMAIN refs : refs[b] \subseteq refs'[b]
    BY <1>13, CommitFacts DEF CommitResolution, MergebackTypeOK
  <2> QED BY <1>13, <2>1, <2>2 DEF CommitResolution, OrderInv
<1>14. CASE Finalize BY <1>14 DEF Finalize, OrderInv
<1>15. CASE SwitchTarget BY <1>15 DEF SwitchTarget, OrderInv, CanSwitch
<1>16. CASE Squash BY <1>16 DEF Squash, OrderInv
<1>17. CASE CommitSquash BY <1>17, CommitFacts DEF CommitSquash, OrderInv, HeadInv
<1>18. CASE DeleteSource
  <2>1. /\ attempt # "none" /\ ~final /\ mstep = "delete" /\ source \in DOMAIN refs
        /\ source # "target" /\ "target" \in DOMAIN refs /\ "code" \in refs[source]
    BY <1>18 DEF DeleteSource, OrderInv, MergebackTypeOK
  <2>2. UNCHANGED <<attempt, final, source, made>>
    BY <1>18 DEF DeleteSource
  <2>3. CASE refs["target"] # refs[source]
    BY <1>18, <2>1, <2>3 DEF DeleteSource
  <2>4. CASE refs["target"] = refs[source]
    <3>1. /\ source \notin DOMAIN refs' /\ refs'["target"] = refs["target"] /\ mstep' = "release"
      BY <1>18, <2>1, <2>4 DEF DeleteSource
    <3> QED BY <2>1, <2>2, <2>4, <3>1
  <2> QED BY <2>3, <2>4
<1>19. CASE ReleaseTarget BY <1>19 DEF ReleaseTarget, OrderInv
<1>20. CASE DeleteRemote BY <1>20 DEF DeleteRemote, OrderInv
<1>21. CASE RecordFinal BY <1>21 DEF RecordFinal, OrderInv
<1>22. CASE Interrupted BY <1>22 DEF Interrupted
<1>23. CASE OtherLane BY <1>23 DEF OtherLane, Branch, MergebackTypeOK
<1>24. CASE FreeBranches BY <1>24 DEF FreeBranches
<1>25. CASE UNCHANGED mergeVars BY <1>25 DEF mergeVars
<1> QED
  BY <1>1, <1>2, <1>3, <1>4, <1>5, <1>6, <1>7, <1>8, <1>9, <1>10, <1>11, <1>12,
     <1>13, <1>14, <1>15, <1>16, <1>17, <1>18, <1>19, <1>20, <1>21, <1>22,
     <1>23, <1>24, <1>25 DEF MergebackNext

-----------------------------------------------------------------------------
(* Conflicts.                                                              *)

(* A conflict is on a branch.                                              *)
Marked == \E b \in DOMAIN refs : "markers" \in refs[b]

(* A new tree is the only way to get a conflict onto a branch.             *)
LEMMA BranchMarked ==
  ASSUME NEW b, NEW x, refs' = Branch(b, x), Marked'
  PROVE  Marked \/ "markers" \in x
<1>1. DOMAIN refs' = DOMAIN refs \cup {b}
  BY DEF Branch
<1>2. \A c \in DOMAIN refs' : refs'[c] = IF c = b THEN x ELSE refs[c]
  BY DEF Branch
<1> QED
  BY <1>1, <1>2 DEF Marked

(* A commit puts a conflict on a branch only if there was one to commit.   *)
LEMMA CommitMarked ==
  ASSUME CommitAll, Marked'
  PROVE  Marked \/ (head \in DOMAIN refs /\ (unmerged \/ "markers" \in dirty))
  BY CommitFacts DEF Marked

(* The engine commits a conflict only behind an agent that left it.        *)
LEMMA MarkersStep ==
  MergebackInv /\ MergebackTypeOK' /\ [MergebackNext]_mergeVars => MarkersInv'
<1> SUFFICES ASSUME MergebackInv, MergebackTypeOK', [MergebackNext]_mergeVars
             PROVE MarkersInv'
  OBVIOUS
<1>m. Marked => neglect
  BY DEF MergebackInv, MarkersInv, OnlyAgentsLeaveMarkers, Marked
<1> USE DEF Then, Stops, tree, records, outside, history,
    MergebackInv, MarkersInv
<1>o. (Marked' => neglect') => OnlyAgentsLeaveMarkers'
  BY DEF Marked, OnlyAgentsLeaveMarkers
<1>t. /\ "target" \in DOMAIN refs /\ "rebasing" \notin DOMAIN refs /\ "detached" \notin DOMAIN refs
      /\ dirty' \subseteq Changes /\ apart' \subseteq Changes
  BY DEF MergebackTypeOK
<1> USE <1>m, <1>o, <1>t
<1>1. CASE ProvisionWorktree
  <2>1. refs' = refs \/ refs' = Branch("spec", refs["target"])
    BY <1>1 DEF ProvisionWorktree
  <2>2. "markers" \in refs["target"] => Marked
    BY DEF Marked
  <2>3. Marked' => neglect
    BY <2>1, <2>2, BranchMarked DEF Marked
  <2> QED BY <1>1, <2>3 DEF ProvisionWorktree, HeadInv
<1>2. CASE ResumeMergeback BY <1>2 DEF ResumeMergeback, ResumePoint, OrderInv, Marked
<1>3. CASE SpecifyDocument
  <2>1. head \in DOMAIN refs /\ mstep = "specify" /\ head # "rebasing"
    BY <1>3 DEF SpecifyDocument, HeadInv
  <2>2. "markers" \in refs[head] => Marked
    BY <2>1 DEF Marked
  <2>3. Marked' => neglect
    BY <1>3, <2>2, BranchMarked DEF SpecifyDocument
  <2> QED BY <1>3, <2>1, <2>3 DEF SpecifyDocument
<1>4. CASE EnsureFeatureBranch
  <2>1. head \in DOMAIN refs /\ head # "rebasing" /\ mstep = "ensure"
    BY <1>4 DEF EnsureFeatureBranch, HeadInv
  <2>2. refs' = refs \/ refs' = Branch("feature", refs[head])
    BY <1>4, <2>1 DEF EnsureFeatureBranch, HeadTree
  <2>3. "markers" \in refs[head] => Marked
    BY <2>1 DEF Marked
  <2>4. Marked' => neglect
    BY <2>2, <2>3, BranchMarked DEF Marked
  <2> QED BY <1>4, <2>1, <2>4 DEF EnsureFeatureBranch
<1>5. CASE ImplementSpec BY <1>5 DEF ImplementSpec, OrderInv, HeadInv, Marked
<1>6. CASE CommitBeforeMergeback
  <2>1. mstep = "commit" /\ attempt = "none" /\ (unmerged => head = "rebasing")
    BY <1>6 DEF CommitBeforeMergeback, OrderInv, HeadInv
  <2>2. Marked' => neglect
    BY <1>6, <2>1, CommitMarked DEF CommitBeforeMergeback
  <2>3. dirty' = {} /\ unmerged' = FALSE /\ mstep' = "capture"
        /\ UNCHANGED <<neglect, attempt, head>>
    BY <1>6, CommitFacts DEF CommitBeforeMergeback
  <2>4. head \in DOMAIN refs \/ head = "rebasing"
    BY <2>1 DEF HeadInv, OrderInv
  <2>5. head \in DOMAIN refs => apart' = apart
    BY <1>6, CommitFacts DEF CommitBeforeMergeback
  <2> QED BY <2>1, <2>2, <2>3, <2>4, <2>5
<1>7. CASE CaptureSource
  BY <1>7 DEF CaptureSource, OrderInv, HeadInv, MergebackTypeOK, Marked
<1>8. CASE Rebase
  <2>1. source # "" => head = source /\ source \in DOMAIN refs
    BY <1>8 DEF Rebase, HeadInv
  <2>2. /\ "markers" \in refs["target"] => Marked
        /\ source # "" /\ "markers" \in refs[source] => Marked
    BY <2>1 DEF Marked
  <2>3. refs' = refs \/ (source # "" /\ refs' = Branch(source, refs[source] \cup refs["target"]))
    BY <1>8 DEF Rebase
  <2>4. Marked' => neglect
    BY <2>2, <2>3, BranchMarked DEF Marked
  <2>5. /\ mstep = "rebase" /\ attempt = "none" /\ neglect' = neglect
        /\ mstep' \in {"idle", "record-attempt"}
    BY <1>8 DEF Rebase, OrderInv
  <2>6. CASE source = ""
    <3>1. /\ apart' = apart /\ dirty' = dirty /\ head' = head /\ attempt' = attempt
          /\ neglect' = neglect /\ mstep' = "idle"
      BY <1>8, <2>6 DEF Rebase
    <3>2. ("markers" \in dirty' => neglect') /\ (Marked' => neglect')
      BY <2>4, <3>1
    <3>3. "markers" \in apart => neglect \/ (attempt = "none" /\ head = "rebasing")
      OBVIOUS
    <3>4. neglect => neglect'
      BY <3>1
    <3>5. "markers" \in apart' => neglect' \/ (attempt' = "none" /\ head' = "rebasing")
      BY <3>1, <3>3, <3>4, Zenon
    <3> HIDE <1>m
    <3> QED BY <3>1, <3>2, <3>5
  <2>7. CASE source # ""
    <3>1. mstep' = "record-attempt" /\ attempt' = attempt /\ neglect' = neglect
      BY <1>8, <2>7 DEF Rebase
    <3>2. "markers" \in apart => neglect
      BY <2>1, <2>5, <2>7
    <3>3. /\ apart' = apart \/ apart' = refs["target"]
          /\ dirty' = dirty \/ dirty' = refs[source]
      BY <1>8, <2>7 DEF Rebase
    <3>4. ("markers" \in apart' => neglect) /\ ("markers" \in dirty' => neglect)
      BY <2>2, <2>7, <3>2, <3>3
    <3> QED BY <2>4, <3>1, <3>4
  <2> QED BY <2>6, <2>7
<1>9. CASE RecordAttempt BY <1>9 DEF RecordAttempt, OrderInv, Marked
<1>10. CASE ResolveConflict
  <2>1. attempt # "none" /\ mstep = "resolve" /\ source \in DOMAIN refs
    BY <1>10 DEF ResolveConflict, OrderInv, HeadInv, CanSwitch
  <2>2. /\ "markers" \in refs["target"] => neglect
        /\ "markers" \in refs[source] => neglect
        /\ "markers" \in apart => neglect
    BY <2>1 DEF Marked
  <2>3. PICK x \in SUBSET (refs[source] \cup apart \cup refs["target"]) : refs' = Branch(source, x)
    BY <1>10 DEF ResolveConflict
  <2>4. Marked' => neglect
    BY <2>2, <2>3, BranchMarked
  <2>5. /\ mstep' = "commit-resolution" /\ neglect' = neglect /\ dirty' = {}
        /\ unmerged' = FALSE /\ apart' = apart
    BY <1>10 DEF ResolveConflict, Clean
  <2> QED BY <2>1, <2>2, <2>4, <2>5
<1>11. CASE LeaveUnresolved BY <1>11 DEF LeaveUnresolved, OrderInv, Marked
<1>12. CASE AbortRebase BY <1>12 DEF AbortRebase, Clean, OrderInv, Marked
<1>13. CASE CommitResolution
  <2>1. attempt # "none" /\ mstep = "commit-resolution"
    BY <1>13 DEF CommitResolution, OrderInv
  <2>2. Marked' => neglect
    BY <1>13, <2>1, CommitMarked DEF CommitResolution
  <2>3. /\ "markers" \in apart => neglect
        /\ unmerged => neglect
    BY <2>1
  <2>4. "markers" \in apart' => neglect
    BY <1>13, <2>3, CommitFacts DEF CommitResolution
  <2>5. dirty' = {} /\ unmerged' = FALSE /\ mstep' = "finalize" /\ neglect' = neglect
    BY <1>13, CommitFacts DEF CommitResolution
  <2> QED BY <2>2, <2>4, <2>5
<1>14. CASE Finalize BY <1>14 DEF Finalize, OrderInv, Marked
<1>15. CASE SwitchTarget BY <1>15 DEF SwitchTarget, OrderInv, CanSwitch, Marked
<1>16. CASE Squash
  <2>1. mstep = "squash" /\ source \in DOMAIN refs /\ attempt # "none"
    BY <1>16 DEF Squash, CodeInv, OrderInv
  <2>2. "markers" \in refs[source] => Marked
    BY <2>1 DEF Marked
  <2>3. /\ refs' = refs /\ neglect' = neglect /\ apart' = apart
        /\ attempt' = attempt /\ head' = head /\ dirty' \subseteq refs[source]
        /\ mstep' = "idle" \/ (mstep' = "squash-commit" /\ unmerged' = unmerged)
    BY <1>16 DEF Squash
  <2>4. (Marked' => neglect') /\ ("markers" \in dirty' => neglect')
    BY <2>2, <2>3 DEF Marked
  <2>5. "markers" \in apart' => neglect'
    BY <2>1, <2>3
  <2>6. mstep' = "idle" \/ (mstep' = "squash-commit" /\ ~unmerged')
    BY <2>1, <2>3
  <2> QED BY <2>4, <2>5, <2>6
<1>17. CASE CommitSquash
  <2>1. mstep = "squash-commit" /\ head = "target"
    BY <1>17 DEF CommitSquash, HeadInv
  <2>2. Marked' => neglect
    BY <1>17, <2>1, CommitMarked DEF CommitSquash
  <2>3. dirty' = {} /\ unmerged' = FALSE /\ mstep' = "delete" /\ apart' = apart
        /\ UNCHANGED <<neglect, attempt, head>>
    BY <1>17, <2>1, CommitFacts DEF CommitSquash
  <2> QED BY <2>1, <2>2, <2>3
<1>18. CASE DeleteSource
  <2>1. refs' = refs \/ refs' = [b \in DOMAIN refs \ {source} |-> refs[b]]
    BY <1>18 DEF DeleteSource
  <2>2. Marked' => Marked
    BY <2>1 DEF Marked
  <2> QED BY <1>18, <2>2 DEF DeleteSource, OrderInv
<1>19. CASE ReleaseTarget BY <1>19 DEF ReleaseTarget, OrderInv, MergebackTypeOK, Marked
<1>20. CASE DeleteRemote BY <1>20 DEF DeleteRemote, OrderInv, Marked
<1>21. CASE RecordFinal BY <1>21 DEF RecordFinal, OrderInv, Marked
<1>22. CASE Interrupted BY <1>22 DEF Interrupted, Marked
<1>23. CASE OtherLane
  <2>1. "markers" \in refs["target"] => Marked
    BY DEF Marked
  <2>2. Marked' => neglect
    BY <1>23, <2>1, BranchMarked DEF OtherLane
  <2> QED BY <1>23, <2>2 DEF OtherLane
<1>24. CASE FreeBranches BY <1>24 DEF FreeBranches, Marked
<1>25. CASE UNCHANGED mergeVars BY <1>25 DEF mergeVars, Marked
<1> QED
  BY <1>1, <1>2, <1>3, <1>4, <1>5, <1>6, <1>7, <1>8, <1>9, <1>10, <1>11, <1>12,
     <1>13, <1>14, <1>15, <1>16, <1>17, <1>18, <1>19, <1>20, <1>21, <1>22,
     <1>23, <1>24, <1>25 DEF MergebackNext

-----------------------------------------------------------------------------
(* The theorems.                                                           *)

(* The inductive invariant behind the theorems of this module: the order   *)
(* of the steps, where HEAD is, where the work and the code are, and who   *)
(* has left a conflict.                                                    *)
THEOREM MergebackInvariant == MergebackSpec => []MergebackInv
<1>1. MergebackInit => MergebackInv
  <2> SUFFICES ASSUME MergebackInit PROVE MergebackInv
    OBVIOUS
  <2>1. PICK left \in SUBSET {"feature"} :
          /\ refs = [b \in {"target"} \cup left |-> IF b = "target" THEN {} ELSE {"old"}]
          /\ remote \in SUBSET left /\ held \in SUBSET (left \cup {"target"})
          /\ made = IF left = {} THEN {} ELSE {"old"}
    BY DEF MergebackInit
  <2>2. /\ worktree = FALSE /\ head = "detached" /\ apart = {} /\ dirty = {}
        /\ unmerged = FALSE /\ source = "" /\ attempt = "none" /\ final = FALSE
        /\ mstep = "idle" /\ upsets = 0 /\ neglect = FALSE
    BY DEF MergebackInit
  <2>3. DOMAIN refs = {"target"} \cup left /\ made \subseteq {"old"}
    BY <2>1
  <2>4. \A b \in DOMAIN refs : refs[b] \subseteq {"old"}
    BY <2>1
  <2>5. made \subseteq UNION {refs[b] : b \in DOMAIN refs}
    BY <2>1, <2>3
  <2>6. MergebackTypeOK
    <3>1. upsets \in 0..MaxUpsets
      <4>1. upsets = 0 /\ MaxUpsets \in Nat
        BY <2>2, MergebackAssumption
      <4> QED BY <4>1
    <3>2. worktree \in BOOLEAN /\ unmerged \in BOOLEAN /\ final \in BOOLEAN /\ neglect \in BOOLEAN
      BY <2>2, Zenon
    <3> QED BY <2>1, <2>2, <2>3, <2>4, <3>1, <3>2 DEF MergebackTypeOK, Changes
  <2>7. OrderInv /\ HeadInv
    BY <2>2, <2>3 DEF OrderInv, HeadInv
  <2>8. WorkInv
    BY <2>2, <2>5 DEF WorkInv, NothingLost
  <2>9. CodeInv /\ MarkersInv
    BY <2>2, <2>3, <2>4 DEF CodeInv, MarkersInv, RecordIsTrue, OnlyAgentsLeaveMarkers, Changes
  <2> QED BY <2>6, <2>7, <2>8, <2>9 DEF MergebackInv
<1>2. MergebackInv /\ [MergebackNext]_mergeVars => MergebackInv'
  <2> SUFFICES ASSUME MergebackInv, [MergebackNext]_mergeVars PROVE MergebackInv'
    OBVIOUS
  <2>1. MergebackTypeOK /\ OrderInv /\ HeadInv /\ CodeInv
    BY DEF MergebackInv
  <2>2. MergebackTypeOK' BY MergebackTypeStep
  <2> QED
    BY <2>1, <2>2, OrderStep, HeadStep, WorkStep, CodeStep, MarkersStep DEF MergebackInv
<1> QED
  BY <1>1, <1>2, PTL DEF MergebackSpec

(* The branches, the worktree and the two parsed.json keep their shape     *)
(* through any sequence of git commands, kills and resumes.                *)
THEOREM MergebackTypeCorrect == MergebackSpec => []MergebackTypeOK
<1>1. MergebackInv => MergebackTypeOK
  BY DEF MergebackInv
<1> QED
  BY <1>1, MergebackInvariant, PTL

(* Nothing that was written is lost, whatever is interrupted, aborted or   *)
(* resumed, and however often (function_handlers.go:179-207, 384-496).     *)
THEOREM WorkIsKept == MergebackSpec => []NothingLost
<1>1. MergebackInv => NothingLost
  BY DEF MergebackInv, WorkInv
<1> QED
  BY <1>1, MergebackInvariant, PTL

(* A mergeback that is recorded as final is one, also when it was recorded *)
(* by a process that found the source branch deleted                       *)
(* (function_handlers.go:412-438).                                         *)
THEOREM FinalIsMerged == MergebackSpec => []RecordIsTrue
<1>1. MergebackInv => RecordIsTrue
  BY DEF MergebackInv, CodeInv
<1> QED
  BY <1>1, MergebackInvariant, PTL

(* The engine, which commits whatever it finds, commits a conflict only if *)
(* an agent has said that it had resolved one that it had not, however     *)
(* many processes die among its commands (runner.go:255-259).              *)
THEOREM EngineLeavesNoMarkers == MergebackSpec => []OnlyAgentsLeaveMarkers
<1>1. MergebackInv => OnlyAgentsLeaveMarkers
  BY DEF MergebackInv, MarkersInv
<1> QED
  BY <1>1, MergebackInvariant, PTL
=============================================================================
