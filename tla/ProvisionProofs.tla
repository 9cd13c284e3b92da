--------------------------- MODULE ProvisionProofs --------------------------
(***************************************************************************)
(* Proofs about init and sync, for every list of assets, every history of  *)
(* commands, upgrades and edits, and any number of failing reads and       *)
(* writes and of processes that are killed.                                *)
(***************************************************************************)
EXTENDS Provision, TLAPS

(* No record has the hash of a file of the user's own: neither the one in  *)
(* provisioning-manifest.json nor those the process has loaded or made.    *)
OnlyDftRecorded ==
  \A a \in Paths : previous[a] # Edited /\ hashes[a] # Edited /\ recorded.of[a] # Edited

(* What a sync has been through, and the user has left alone since, is up  *)
(* to date if it is managed.                                               *)
SyncedSoFar ==
  command = "sync" =>
    \A k \in DOMAIN Assets :
      (k < next /\ Assets[k] \notin touched /\ IsManaged(Assets[k]))
        => content[Assets[k]] = Shipped(version)

(* The record knows a file as it is.                                       *)
Remembers(a) ==
  IF command = "none" THEN recorded.is = "hashes" /\ recorded.of[a] = content[a]
                      ELSE hashes[a] = content[a]

(* As long as nothing was lost: every file that is as dft shipped it is    *)
(* known by its hash, by the manifest between two commands, and to the     *)
(* process by what it has loaded, or made when it has been through it.     *)
RecordsKept ==
  (accidents = 0 /\ reinits = 0) =>
    /\ recorded.is # "torn" /\ \A a \in Paths : content[a] # Torn
    /\ \A k \in DOMAIN Assets :
         content[Assets[k]].by = "dft" =>
           IF command = "none" \/ k < next THEN Remembers(Assets[k])
           ELSE command = "sync" => previous[Assets[k]] = content[Assets[k]]
    /\ command = "sync" =>
         \A k \in DOMAIN Assets :
           k < next /\ Assets[k] \notin touched
             => content[Assets[k]] \in {Shipped(version), Edited}

-----------------------------------------------------------------------------
(* The contents an asset may have are told apart by who they are from.     *)
LEMMA ContentFacts ==
  /\ Absent \in Contents /\ Torn \in Contents /\ Edited \in Contents
  /\ EditedBelowHeader \in Contents
  /\ \A v \in 1..MaxVersion : Shipped(v) \in Contents
  /\ \A v : Shipped(v).by = "dft"
  /\ Absent.by = "none" /\ Torn.by = "torn" /\ Edited.by = "user"
  /\ EditedBelowHeader.by = "header"
  BY DEF Contents, Absent, Torn, Edited, EditedBelowHeader, Shipped

(* The assets are the paths of a list without repetition.                  *)
LEMMA AssetFacts ==
  /\ DOMAIN Assets = 1..Len(Assets) /\ Len(Assets) \in Nat
  /\ \A k \in DOMAIN Assets : Assets[k] \in Paths
  /\ \A a \in Paths : \E k \in DOMAIN Assets : Assets[k] = a
  /\ \A k, l \in DOMAIN Assets : Assets[k] = Assets[l] => k = l
  BY ProvisionAssumption DEF Paths

(* Every variable keeps its type.                                          *)
LEMMA ProvisionTypeStep ==
  ProvisionTypeOK /\ [ProvisionNext]_provisionVars => ProvisionTypeOK'
<1> SUFFICES ASSUME ProvisionTypeOK, [ProvisionNext]_provisionVars
             PROVE  ProvisionTypeOK'
  OBVIOUS
<1>c. AtAsset => Current \in Paths
  BY AssetFacts, SMTT(30) DEF AtAsset, Current, ProvisionTypeOK
<1>h. NoHashes \in [Paths -> Contents]
  BY ContentFacts DEF NoHashes
<1>k. ASSUME NEW h \in Contents, KeepHash(h) PROVE hashes' \in [Paths -> Contents]
  BY <1>k DEF KeepHash, ProvisionTypeOK
<1>o. ASSUME NEW a \in Paths, NEW c \in Contents, content' = [content EXCEPT ![a] = c]
      PROVE  content' \in [Paths -> Contents]
  BY <1>o DEF ProvisionTypeOK
<1> USE ProvisionAssumption, AssetFacts, ContentFacts, <1>c, <1>h
<1>1. ASSUME NEW cmd \in {"init", "sync"}, NEW f \in BOOLEAN, Begin(cmd, f)
      PROVE  ProvisionTypeOK'
  BY <1>1 DEF Begin, ProvisionTypeOK
<1>2. CASE SyncKeeps
  <2>1. hashes' \in [Paths -> Contents]
    BY <1>2, <1>k DEF SyncKeeps, Reading, ProvisionTypeOK
  <2> QED BY <1>2, <2>1 DEF SyncKeeps, Reading, AtAsset, ProvisionTypeOK
<1>3. CASE InitKeeps
  <2>1. hashes' \in [Paths -> Contents]
    BY <1>3, <1>k DEF InitKeeps, Reading, ProvisionTypeOK
  <2> QED BY <1>3, <2>1 DEF InitKeeps, Reading, AtAsset, ProvisionTypeOK
<1>4. CASE WriteAsset
  <2>1. hashes' \in [Paths -> Contents] /\ content' \in [Paths -> Contents]
    BY <1>4, <1>k, <1>o DEF WriteAsset, ProvisionTypeOK
  <2>2. writing' \in BOOLEAN
    BY <1>4, Zenon DEF WriteAsset
  <2> QED BY <1>4, <2>1, <2>2 DEF WriteAsset, AtAsset, ProvisionTypeOK
<1>5. CASE AssetFails
  <2>1. content' \in [Paths -> Contents]
    BY <1>5, <1>o DEF AssetFails, ProvisionTypeOK
  <2>2. writing' \in BOOLEAN
    BY <1>5, Zenon DEF AssetFails
  <2> QED BY <1>5, <2>1, <2>2 DEF AssetFails, Accident, ProvisionTypeOK
<1>6. CASE WriteManifest BY <1>6 DEF WriteManifest, ProvisionTypeOK
<1>7. CASE ManifestFails BY <1>7 DEF ManifestFails, Accident, ProvisionTypeOK
<1>8. CASE Killed
  <2>1. content' \in [Paths -> Contents]
    BY <1>8, <1>o DEF Killed, ProvisionTypeOK
  <2>2. recorded' \in [is : {"none", "torn", "hashes"}, of : [Paths -> Contents]]
    BY <1>8 DEF Killed, ProvisionTypeOK
  <2>3. writing' \in BOOLEAN
    BY <1>8, Zenon DEF Killed
  <2> QED BY <1>8, <2>1, <2>2, <2>3 DEF Killed, Accident, ProvisionTypeOK
<1>9. ASSUME NEW a \in Paths, NEW c \in {Absent, Edited, EditedBelowHeader}, UserEdits(a, c)
      PROVE  ProvisionTypeOK'
  <2>1. content' \in [Paths -> Contents]
    BY <1>9, <1>o DEF UserEdits
  <2> QED BY <1>9, <2>1 DEF UserEdits, ProvisionTypeOK
<1>10. CASE Upgrade BY <1>10 DEF Upgrade, ProvisionTypeOK
<1>11. CASE UNCHANGED provisionVars BY <1>11 DEF provisionVars, ProvisionTypeOK
<1>12. CASE DecideToWrite BY <1>12 DEF DecideToWrite, ProvisionTypeOK
<1> QED
  BY <1>1, <1>2, <1>3, <1>4, <1>5, <1>6, <1>7, <1>8, <1>9, <1>10, <1>11, <1>12
  DEF ProvisionNext

(* The files, provisioning-manifest.json and the locals of provisionAssets *)
(* keep their shape, whatever fails or is killed (provision.go:63-132).    *)
THEOREM ProvisionTypeCorrect == ProvisionSpec => []ProvisionTypeOK
<1>1. ProvisionInit => ProvisionTypeOK
  <2> SUFFICES ASSUME ProvisionInit PROVE ProvisionTypeOK
    OBVIOUS
  <2>1. NoHashes \in [Paths -> Contents]
    BY ContentFacts DEF NoHashes
  <2>2. content \in [Paths -> Contents]
    BY ContentFacts DEF ProvisionInit
  <2>3. recorded \in [is : {"none", "torn", "hashes"}, of : [Paths -> Contents]]
    BY <2>1 DEF ProvisionInit
  <2>4. force \in BOOLEAN /\ writing \in BOOLEAN
    BY Zenon DEF ProvisionInit
  <2>5. version \in 1..MaxVersion /\ next \in 1..(Len(Assets) + 1)
    BY ProvisionAssumption, AssetFacts DEF ProvisionInit
  <2> QED
    BY <2>1, <2>2, <2>3, <2>4, <2>5, ProvisionAssumption DEF ProvisionInit, ProvisionTypeOK
<1> QED
  BY <1>1, ProvisionTypeStep, PTL DEF ProvisionSpec

-----------------------------------------------------------------------------
(* What the user owns.                                                     *)

(* What a sync brings up to date on its own account is not of the user's   *)
(* own: it has the header, or is as it was recorded.                       *)
LEMMA UpdatesAreDfts ==
  ASSUME ProvisionTypeOK, OnlyDftRecorded, NEW a \in Paths, ShouldUpdate(a)
  PROVE  content[a] # Edited
  BY ContentFacts DEF ShouldUpdate, IsManaged, OnlyDftRecorded

(* No command records the hash of a file of the user's own.                *)
LEMMA OnlyDftStep ==
  ProvisionTypeOK /\ OnlyDftRecorded /\ [ProvisionNext]_provisionVars => OnlyDftRecorded'
<1> SUFFICES ASSUME ProvisionTypeOK, OnlyDftRecorded, [ProvisionNext]_provisionVars
             PROVE  OnlyDftRecorded'
  OBVIOUS
<1>c. AtAsset => Current \in Paths
  BY AssetFacts, SMTT(30) DEF AtAsset, Current, ProvisionTypeOK
<1>n. \A a \in Paths : NoHashes[a] # Edited
  BY ContentFacts DEF NoHashes
<1>k. ASSUME NEW h, h # Edited, KeepHash(h), UNCHANGED <<previous, recorded>>
      PROVE  OnlyDftRecorded'
  BY <1>k DEF KeepHash, OnlyDftRecorded, ProvisionTypeOK
<1>1. ASSUME NEW cmd \in {"init", "sync"}, NEW f \in BOOLEAN, Begin(cmd, f)
      PROVE  OnlyDftRecorded'
  BY <1>1, <1>n DEF Begin, OnlyDftRecorded
<1>2. CASE SyncKeeps
  BY <1>2, <1>c, <1>k DEF SyncKeeps, Reading, OnlyDftRecorded
<1>3. CASE InitKeeps
  BY <1>3, <1>k, ContentFacts DEF InitKeeps, IsManaged
<1>4. CASE WriteAsset
  BY <1>4, <1>k, ContentFacts DEF WriteAsset
<1>5. CASE WriteManifest
  BY <1>5 DEF WriteManifest, OnlyDftRecorded
<1>6. CASE ManifestFails
  BY <1>6, <1>n DEF ManifestFails, OnlyDftRecorded
<1>7. CASE Killed
  BY <1>7, <1>n DEF Killed, OnlyDftRecorded
<1>8. CASE UNCHANGED <<previous, hashes, recorded>>
  BY <1>8 DEF OnlyDftRecorded
<1>9. CASE \/ AssetFails \/ DecideToWrite \/ Upgrade \/ UNCHANGED provisionVars
           \/ \E a \in Paths, c \in {Absent, Edited, EditedBelowHeader} : UserEdits(a, c)
  BY <1>8, <1>9 DEF AssetFails, DecideToWrite, Upgrade, provisionVars, UserEdits
<1> QED
  BY <1>1, <1>2, <1>3, <1>4, <1>5, <1>6, <1>7, <1>9 DEF ProvisionNext

(* A command writes only what it had read, and if it was not told to       *)
(* --force, had read as not the user's own: if it is the user's now, she   *)
(* edited it in between.                                                   *)
ReadBeforeWritten ==
  writing =>
    AtAsset /\ (force \/ Current \in touched \/ content[Current] # Edited)

(* Between the reading and the writing of an asset only the user touches it. *)
LEMMA ReadStep ==
  /\ ProvisionTypeOK /\ OnlyDftRecorded /\ ReadBeforeWritten
  /\ [ProvisionNext]_provisionVars
  => ReadBeforeWritten'
<1> SUFFICES ASSUME ProvisionTypeOK, OnlyDftRecorded, ReadBeforeWritten,
                    [ProvisionNext]_provisionVars, writing'
             PROVE  ReadBeforeWritten'
  BY DEF ReadBeforeWritten
<1> USE DEF AtAsset, Current, Reading
<1>1. ASSUME writing,
             UNCHANGED <<content, command, force, next>>, touched \subseteq touched'
      PROVE  ReadBeforeWritten'
  BY <1>1 DEF ReadBeforeWritten
<1>2. CASE DecideToWrite
  <2>1. Current \in Paths
    BY <1>2, AssetFacts DEF DecideToWrite, ProvisionTypeOK
  <2>2. force \/ content[Current] # Edited
    BY <1>2, <2>1, UpdatesAreDfts, ContentFacts DEF DecideToWrite, Overwrites
  <2> QED BY <1>2, <2>2 DEF DecideToWrite, ReadBeforeWritten
<1>3. ASSUME NEW b \in Paths, NEW c, UserEdits(b, c) PROVE ReadBeforeWritten'
  <2>1. writing /\ UNCHANGED <<command, force, next>> /\ touched' = touched \cup {b}
    BY <1>3 DEF UserEdits
  <2>2. b # Current => content'[Current] = content[Current] \/ Current \in touched
    BY <1>3, <2>1, AssetFacts DEF UserEdits, ProvisionTypeOK, ReadBeforeWritten
  <2> QED BY <2>1, <2>2 DEF ReadBeforeWritten
<1>4. CASE WriteAsset \/ AssetFails \/ Killed
  BY <1>4 DEF WriteAsset, AssetFails, Killed
<1>5. CASE \/ \E cmd \in {"init", "sync"}, f \in BOOLEAN : Begin(cmd, f)
           \/ WriteManifest \/ ManifestFails \/ Upgrade
  <2>1. writing /\ AtAsset
    BY <1>5 DEF Begin, WriteManifest, ManifestFails, Upgrade, ReadBeforeWritten
  <2>2. ~AtManifest
    BY <2>1, AssetFacts DEF AtManifest, ProvisionTypeOK
  <2> QED
    BY <1>5, <2>1, <2>2 DEF Begin, WriteManifest, ManifestFails, Upgrade
<1>6. CASE SyncKeeps \/ InitKeeps
  BY <1>6 DEF SyncKeeps, InitKeeps
<1>7. CASE UNCHANGED provisionVars
  BY <1>1, <1>7 DEF provisionVars
<1> QED
  BY <1>2, <1>3, <1>4, <1>5, <1>6, <1>7 DEF ProvisionNext

(* A file of the user's own is overwritten by nobody but the user, or by a *)
(* command that was told to --force, or in the window between its reading  *)
(* and its writing: not by a sync that came after the edit, not after an   *)
(* upgrade, not by a process that dies while it writes                     *)
(* (provision.go:62-88).                                                   *)
THEOREM UserFilesAreSafe == ProvisionSpec => UserFilesSurvive
<1>1. ProvisionInit => OnlyDftRecorded /\ ReadBeforeWritten
  BY ContentFacts DEF ProvisionInit, OnlyDftRecorded, NoHashes, ReadBeforeWritten
<1>2. /\ ProvisionTypeOK /\ ReadBeforeWritten /\ [ProvisionNext]_provisionVars
      => [\A a \in Paths :
            content[a] = Edited /\ content'[a] # Edited
              => \/ edits' # edits
                 \/ command # "none" /\ (force \/ (writing /\ a = Current /\ a \in touched))
         ]_provisionVars
  <2> SUFFICES ASSUME ProvisionTypeOK, ReadBeforeWritten, ProvisionNext,
                      NEW a \in Paths, content[a] = Edited, content'[a] # Edited
               PROVE  \/ edits' # edits
                      \/ command # "none" /\ (force \/ (writing /\ a = Current /\ a \in touched))
    OBVIOUS
  <2>w. ASSUME AtAsset, writing, NEW c, content' = [content EXCEPT ![Current] = c]
        PROVE  command # "none" /\ (force \/ (writing /\ a = Current /\ a \in touched))
    <3>1. a = Current
      BY <2>w DEF ProvisionTypeOK
    <3> QED
      BY <2>w, <3>1 DEF ReadBeforeWritten, AtAsset
  <2>1. CASE WriteAsset BY <2>1, <2>w DEF WriteAsset
  <2>2. CASE AssetFails BY <2>2, <2>w DEF AssetFails
  <2>3. CASE Killed BY <2>3, <2>w DEF Killed
  <2>4. ASSUME NEW b \in Paths, NEW c, UserEdits(b, c) PROVE edits' # edits
    BY <2>4 DEF UserEdits, ProvisionTypeOK
  <2>5. CASE content' = content
    BY <2>5
  <2>6. CASE \/ \E cmd \in {"init", "sync"}, f \in BOOLEAN : Begin(cmd, f)
             \/ SyncKeeps \/ InitKeeps \/ DecideToWrite \/ WriteManifest \/ ManifestFails
             \/ Upgrade
    BY <2>5, <2>6 DEF Begin, SyncKeeps, InitKeeps, DecideToWrite, WriteManifest,
       ManifestFails, Upgrade
  <2> QED
    BY <2>1, <2>2, <2>3, <2>4, <2>6 DEF ProvisionNext
<1> QED
  BY <1>1, <1>2, ProvisionTypeCorrect, OnlyDftStep, ReadStep, PTL
  DEF ProvisionSpec, UserFilesSurvive

-----------------------------------------------------------------------------
(* What a sync achieves.                                                   *)

(* A process that goes on to the next asset has been through one more.     *)
LEMMA NextAsset ==
  ASSUME ProvisionTypeOK, AtAsset, next' = next + 1, NEW k \in DOMAIN Assets, k < next'
  PROVE  k < next \/ Assets[k] = Current
  BY AssetFacts DEF ProvisionTypeOK, AtAsset, Current

(* A managed asset that a sync has been through stays up to date until the *)
(* user touches it.                                                        *)
LEMMA SyncedStep ==
  ProvisionTypeOK /\ SyncedSoFar /\ [ProvisionNext]_provisionVars => SyncedSoFar'
<1> SUFFICES ASSUME ProvisionTypeOK, SyncedSoFar, [ProvisionNext]_provisionVars,
                    command' = "sync", NEW k \in DOMAIN Assets,
                    k < next', Assets[k] \notin touched', IsManaged(Assets[k])'
             PROVE  content'[Assets[k]] = Shipped(version')
  BY DEF SyncedSoFar
<1> DEFINE a == Assets[k]
<1>a. a \in Paths
  BY AssetFacts
<1>s. ASSUME command = "sync", k < next, a \notin touched, content'[a] = content[a],
             version' = version
      PROVE  content'[a] = Shipped(version')
  BY <1>s DEF SyncedSoFar, IsManaged
<1>1. ASSUME NEW cmd \in {"init", "sync"}, NEW f \in BOOLEAN, Begin(cmd, f) PROVE FALSE
  BY <1>1, AssetFacts DEF Begin
<1>2. CASE SyncKeeps
  <2>1. k < next \/ a = Current BY <1>2, NextAsset DEF SyncKeeps, Reading
  <2>2. ~IsManaged(Current) BY <1>2 DEF SyncKeeps, ShouldUpdate
  <2>3. k < next BY <1>2, <2>1, <2>2 DEF SyncKeeps, IsManaged
  <2> QED BY <1>2, <1>s, <2>3 DEF SyncKeeps
<1>3. CASE InitKeeps BY <1>3 DEF InitKeeps, Reading
<1>4. CASE WriteAsset
  <2>1. CASE a = Current
    BY <1>4, <1>a, <2>1 DEF WriteAsset, ProvisionTypeOK
  <2>2. CASE a # Current
    <3>1. k < next BY <1>4, <2>2, NextAsset DEF WriteAsset
    <3>2. content'[a] = content[a] /\ a \notin touched
      BY <1>4, <1>a, <2>2 DEF WriteAsset, ProvisionTypeOK
    <3> QED BY <1>4, <1>s, <3>1, <3>2 DEF WriteAsset
  <2> QED BY <2>1, <2>2
<1>5. CASE AssetFails \/ WriteManifest \/ ManifestFails \/ Killed
  BY <1>5 DEF AssetFails, WriteManifest, ManifestFails, Killed
<1>6. ASSUME NEW b \in Paths, NEW c, UserEdits(b, c)
      PROVE  content'[a] = Shipped(version')
  BY <1>6, <1>a, <1>s DEF UserEdits, ProvisionTypeOK
<1>7. CASE Upgrade BY <1>7 DEF Upgrade
<1>8. CASE UNCHANGED provisionVars BY <1>8, <1>s DEF provisionVars
<1>9. CASE DecideToWrite
  <2>1. next' = next /\ next \in DOMAIN Assets /\ next \in Int
    BY <1>9, AssetFacts DEF DecideToWrite, Reading, AtAsset, ProvisionTypeOK
  <2>2. a # Current
    BY <2>1, AssetFacts DEF Current
  <2> QED BY <1>9, <1>s, <2>1, <2>2 DEF DecideToWrite
<1> QED
  BY <1>1, <1>2, <1>3, <1>4, <1>5, <1>6, <1>7, <1>8, <1>9 DEF ProvisionNext

(* Counts of accidents and of repeated inits only grow.                    *)
LEMMA NothingLostBefore ==
  ASSUME ProvisionTypeOK, [ProvisionNext]_provisionVars, accidents' = 0, reinits' = 0
  PROVE  /\ accidents = 0 /\ reinits = 0
         /\ ~AssetFails /\ ~ManifestFails /\ ~Killed
         /\ InitKeeps => content[Current].by # "dft"
<1>1. accidents' = accidents \/ accidents' = accidents + 1
  BY DEF ProvisionNext, Begin, SyncKeeps, InitKeeps, DecideToWrite, WriteAsset, AssetFails,
     WriteManifest, ManifestFails, Killed, UserEdits, Upgrade, Accident, provisionVars
<1>2. reinits' = reinits \/ reinits' = reinits + 1
  BY DEF ProvisionNext, Begin, SyncKeeps, InitKeeps, DecideToWrite, WriteAsset, AssetFails,
     WriteManifest, ManifestFails, Killed, UserEdits, Upgrade, provisionVars
<1>3. accidents = 0 /\ reinits = 0
  BY <1>1, <1>2 DEF ProvisionTypeOK
<1>4. ~Accident
  BY <1>3 DEF Accident
<1>5. InitKeeps => content[Current].by # "dft"
  BY <1>3 DEF InitKeeps
<1> QED
  BY <1>3, <1>4, <1>5 DEF AssetFails, ManifestFails, Killed

(* As long as nothing is lost, the record of what dft shipped stays true:  *)
(* in the manifest between two commands, in the hashes of the process.     *)
LEMMA RecordsStep ==
  ProvisionTypeOK /\ RecordsKept /\ [ProvisionNext]_provisionVars => RecordsKept'
<1> SUFFICES ASSUME ProvisionTypeOK, RecordsKept, [ProvisionNext]_provisionVars,
                    accidents' = 0, reinits' = 0
             PROVE  RecordsKept'
  BY DEF RecordsKept
<1>z. /\ accidents = 0 /\ reinits = 0
      /\ ~AssetFails /\ ~ManifestFails /\ ~Killed
      /\ InitKeeps => content[Current].by # "dft"
  BY NothingLostBefore
<1>c. AtAsset => Current \in Paths /\ next \in DOMAIN Assets /\ Current = Assets[next]
  BY AssetFacts DEF AtAsset, Current, ProvisionTypeOK
<1> USE <1>z, AssetFacts, ContentFacts
<1>1. ASSUME NEW cmd \in {"init", "sync"}, NEW f \in BOOLEAN, Begin(cmd, f)
      PROVE  RecordsKept'
  <2>1. command = "none" /\ command' = cmd /\ UNCHANGED <<content, recorded>> /\ next' = 1
    BY <1>1 DEF Begin, RecordsKept
  <2>2. cmd = "sync" /\ recorded.is = "hashes" => previous' = recorded.of
    BY <1>1 DEF Begin
  <2> QED
    BY <2>1, <2>2 DEF RecordsKept, Remembers
<1>2. CASE SyncKeeps
  <2>1. command = "sync" /\ AtAsset /\ UNCHANGED <<command, content, recorded>>
      /\ UNCHANGED <<previous, touched, version>>
    BY <1>2 DEF SyncKeeps, Reading
  <2>2. ~IsManaged(Current) /\ content[Current] # Absent
        /\ (content[Current] # previous[Current] \/ previous[Current] = Absent)
    BY <1>2 DEF SyncKeeps, ShouldUpdate, HasHash
  <2>3. content[Current].by # "dft"
    <3>1. next \in DOMAIN Assets /\ Current = Assets[next] /\ ~(next < next)
      BY <1>c, <2>1 DEF ProvisionTypeOK
    <3>2. content[Current].by = "dft" => previous[Current] = content[Current]
      BY <2>1, <3>1 DEF RecordsKept
    <3> QED BY <2>2, <3>2
  <2>4. content[Current] = Edited
    BY <1>c, <2>1, <2>2, <2>3 DEF RecordsKept, ProvisionTypeOK, Contents, IsManaged
  <2>5. \A k \in DOMAIN Assets : k # next => hashes'[Assets[k]] = hashes[Assets[k]]
    BY <1>2, <1>c, <2>1 DEF SyncKeeps, KeepHash, ProvisionTypeOK
  <2>6. \A k \in DOMAIN Assets : k < next' <=> (k < next \/ k = next)
    BY <1>2 DEF SyncKeeps, ProvisionTypeOK
  <2> QED
    BY <1>c, <2>1, <2>3, <2>4, <2>5, <2>6 DEF RecordsKept, Remembers
<1>3. CASE InitKeeps
  <2>1. command = "init" /\ AtAsset /\ UNCHANGED <<command, content, recorded, previous>>
    BY <1>3 DEF InitKeeps, Reading
  <2>2. \A k \in DOMAIN Assets : k # next => hashes'[Assets[k]] = hashes[Assets[k]]
    BY <1>3, <1>c, <2>1 DEF InitKeeps, KeepHash, ProvisionTypeOK
  <2>3. \A k \in DOMAIN Assets : k < next' <=> (k < next \/ k = next)
    BY <1>3 DEF InitKeeps, ProvisionTypeOK
  <2> QED
    BY <1>3, <1>c, <2>1, <2>2, <2>3 DEF RecordsKept, Remembers
<1>4. CASE WriteAsset
  <2>1. command # "none" /\ AtAsset /\ UNCHANGED <<command, recorded, previous, version>>
    BY <1>4 DEF WriteAsset, AtAsset
  <2>2. content'[Current] = Shipped(version) /\ hashes'[Current] = Shipped(version)
    BY <1>4, <1>c DEF WriteAsset, KeepHash, ProvisionTypeOK
  <2>3. \A k \in DOMAIN Assets : k # next => /\ hashes'[Assets[k]] = hashes[Assets[k]]
                                             /\ content'[Assets[k]] = content[Assets[k]]
    BY <1>4, <1>c, <2>1 DEF WriteAsset, KeepHash, ProvisionTypeOK
  <2>4. \A k \in DOMAIN Assets : k < next' <=> (k < next \/ k = next)
    BY <1>4 DEF WriteAsset, ProvisionTypeOK
  <2>5. \A a \in Paths : a # Current => content'[a] = content[a]
    BY <1>4 DEF WriteAsset, ProvisionTypeOK
  <2>6. touched' = touched \ {Current}
    BY <1>4 DEF WriteAsset
  <2>7. recorded'.is # "torn" /\ \A a \in Paths : content'[a] # Torn
    BY <2>1, <2>2, <2>5 DEF RecordsKept
  <2>8. ASSUME NEW k \in DOMAIN Assets, content'[Assets[k]].by = "dft"
        PROVE  IF command' = "none" \/ k < next' THEN Remembers(Assets[k])'
               ELSE command' = "sync" => previous'[Assets[k]] = content'[Assets[k]]
    BY <1>c, <2>1, <2>2, <2>3, <2>4, <2>8 DEF RecordsKept, Remembers
  <2>9. ASSUME command' = "sync", NEW k \in DOMAIN Assets, k < next', Assets[k] \notin touched'
        PROVE  content'[Assets[k]] \in {Shipped(version'), Edited}
    BY <1>c, <2>1, <2>2, <2>3, <2>4, <2>6, <2>9 DEF RecordsKept
  <2> QED
    BY <2>7, <2>8, <2>9 DEF RecordsKept
<1>5. CASE WriteManifest
  <2>1. command # "none" /\ command' = "none" /\ content' = content
        /\ recorded' = [is |-> "hashes", of |-> hashes] /\ next > Len(Assets)
    BY <1>5 DEF WriteManifest, AtManifest
  <2>2. \A k \in DOMAIN Assets : k < next
    BY <2>1 DEF ProvisionTypeOK
  <2> QED
    BY <2>1, <2>2 DEF RecordsKept, Remembers
<1>6. ASSUME NEW b \in Paths, NEW c \in {Absent, Edited, EditedBelowHeader}, UserEdits(b, c)
      PROVE  RecordsKept'
  <2>1. UNCHANGED <<command, recorded, previous, hashes, next, version>>
    BY <1>6 DEF UserEdits
  <2>2. content'[b] = c /\ \A a \in Paths : a # b => content'[a] = content[a]
    BY <1>6 DEF UserEdits, ProvisionTypeOK
  <2>3. touched' = touched \cup {b}
    BY <1>6 DEF UserEdits
  <2>4. c.by # "dft" /\ c # Torn
    OBVIOUS
  <2> QED
    BY <2>1, <2>2, <2>3, <2>4 DEF RecordsKept, Remembers
<1>7. CASE Upgrade
  BY <1>7 DEF Upgrade, RecordsKept, Remembers
<1>8. CASE UNCHANGED provisionVars
  BY <1>8 DEF provisionVars, RecordsKept, Remembers
<1>9. CASE DecideToWrite
  <2>1. UNCHANGED <<content, recorded, version, command, next, previous, hashes>>
        /\ touched' = touched \ {Current} /\ AtAsset
    BY <1>9 DEF DecideToWrite, Reading
  <2>2. \A k \in DOMAIN Assets : k < next => Assets[k] # Current
    BY <1>c, <2>1 DEF ProvisionTypeOK
  <2> QED
    BY <2>1, <2>2 DEF RecordsKept, Remembers
<1> QED
  BY <1>1, <1>2, <1>3, <1>4, <1>5, <1>6, <1>7, <1>8, <1>9 DEF ProvisionNext

(* A sync that returns ok has brought up to date whatever the user did not *)
(* make her own: what has the header, always; what has none, unless the    *)
(* record of it was lost, to an accident or to an init that was run again  *)
(* (provision.go:66-77, 349-358).                                          *)
THEOREM SyncBringsUpToDate == ProvisionSpec => SyncedIsCurrent
<1>1. ProvisionInit => SyncedSoFar /\ RecordsKept
  BY AssetFacts, ContentFacts DEF ProvisionInit, SyncedSoFar, RecordsKept, Remembers
<1>2. /\ ProvisionTypeOK /\ SyncedSoFar /\ RecordsKept /\ [ProvisionNext]_provisionVars
      => [(command = "sync" /\ returned' = "ok" /\ returned = "none") =>
            \A a \in Paths \ touched :
              /\ IsManaged(a) => content[a] = Shipped(version)
              /\ (accidents = 0 /\ reinits = 0)
                   => content[a] \in {Shipped(version), Edited}]_provisionVars
  <2> SUFFICES ASSUME ProvisionTypeOK, SyncedSoFar, RecordsKept, ProvisionNext,
                      command = "sync", returned' = "ok", returned = "none",
                      NEW a \in Paths \ touched
               PROVE  /\ IsManaged(a) => content[a] = Shipped(version)
                      /\ (accidents = 0 /\ reinits = 0)
                           => content[a] \in {Shipped(version), Edited}
    OBVIOUS
  <2>1. WriteManifest
    BY DEF ProvisionNext, Begin, SyncKeeps, InitKeeps, DecideToWrite, WriteAsset, AssetFails,
       ManifestFails, Killed, UserEdits, Upgrade
  <2>2. PICK k \in DOMAIN Assets : Assets[k] = a
    BY AssetFacts
  <2>3. k < next
    BY <2>1, AssetFacts DEF WriteManifest, AtManifest, ProvisionTypeOK
  <2> QED
    BY <2>2, <2>3 DEF SyncedSoFar, RecordsKept
<1> QED
  BY <1>1, <1>2, ProvisionTypeCorrect, SyncedStep, RecordsStep, PTL
  DEF ProvisionSpec, SyncedIsCurrent
=============================================================================
