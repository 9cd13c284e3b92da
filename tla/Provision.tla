------------------------------- MODULE Provision -----------------------------
(***************************************************************************)
(* app/provision.go: `dft init' and `dft sync' put the assets that dft     *)
(* ships (agents, flows, Spec Kit files) into a user's repository, and     *)
(* keep the hashes of what they put there in provisioning-manifest.json,   *)
(* so that a later sync tells what the user has edited.                    *)
(*                                                                         *)
(* An asset is absent, as shipped by a version of dft, of the user's own,  *)
(* edited below a header that still says managed_by: dft, or torn by a     *)
(* process that was killed while it wrote.  A hash names one such content. *)
(***************************************************************************)
EXTENDS Integers, Sequences

CONSTANTS
  Assets,       \* defaultProvisionedAssets, in order
  WithHeader,   \* those that are shipped with the managed header
  MaxCommands,  \* bound on the number of processes
  MaxVersion,   \* bound on the version of dft
  MaxEdits,     \* bound on the edits of the user
  MaxAccidents  \* bound on failing reads and writes, and kills

Paths == {Assets[k] : k \in DOMAIN Assets}

ASSUME ProvisionAssumption ==
  /\ Assets \in Seq(Paths) /\ WithHeader \subseteq Paths
  /\ \A k, l \in DOMAIN Assets : Assets[k] = Assets[l] => k = l
  /\ MaxCommands \in Nat /\ MaxVersion \in Nat \ {0} /\ MaxEdits \in Nat /\ MaxAccidents \in Nat

VARIABLES
  content,    \* what is at the path of each asset
  recorded,   \* provisioning-manifest.json: hashes, or "none" or "torn"
  version,    \* the dft that is installed
  command,    \* the process: "none", "init" or "sync"
  force,      \* --force
  next,       \* the next asset it looks at
  writing,    \* it has read that asset, and is to write it
  previous,   \* previousHashes
  hashes,     \* the hashes it will record
  returned,   \* how the last process ended; "none" while it runs or if killed
  commands, edits, accidents, \* counts of processes, of edits, of accidents
  reinits,    \* history: inits that found a shipped file there already
  touched     \* history: what the user edited since the process began, or, of
              \* what the process writes, since it read it

provisionVars == <<content, recorded, version, command, force, next, writing, previous,
                   hashes, returned, commands, edits, accidents, reinits, touched>>

Shipped(v) == [by |-> "dft", v |-> v]
Absent == [by |-> "none", v |-> 0]
Torn   == [by |-> "torn", v |-> 0]
Edited == [by |-> "user", v |-> 0]
EditedBelowHeader == [by |-> "header", v |-> 0]
Contents == {Shipped(v) : v \in 1..MaxVersion} \cup {Absent, Torn, Edited, EditedBelowHeader}

NoHashes == [a \in Paths |-> Absent]
HasHash(h, a) == h[a] # Absent

Accident == accidents < MaxAccidents /\ accidents' = accidents + 1

IsManaged(a) ==
  \/ content[a] = EditedBelowHeader
  \/ content[a].by = "dft" /\ a \in WithHeader

(* shouldUpdateProvisionedAsset                                            *)
ShouldUpdate(a) ==
  IsManaged(a) \/ (HasHash(previous, a) /\ content[a] = previous[a])

Begin(cmd, f) ==
  /\ command = "none" /\ commands < MaxCommands /\ commands' = commands + 1
  /\ force' = f /\ next' = 1 /\ hashes' = NoHashes /\ touched' = {}
  /\ previous' = IF cmd = "sync" /\ recorded.is = "hashes" THEN recorded.of ELSE NoHashes
  /\ IF cmd = "sync" /\ recorded.is = "torn"
     THEN command' = "none" /\ returned' = "error"
     ELSE command' = cmd /\ returned' = "none"
  /\ UNCHANGED <<content, recorded, version, writing, edits, accidents, reinits>>

Current == Assets[next]
AtAsset == command # "none" /\ next <= Len(Assets)
Reading == AtAsset /\ ~writing

(* What is not written, is recorded only if it is dft's.                   *)
KeepHash(h) == hashes' = [hashes EXCEPT ![Current] = h]

(* Mutant: what is kept is recorded as it is. *)
SyncKeeps_Rehashed ==
  /\ Reading /\ command = "sync" /\ ~force
  /\ content[Current] # Absent /\ ~ShouldUpdate(Current)
  /\ KeepHash(content[Current]) /\ next' = next + 1
  /\ UNCHANGED <<content, recorded, version, command, force, writing, previous, returned,
                 commands, edits, accidents, reinits, touched>>

SyncKeeps ==
  /\ Reading /\ command = "sync" /\ ~force
  /\ content[Current] # Absent /\ ~ShouldUpdate(Current)
  /\ KeepHash(previous[Current]) /\ next' = next + 1
  /\ UNCHANGED <<content, recorded, version, command, force, writing, previous, returned,
                 commands, edits, accidents, reinits, touched>>

(* init leaves every file that is there, and forgets those without header. *)
InitKeeps ==
  /\ Reading /\ command = "init" /\ ~force
  /\ content[Current] # Absent
  /\ KeepHash(IF IsManaged(Current) THEN content[Current] ELSE Absent) /\ next' = next + 1
  /\ reinits' = IF content[Current].by = "dft" THEN reinits + 1 ELSE reinits
  /\ UNCHANGED <<content, recorded, version, command, force, writing, previous, returned,
                 commands, edits, accidents, touched>>

Overwrites ==
  \/ force \/ content[Current] = Absent
  \/ command = "sync" /\ ShouldUpdate(Current)

(* An asset is read, and by what was read then it is decided to write it:  *)
(* the user may edit it before it is written.                              *)
DecideToWrite ==
  /\ Reading /\ Overwrites
  /\ writing' = TRUE /\ touched' = touched \ {Current}
  /\ UNCHANGED <<content, recorded, version, command, force, next, previous, hashes,
                 returned, commands, edits, accidents, reinits>>

(* Mutant: sync records only what it left alone. *)
WriteAsset_Unrecorded ==
  /\ AtAsset /\ writing
  /\ content' = [content EXCEPT ![Current] = Shipped(version)]
  /\ next' = next + 1 /\ writing' = FALSE /\ touched' = touched \ {Current}
  /\ UNCHANGED <<recorded, version, command, force, previous, hashes, returned, commands,
                 edits, accidents, reinits>>

WriteAsset ==
  /\ AtAsset /\ writing
  /\ content' = [content EXCEPT ![Current] = Shipped(version)]
  /\ KeepHash(Shipped(version)) /\ next' = next + 1
  /\ writing' = FALSE /\ touched' = touched \ {Current}
  /\ UNCHANGED <<recorded, version, command, force, previous, returned, commands, edits,
                 accidents, reinits>>

(* provisionAssets returns at the first error; the hashes are lost.        *)
AssetFails ==
  /\ AtAsset /\ Accident
  /\ \/ UNCHANGED content
     \/ writing /\ content' = [content EXCEPT ![Current] = Torn]
  /\ command' = "none" /\ returned' = "error" /\ writing' = FALSE
  /\ UNCHANGED <<recorded, version, force, next, previous, hashes, commands, edits,
                 reinits, touched>>

AtManifest == command # "none" /\ next > Len(Assets)

WriteManifest ==
  /\ AtManifest
  /\ recorded' = [is |-> "hashes", of |-> hashes]
  /\ command' = "none" /\ returned' = "ok"
  /\ UNCHANGED <<content, version, force, next, writing, previous, hashes, commands,
                 edits, accidents, reinits, touched>>

ManifestFails ==
  /\ AtManifest /\ Accident
  /\ UNCHANGED recorded \/ recorded' = [is |-> "torn", of |-> NoHashes]
  /\ command' = "none" /\ returned' = "error"
  /\ UNCHANGED <<content, version, force, next, writing, previous, hashes, commands,
                 edits, reinits, touched>>

(* The process is killed, perhaps while it writes.                         *)
Killed ==
  /\ command # "none" /\ Accident
  /\ \/ UNCHANGED <<content, recorded>>
     \/ /\ AtAsset /\ writing /\ UNCHANGED recorded
        /\ content' = [content EXCEPT ![Current] = Torn]
     \/ AtManifest /\ recorded' = [is |-> "torn", of |-> NoHashes] /\ UNCHANGED content
  /\ command' = "none" /\ writing' = FALSE
  /\ UNCHANGED <<version, force, next, previous, hashes, returned, commands, edits,
                 reinits, touched>>

UserEdits(a, c) ==
  /\ edits < MaxEdits /\ edits' = edits + 1 /\ content[a] # c
  /\ content' = [content EXCEPT ![a] = c] /\ touched' = touched \cup {a}
  /\ UNCHANGED <<recorded, version, command, force, next, writing, previous, hashes,
                 returned, commands, accidents, reinits>>

(* A new dft is installed, with other assets, between two commands.        *)
Upgrade ==
  /\ command = "none" /\ version < MaxVersion /\ version' = version + 1
  /\ UNCHANGED <<content, recorded, command, force, next, writing, previous, hashes,
                 returned, commands, edits, accidents, reinits, touched>>

ProvisionInit ==
  /\ content \in [Paths -> {Absent, Edited}]
  /\ recorded = [is |-> "none", of |-> NoHashes] /\ version = 1
  /\ command = "none" /\ force = FALSE /\ next = 1 /\ writing = FALSE
  /\ previous = NoHashes /\ hashes = NoHashes /\ returned = "none" /\ commands = 0 /\ edits = 0 /\ accidents = 0
  /\ reinits = 0 /\ touched = {}

ProvisionNext ==
  \/ \E cmd \in {"init", "sync"}, f \in BOOLEAN : Begin(cmd, f)
  \/ SyncKeeps \/ InitKeeps \/ DecideToWrite \/ WriteAsset \/ AssetFails
  \/ WriteManifest \/ ManifestFails \/ Killed
  \/ \E a \in Paths, c \in {Absent, Edited, EditedBelowHeader} : UserEdits(a, c)
  \/ Upgrade

ProvisionSpec == ProvisionInit /\ [][ProvisionNext]_provisionVars

-----------------------------------------------------------------------------
ProvisionTypeOK ==
  /\ content \in [Paths -> Contents]
  /\ recorded \in [is : {"none", "torn", "hashes"}, of : [Paths -> Contents]]
  /\ version \in 1..MaxVersion
  /\ command \in {"none", "init", "sync"} /\ force \in BOOLEAN
  /\ next \in 1..(Len(Assets) + 1) /\ writing \in BOOLEAN
  /\ previous \in [Paths -> Contents] /\ hashes \in [Paths -> Contents]
  /\ returned \in {"none", "ok", "error"}
  /\ commands \in 0..MaxCommands /\ edits \in 0..MaxEdits /\ accidents \in 0..MaxAccidents
  /\ reinits \in Nat /\ touched \subseteq Paths

(* TestSyncDoesNotClobberUserOwnedFiles, over any history: a file of the   *)
(* user's own is overwritten by nobody but the user, or a command that was *)
(* told to --force, or one that had read it when it was not the user's yet *)
(* (provision.go:62-88).  That last window is all there is: an edit made   *)
(* before the command reads the file is safe, whatever earlier commands,   *)
(* upgrades and accidents left in the record.                              *)
UserFilesSurvive ==
  [][\A a \in Paths :
       content[a] = Edited /\ content'[a] # Edited
         => \/ edits' # edits
            \/ command # "none" /\ (force \/ (writing /\ a = Current /\ a \in touched))
    ]_provisionVars

(* A sync that returns ok has brought up to date whatever the user did not *)
(* make her own: what has the header, always; what has none, unless the    *)
(* record of it was lost, to an accident or to an init that was run again  *)
(* (provision.go:66-77, 349-358).                                          *)
SyncedIsCurrent ==
  [][(command = "sync" /\ returned' = "ok" /\ returned = "none") =>
       \A a \in Paths \ touched :
         /\ IsManaged(a) => content[a] = Shipped(version)
         /\ (accidents = 0 /\ reinits = 0) => content[a] \in {Shipped(version), Edited}]_provisionVars
=============================================================================
