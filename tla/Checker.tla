-------------------------------- MODULE Checker ------------------------------
(***************************************************************************)
(* internal/adapters/verify/checker.go: the deterministic checks that a    *)
(* verify step of a flow, or an evaluation plan, puts to a repository.     *)
(*                                                                         *)
(* A file is what a check can tell of it: what it is ("error": stat fails, *)
(* "locked": it cannot be read), how often it contains the substring asked *)
(* for, the value at the JSON path asked for ("none": not JSON, or no such *)
(* path), its checksum, whether git tracks it, and whether it has the      *)
(* magic number or the size and mode of a program.  A check is a record;   *)
(* `argc' says that it has as many arguments as its kind wants.            *)
(***************************************************************************)
EXTENDS Integers, Sequences

CONSTANT GOOS  \* runtime.GOOS

FileType == [is : {"absent", "error", "dir", "locked", "file"}, hits : Nat,
             json : STRING, sum : Int, tracked : BOOLEAN,
             magic : BOOLEAN, heavy : BOOLEAN]

Exists(f)   == f.is \in {"dir", "locked", "file"}
Readable(f) == f.is = "file"

(* file_missing: a stat that fails for another reason is no absence.       *)
FilePasses(c, files) ==
  \/ c.kind = "file_exists" /\ Exists(files[c.path])
  \/ c.kind = "file_missing" /\ files[c.path].is = "absent"

(* grep_matches and the two counts: a negative or unreadable number fails. *)
CountPasses(c, files) ==
  /\ c.kind \in {"grep_matches", "count_matches_at_least", "count_matches_equals"}
  /\ Readable(files[c.path])
  /\ LET hits == files[c.path].hits IN
     \/ c.kind = "grep_matches" /\ hits > 0
     \/ c.kind = "count_matches_at_least" /\ c.want >= 0 /\ hits >= c.want
     \/ c.kind = "count_matches_equals" /\ c.want >= 0 /\ hits = c.want

ContentPasses(c, files) ==
  \/ /\ c.kind = "json_path_equals"
     /\ Readable(files[c.path])
     /\ files[c.path].json # "none" /\ files[c.path].json = c.value
  \/ /\ c.kind = "file_checksum_differs"
     /\ Readable(files[c.path]) /\ Readable(files[c.other])
     /\ files[c.path].sum # files[c.other].sum

(* The files that no_binary_artifacts looks at: those git tracks or, if    *)
(* git fails, all; not those below .dft and .git, and no directory.        *)
Inspected(repo) ==
  {p \in DOMAIN repo.files :
     /\ repo.git => repo.files[p].tracked
     /\ p \notin repo.hidden
     /\ repo.files[p].is \notin {"absent", "dir"}}

(* A tracked file that is gone is passed over; one that cannot be looked   *)
(* at fails the check.                                                     *)
NoBinaries(repo) ==
  \A p \in Inspected(repo) :
     /\ Readable(repo.files[p])
     /\ ~repo.files[p].magic /\ ~repo.files[p].heavy

RepoPasses(c, repo) ==
  \/ c.kind = "command_exit_zero" /\ c.path \in repo.commands
  \/ c.kind = "git_no_unmerged_files" /\ repo.git /\ ~repo.unmerged
  \/ c.kind = "no_binary_artifacts" /\ NoBinaries(repo)
  \/ c.kind = "string_equals" /\ c.value = c.other
  \/ c.kind = "os" /\ GOOS \in c.allowed

(* runOne.  A check without an id, of an unknown kind, or with the wrong   *)
(* number of arguments fails; it is never an error.                        *)
CheckPasses(c, repo) ==
  /\ c.id # "" /\ c.argc
  /\ \/ FilePasses(c, repo.files)
     \/ CountPasses(c, repo.files)
     \/ ContentPasses(c, repo.files)
     \/ RepoPasses(c, repo)

(* Checker.Run: all checks are run, none is skipped after a failure.       *)
AllPass(checks, repo) == \A k \in DOMAIN checks : CheckPasses(checks[k], repo)
=============================================================================
