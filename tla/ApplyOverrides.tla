--------------------------- MODULE ApplyOverrides ---------------------------
(***************************************************************************)
(* overrides/apply.sh: two replacement files installed into two packages,  *)
(* both or neither, and the compile cache cleared.                         *)
(*                                                                         *)
(* Any command may fail, the messages included (set -e), which ends the    *)
(* script through its EXIT trap; one that fails within the trap ends it at *)
(* once, with an error.  The script may also be killed between any two     *)
(* commands, without its trap.  A killed or failed script may be run again *)
(* over what it left behind.  A rename within a directory is atomic; a     *)
(* copy that fails leaves part of a file.  One script runs at a time, and  *)
(* no server meanwhile.                                                    *)
(***************************************************************************)
EXTENDS Integers, FiniteSets

CONSTANTS
  NumTargets,   \* override files; the script insists on 2
  CacheEntries, \* entries of the compile cache
  MaxRuns       \* bound: times the script is run

ASSUME TargetsAssumption == NumTargets \in Nat \ {0}
ASSUME CacheAssumption == IsFiniteSet(CacheEntries)
ASSUME RunsAssumption == MaxRuns \in Nat \ {0}

Targets == 1 .. NumTargets
Contents == {"stock", "override", "torn"}
NoFile == "none"

VARIABLES
  pc,          \* what the script is doing
  i,           \* the loop's index
  files,       \* target -> what is installed
  tmp,         \* target -> the staged replacement of this run
  backup,      \* target -> the backup of this run
  cache,       \* entries of the compile cache
  rollback,    \* rollback_required
  failed,      \* rollback_failed
  exitCode,
  orig,        \* what was installed when this run began
  runs

vars == <<pc, i, files, tmp, backup, cache, rollback, failed, exitCode, orig, runs>>

TypeOK ==
  /\ pc \in {"idle", "check", "stage", "install", "trap", "done", "killed"}
  /\ i \in 1 .. NumTargets + 1
  /\ files \in [Targets -> {"stock", "override"}]
  /\ tmp \in [Targets -> Contents \cup {NoFile}]
  /\ backup \in [Targets -> Contents \cup {NoFile}]
  /\ cache \in SUBSET CacheEntries
  /\ rollback \in BOOLEAN /\ failed \in BOOLEAN
  /\ exitCode \in {0, 1}
  /\ orig \in [Targets -> {"stock", "override"}]
  /\ runs \in 0 .. MaxRuns

NoFiles == [t \in Targets |-> NoFile]

Init ==
  /\ pc = "idle" /\ i = 1 /\ runs = 0
  /\ files = [t \in Targets |-> "stock"] /\ orig = files
  /\ tmp = NoFiles /\ backup = NoFiles
  /\ cache = CacheEntries
  /\ rollback = FALSE /\ failed = FALSE /\ exitCode = 0

Running == pc \notin {"idle", "done", "killed"}

(* The script starts; another run's temporary files carry another pid. *)
Begin ==
  /\ ~Running /\ runs < MaxRuns
  /\ runs' = runs + 1
  /\ pc' = "check" /\ i' = 1
  /\ tmp' = NoFiles /\ backup' = NoFiles
  /\ rollback' = FALSE /\ failed' = FALSE /\ exitCode' = 0
  /\ orig' = files
  /\ UNCHANGED <<files, cache>>

(* The checks before anything is written: versions, an existing target for *)
(* every override, two of them, a cache directory that is safe to clear.   *)
Check ==
  /\ pc = "check"
  /\ \E versionsMatch, targetsExist, cacheSafe \in BOOLEAN :
       IF versionsMatch /\ targetsExist /\ cacheSafe
       THEN pc' = "stage" /\ UNCHANGED exitCode
       ELSE pc' = "done" /\ exitCode' = 1
  /\ UNCHANGED <<i, files, tmp, backup, cache, rollback, failed, orig, runs>>

(* A command fails: set -e, and the EXIT trap runs. *)
Trap(code) ==
  /\ pc' = "trap" /\ i' = 1
  /\ exitCode' = code

(* One iteration of the staging loop: the replacement, then the backup. *)
Stage ==
  /\ pc = "stage" /\ i <= NumTargets
  /\ \/ /\ tmp' = [tmp EXCEPT ![i] = "override"]
        /\ backup' = [backup EXCEPT ![i] = files[i]]
        /\ i' = i + 1
        /\ UNCHANGED <<pc, exitCode>>
     \/ /\ \E part \in {NoFile, "torn"} : tmp' = [tmp EXCEPT ![i] = part]
        /\ Trap(1)
        /\ UNCHANGED backup
     \/ /\ tmp' = [tmp EXCEPT ![i] = "override"]
        /\ \E part \in {NoFile, "torn"} : backup' = [backup EXCEPT ![i] = part]
        /\ Trap(1)
  /\ UNCHANGED <<files, cache, rollback, failed, orig, runs>>

(* Fault: the rollback is armed only after the replacements. *)
StagedUnarmed ==
  /\ pc = "stage" /\ i > NumTargets
  /\ pc' = "install" /\ i' = 1
  /\ UNCHANGED <<files, tmp, backup, cache, rollback, failed, exitCode, orig, runs>>

(* rollback_required=1, once both are staged. *)
Staged ==
  /\ pc = "stage" /\ i > NumTargets
  /\ pc' = "install" /\ i' = 1
  /\ rollback' = TRUE
  /\ UNCHANGED <<files, tmp, backup, cache, failed, exitCode, orig, runs>>

(* Fault: the replacement is copied over the target, not renamed. *)
InstallByCopy ==
  /\ pc = "install" /\ i <= NumTargets
  /\ \/ /\ files' = [files EXCEPT ![i] = tmp[i]]
        /\ tmp' = [tmp EXCEPT ![i] = NoFile]
        /\ i' = i + 1
        /\ UNCHANGED <<pc, exitCode>>
     \/ Trap(1) /\ files' = [files EXCEPT ![i] = "torn"] /\ UNCHANGED tmp
  /\ UNCHANGED <<backup, cache, rollback, failed, orig, runs>>

(* One iteration of the installing loop: the rename, then its message. *)
Install ==
  /\ pc = "install" /\ i <= NumTargets
  /\ \/ /\ files' = [files EXCEPT ![i] = tmp[i]]
        /\ tmp' = [tmp EXCEPT ![i] = NoFile]
        /\ \/ i' = i + 1 /\ UNCHANGED <<pc, exitCode>>
           \/ Trap(1)
     \/ Trap(1) /\ UNCHANGED <<files, tmp>>
  /\ UNCHANGED <<backup, cache, rollback, failed, orig, runs>>

(* Fault: an entry that cannot be removed is ignored. *)
ClearLenient ==
  /\ pc = "install" /\ i > NumTargets
  /\ \E left \in SUBSET cache : cache' = left
  /\ rollback' = FALSE
  /\ Trap(0)
  /\ UNCHANGED <<files, tmp, backup, failed, orig, runs>>

(* The cache is emptied, the rollback disarmed and the script ends with a  *)
(* message, which may fail; or the removal fails somewhere.                *)
Clear ==
  /\ pc = "install" /\ i > NumTargets
  /\ \/ /\ cache' = {}
        /\ rollback' = FALSE
        /\ Trap(0) \/ Trap(1)
     \/ /\ \E left \in SUBSET cache : cache' = left
        /\ Trap(1)
        /\ UNCHANGED rollback
  /\ UNCHANGED <<files, tmp, backup, failed, orig, runs>>

(* The trap itself fails, and with it the script. *)
Abandon == pc' = "done" /\ exitCode' = 1

(* cleanup_or_rollback, one backup at a time, each with its message; a     *)
(* backup that cannot be moved back does not stop the others, a message    *)
(* that cannot be written does.                                            *)
Restore ==
  /\ pc = "trap" /\ rollback /\ i <= NumTargets
  /\ IF backup[i] = NoFile
     THEN i' = i + 1 /\ UNCHANGED <<pc, exitCode, files, backup, failed>>
     ELSE \/ /\ files' = [files EXCEPT ![i] = backup[i]]
             /\ backup' = [backup EXCEPT ![i] = NoFile]
             /\ \/ i' = i + 1 /\ UNCHANGED <<pc, exitCode>>
                \/ Abandon /\ UNCHANGED i
             /\ UNCHANGED failed
          \/ /\ \/ failed' = TRUE /\ i' = i + 1 /\ UNCHANGED <<pc, exitCode>>
                \/ Abandon /\ UNCHANGED <<i, failed>>
             /\ UNCHANGED <<files, backup>>
  /\ UNCHANGED <<tmp, cache, rollback, orig, runs>>

(* What a removal leaves that fails on some of the files. *)
PartOf(S) == {left \in [Targets -> Contents \cup {NoFile}] :
                \A t \in Targets : left[t] \in {S[t], NoFile}}

(* Fault: the backups are removed although one could not be moved back. *)
ExitAlwaysCleans ==
  /\ pc = "trap" /\ (rollback => i > NumTargets)
  /\ \/ /\ pc' = "done" /\ exitCode' = IF failed THEN 1 ELSE exitCode
        /\ tmp' = NoFiles
        /\ backup' = NoFiles
     \/ /\ Abandon
        /\ tmp' \in PartOf(tmp) /\ UNCHANGED backup
  /\ UNCHANGED <<i, files, cache, rollback, failed, orig, runs>>

(* The end of the trap: the staged files are removed, then the backups,    *)
(* which are kept when the rollback has failed.                            *)
Exit ==
  /\ pc = "trap" /\ (rollback => i > NumTargets)
  /\ \/ /\ pc' = "done" /\ exitCode' = IF failed THEN 1 ELSE exitCode
        /\ tmp' = NoFiles
        /\ backup' = IF rollback /\ failed THEN backup ELSE NoFiles
     \/ /\ Abandon
        /\ tmp' \in PartOf(tmp) /\ UNCHANGED backup
     \/ /\ ~(rollback /\ failed) /\ Abandon
        /\ tmp' = NoFiles /\ backup' \in PartOf(backup)
  /\ UNCHANGED <<i, files, cache, rollback, failed, orig, runs>>

Kill ==
  /\ Running
  /\ pc' = "killed"
  /\ UNCHANGED <<i, files, tmp, backup, cache, rollback, failed, exitCode, orig, runs>>

(* Between runs the server fills the cache. *)
Compile ==
  /\ ~Running
  /\ cache' = CacheEntries
  /\ UNCHANGED <<pc, i, files, tmp, backup, rollback, failed, exitCode, orig, runs>>

Next ==
  \/ Begin \/ Check \/ Stage \/ Staged \/ Install \/ Clear
  \/ Restore \/ Exit \/ Kill \/ Compile

Spec == Init /\ [][Next]_vars

-----------------------------------------------------------------------------
(* Properties. *)

(* A script that reports success has replaced every file and has cleared   *)
(* the cache of the graphs compiled before it.                             *)
SuccessIsComplete ==
  [](pc = "done" /\ exitCode = 0 => files = [t \in Targets |-> "override"])
    /\ [][pc # "done" /\ pc' = "done" /\ exitCode' = 0 => cache' = {}]_vars

Replaced == [t \in Targets |-> "override"]
WholeOrKept == \A t \in Targets : files[t] = orig[t] \/ backup[t] = orig[t]

(* All or nothing, whatever fails.  Once the rollback is not armed, the    *)
(* trap finds every file as it was, or every file replaced and the cache   *)
(* empty.  A script that has ended with an error has left all files as     *)
(* they were, or all replaced (only its last message or the clean-up       *)
(* failed), or the rollback itself was stopped, by a rename or a message   *)
(* that failed, and each file it has not put back has its backup next to   *)
(* it.                                                                     *)
FailureAllOrNothing ==
  /\ pc = "trap" /\ ~rollback => files = orig \/ (files = Replaced /\ cache = {})
  /\ pc = "done" /\ exitCode # 0 =>
       \/ files = orig
       \/ files = Replaced /\ ~rollback
       \/ rollback /\ (failed \/ i <= NumTargets) /\ WholeOrKept

(* Until a run has replaced every file and disarmed its rollback, every    *)
(* file it found is in place or whole in a backup next to it, wherever the *)
(* script fails or is killed.                                              *)
OriginalsNeverLost ==
  ~(files = Replaced /\ ~rollback /\ pc \in {"trap", "done", "killed"}) => WholeOrKept
=============================================================================
