----------------------- MODULE ApplyOverrides_proofs ------------------------
(***************************************************************************)
(* Proofs about ApplyOverrides, for any number of files, of cache entries  *)
(* and of runs.                                                            *)
(***************************************************************************)
EXTENDS ApplyOverrides, TLAPS

(* What the script has done so far, by where it is. *)
Untouched == files = orig /\ ~rollback /\ ~failed
Complete ==
  ~rollback /\ ~failed /\ cache = {} /\ \A t \in Targets : files[t] = "override"

StageInv ==
  pc = "stage" =>
    /\ Untouched /\ exitCode = 0
    /\ \A t \in Targets : t < i => tmp[t] = "override" /\ backup[t] = orig[t]

InstallInv ==
  pc = "install" =>
    /\ rollback /\ ~failed /\ exitCode = 0
    /\ \A t \in Targets : backup[t] = orig[t]
    /\ \A t \in Targets : IF t < i THEN files[t] = "override" ELSE tmp[t] = "override"

(* The trap is entered with everything done and the rollback disarmed,     *)
(* before the rollback is armed, or with every backup in place.            *)
TrapInv ==
  pc = "trap" =>
    /\ exitCode = 0 => Complete
    /\ exitCode = 1 /\ ~rollback => Untouched \/ Complete
    /\ exitCode = 1 /\ rollback =>
         \A t \in Targets :
           IF t < i THEN files[t] = orig[t] \/ (failed /\ backup[t] = orig[t])
           ELSE backup[t] = orig[t]

DoneInv ==
  pc = "done" =>
    /\ exitCode = 0 => ~rollback /\ \A t \in Targets : files[t] = "override"
    /\ exitCode = 1 =>
         \/ files = orig
         \/ ~rollback /\ \A t \in Targets : files[t] = "override"
         \/ rollback /\ (failed \/ i <= NumTargets) /\ WholeOrKept

RestInv ==
  /\ pc \in {"idle", "check"} => Untouched /\ exitCode = 0 /\ i = 1
  /\ pc = "killed" => OriginalsNeverLost

IInv == TypeOK /\ StageInv /\ InstallInv /\ TrapInv /\ DoneInv /\ RestInv

-----------------------------------------------------------------------------
(* The phase invariant holds before the first run and through every step,  *)
(* whatever command fails and wherever the script is killed.               *)
LEMMA InitIInv == Init => IInv
<1> SUFFICES ASSUME Init PROVE IInv
  OBVIOUS
<1> USE TargetsAssumption, RunsAssumption
<1>1. i \in 1 .. NumTargets + 1 /\ runs \in 0 .. MaxRuns
  BY DEF Init
<1>2. /\ files \in [Targets -> {"stock", "override"}] /\ orig = files
      /\ tmp \in [Targets -> Contents \cup {NoFile}] /\ backup = tmp
  BY DEF Init, NoFiles
<1>3. TypeOK
  BY <1>1, <1>2 DEF Init, TypeOK
<1> QED
  BY <1>3 DEF Init, IInv, StageInv, InstallInv, TrapInv, DoneInv, RestInv, Untouched

LEMMA StepIInv == IInv /\ [Next]_vars => IInv'
<1> SUFFICES ASSUME IInv, [Next]_vars PROVE IInv'
  OBVIOUS
<1> USE TargetsAssumption, RunsAssumption
<1>a. TypeOK /\ StageInv /\ InstallInv /\ TrapInv /\ DoneInv /\ RestInv
  BY DEF IInv
<1>1. CASE Begin
  <2>1. (i \in 1 .. NumTargets + 1)' /\ (runs \in 0 .. MaxRuns)'
    BY <1>a, <1>1 DEF Begin, TypeOK
  <2>2. /\ (files \in [Targets -> {"stock", "override"}])' /\ orig' = files'
        /\ (tmp \in [Targets -> Contents \cup {NoFile}])' /\ backup' = tmp'
    BY <1>a, <1>1 DEF Begin, TypeOK, NoFiles
  <2>3. TypeOK'
    BY <1>a, <1>1, <2>1, <2>2 DEF Begin, TypeOK
  <2> QED
    BY <1>1, <2>3 DEF Begin, IInv, StageInv, InstallInv, TrapInv, DoneInv, RestInv, Untouched
<1>2. CASE Check
  <2>1. TypeOK'
    BY <1>a, <1>2 DEF Check, TypeOK
  <2>2. Untouched /\ exitCode = 0 /\ i = 1
    BY <1>a, <1>2 DEF Check, RestInv
  <2> QED
    BY <1>a, <1>2, <2>1, <2>2
    DEF Check, IInv, StageInv, InstallInv, TrapInv, DoneInv, RestInv, Untouched, WholeOrKept, Targets
<1>3. CASE Stage
  <2>a. /\ i \in Targets /\ i + 1 \in 1 .. NumTargets + 1 /\ 1 \in 1 .. NumTargets + 1
        /\ files[i] \in {"stock", "override"}
    BY <1>a, <1>3 DEF Stage, TypeOK, Targets
  <2>b. /\ (i \in 1 .. NumTargets + 1)'
        /\ (tmp \in [Targets -> Contents \cup {NoFile}])'
        /\ (backup \in [Targets -> Contents \cup {NoFile}])'
    BY <1>a, <1>3, <2>a DEF Stage, Trap, TypeOK, Contents
  <2>1. TypeOK'
    BY <1>a, <1>3, <2>b DEF Stage, Trap, TypeOK
  <2>2. Untouched /\ exitCode = 0
    BY <1>a, <1>3 DEF Stage, StageInv
  <2> QED
    BY <1>a, <1>3, <2>1, <2>2
    DEF Stage, Trap, IInv, TypeOK, StageInv, InstallInv, TrapInv, DoneInv, RestInv, Untouched, Targets
<1>4. CASE Staged
  <2>1. TypeOK'
    BY <1>a, <1>4 DEF Staged, TypeOK
  <2> QED
    BY <1>a, <1>4, <2>1
    DEF Staged, IInv, TypeOK, StageInv, InstallInv, TrapInv, DoneInv, RestInv, Untouched, Targets
<1>5. CASE Install
  <2>1. tmp[i] = "override" /\ i \in Targets
    BY <1>a, <1>5 DEF Install, InstallInv, TypeOK, Targets
  <2>a. /\ (i \in 1 .. NumTargets + 1)' /\ pc' \in {"install", "trap"}
        /\ (tmp \in [Targets -> Contents \cup {NoFile}])'
        /\ (files \in [Targets -> {"stock", "override"}])'
        /\ exitCode' \in {0, 1}
    BY <1>a, <1>5, <2>1 DEF Install, Trap, TypeOK, Targets
  <2>2. TypeOK'
    BY <1>a, <1>5, <2>a DEF Install, TypeOK
  <2>3. /\ rollback' /\ ~failed' /\ backup' = backup /\ orig' = orig
        /\ \A t \in Targets : backup[t] = orig[t]
    BY <1>a, <1>5 DEF Install, InstallInv
  <2>4. CASE pc' = "install"
    BY <1>a, <1>5, <2>1, <2>2, <2>3, <2>4
    DEF Install, Trap, IInv, TypeOK, StageInv, InstallInv, TrapInv, DoneInv, RestInv, Targets
  <2>5. CASE pc' = "trap"
    <3>1. i' = 1 /\ exitCode' = 1
      BY <1>5, <2>5 DEF Install, Trap
    <3>2. \A t \in Targets : ~ t < 1
      BY DEF Targets
    <3> QED
      BY <2>2, <2>3, <2>5, <3>1, <3>2
      DEF IInv, StageInv, InstallInv, TrapInv, DoneInv, RestInv
  <2> QED
    BY <2>a, <2>4, <2>5
<1>6. CASE Clear
  <2>a. (i \in 1 .. NumTargets + 1)' /\ pc' = "trap" /\ exitCode' \in {0, 1}
    BY <1>a, <1>6 DEF Clear, Trap, TypeOK
  <2>b. (cache \in SUBSET CacheEntries)'
    BY <1>a, <1>6 DEF Clear, TypeOK
  <2>c. rollback' \in BOOLEAN
    BY <1>a, <1>6 DEF Clear, TypeOK
  <2>1. /\ (i \in 1 .. NumTargets + 1)' /\ pc' = "trap" /\ (cache \in SUBSET CacheEntries)'
        /\ exitCode' \in {0, 1} /\ rollback' \in BOOLEAN
    BY <2>a, <2>b, <2>c
  <2>2. TypeOK'
    BY <1>a, <1>6, <2>1 DEF Clear, TypeOK
  <2>3. /\ \A t \in Targets : files[t] = "override" /\ backup[t] = orig[t]
        /\ ~failed /\ rollback
    BY <1>a, <1>6 DEF Clear, InstallInv, TypeOK, Targets
  <2>4. i' = 1 /\ \A t \in Targets : ~ t < 1
    BY <1>6 DEF Clear, Trap, Targets
  <2>5. files' = files /\ backup' = backup /\ orig' = orig /\ failed' = failed
    BY <1>6 DEF Clear
  <2>6. TrapInv'
    <3>1. CASE ~ rollback'
      <4>1. cache' = {}
        BY <1>6, <2>3, <3>1 DEF Clear, Trap
      <4> QED
        BY <2>3, <2>5, <3>1, <4>1 DEF TrapInv, Complete
    <3>2. CASE rollback'
      <4>1. exitCode' = 1
        BY <1>6, <3>2 DEF Clear, Trap
      <4> QED
        BY <2>3, <2>4, <2>5, <3>2, <4>1 DEF TrapInv
    <3> QED
      BY <3>1, <3>2
  <2> QED
    BY <2>1, <2>2, <2>6 DEF IInv, StageInv, InstallInv, DoneInv, RestInv
<1>7. CASE Restore
  <2>1. i \in Targets /\ backup[i] = orig[i] /\ exitCode = 1 /\ rollback
    BY <1>a, <1>7 DEF Restore, TrapInv, Complete, TypeOK, Targets
  <2>b. backup[i] # NoFile
    BY <1>a, <2>1 DEF TypeOK, NoFile
  <2>c. (i \in 1 .. NumTargets + 1)' /\ pc' \in {"trap", "done"} /\ exitCode' = 1
    <3>1. i' = i \/ i' = i + 1
      BY <1>7 DEF Restore, Abandon
    <3>2. i' \in 1 .. NumTargets + 1
      BY <2>1, <3>1 DEF Targets
    <3>3. pc' \in {"trap", "done"} /\ exitCode' = 1
      BY <1>7, <2>1 DEF Restore, Abandon
    <3> QED
      BY <3>2, <3>3
  <2>d. files' = files \/ files' = [files EXCEPT ![i] = backup[i]]
    BY <1>7 DEF Restore
  <2>e. backup' = backup \/ backup' = [backup EXCEPT ![i] = NoFile]
    BY <1>7 DEF Restore
  <2>f. failed' \in BOOLEAN
    BY <1>a, <1>7 DEF Restore, TypeOK
  <2>g. (files \in [Targets -> {"stock", "override"}])'
    BY <1>a, <2>1, <2>d DEF TypeOK
  <2>h. (backup \in [Targets -> Contents \cup {NoFile}])'
    BY <1>a, <2>1, <2>e DEF TypeOK
  <2>a. /\ (i \in 1 .. NumTargets + 1)'
        /\ (files \in [Targets -> {"stock", "override"}])'
        /\ (backup \in [Targets -> Contents \cup {NoFile}])'
        /\ failed' \in BOOLEAN /\ pc' \in {"trap", "done"} /\ exitCode' = 1
    BY <2>c, <2>f, <2>g, <2>h
  <2>2. TypeOK'
    BY <1>a, <1>7, <2>a DEF Restore, TypeOK
  <2>3. /\ rollback' /\ orig' = orig /\ (failed => failed')
        /\ files'[i] = orig[i] \/ backup'[i] = orig[i]
        /\ \A t \in Targets \ {i} : files'[t] = files[t] /\ backup'[t] = backup[t]
    BY <1>a, <1>7, <2>1 DEF Restore, TypeOK
  <2>4. \A t \in Targets :
          IF t < i THEN files[t] = orig[t] \/ (failed /\ backup[t] = orig[t])
          ELSE backup[t] = orig[t]
    BY <1>a, <1>7, <2>1 DEF Restore, TrapInv
  <2>5. CASE pc' = "trap"
    <3>1. i' = i + 1 /\ (files'[i] = orig[i] \/ (failed' /\ backup'[i] = orig[i]))
      BY <1>a, <1>7, <2>1, <2>b, <2>5 DEF Restore, Abandon, TypeOK
    <3>2. ASSUME NEW t \in Targets
          PROVE  IF t < i' THEN files'[t] = orig[t] \/ (failed' /\ backup'[t] = orig[t])
                 ELSE backup'[t] = orig[t]
      <4>1. CASE t = i
        BY <2>1, <3>1, <4>1 DEF Targets
      <4>2. CASE t # i
        <5>1. t < i <=> t < i'
          BY <2>1, <3>1, <4>2 DEF Targets
        <5> QED
          BY <2>3, <2>4, <4>2, <5>1
      <4> QED
        BY <4>1, <4>2
    <3>3. TrapInv'
      BY <2>3, <2>a, <3>2 DEF TrapInv
    <3> QED
      BY <2>2, <2>5, <3>3 DEF IInv, StageInv, InstallInv, DoneInv, RestInv
  <2>6. CASE pc' = "done"
    <3>1. i' = i /\ i <= NumTargets
      BY <1>7, <2>6, <2>b DEF Restore, Abandon
    <3>2. WholeOrKept'
      <4>1. \A t \in Targets : files'[t] = orig[t] \/ backup'[t] = orig[t]
        BY <2>3, <2>4
      <4> QED
        BY <2>3, <4>1 DEF WholeOrKept
    <3> QED
      BY <2>2, <2>3, <2>6, <2>a, <3>1, <3>2
      DEF IInv, StageInv, InstallInv, TrapInv, DoneInv, RestInv
  <2> QED
    BY <2>a, <2>5, <2>6
<1>8. CASE Exit
  <2>a. /\ (tmp \in [Targets -> Contents \cup {NoFile}])'
        /\ (backup \in [Targets -> Contents \cup {NoFile}])'
        /\ exitCode' \in {0, 1} /\ pc' = "done"
    BY <1>a, <1>8 DEF Exit, Abandon, PartOf, TypeOK, NoFiles, NoFile, Contents
  <2>1. TypeOK'
    BY <1>a, <1>8, <2>a DEF Exit, TypeOK
  <2>0. /\ files' = files /\ orig' = orig /\ rollback' = rollback /\ failed' = failed
        /\ i' = i /\ (exitCode = 1 => exitCode' = 1)
    BY <1>8 DEF Exit, Abandon
  <2>2. CASE Complete
    BY <2>0, <2>1, <2>2, <2>a
    DEF Complete, IInv, StageInv, InstallInv, TrapInv, DoneInv, RestInv
  <2>3. CASE exitCode = 1 /\ ~rollback /\ Untouched
    BY <2>0, <2>1, <2>3, <2>a
    DEF IInv, StageInv, InstallInv, TrapInv, DoneInv, RestInv, Untouched
  <2>4. CASE exitCode = 1 /\ rollback
    <3>1. \A t \in Targets : files[t] = orig[t] \/ (failed /\ backup[t] = orig[t])
      BY <1>a, <1>8, <2>4 DEF Exit, TrapInv, TypeOK, Targets
    <3>2. CASE failed
      <4>1. backup' = backup
        BY <1>8, <2>4, <3>2 DEF Exit
      <4>2. WholeOrKept'
        BY <2>0, <3>1, <4>1 DEF WholeOrKept
      <4> QED
        BY <2>0, <2>1, <2>4, <2>a, <3>2, <4>2
        DEF IInv, StageInv, InstallInv, DoneInv, TrapInv, RestInv
    <3>3. CASE ~ failed
      <4>1. files = orig
        BY <1>a, <3>1, <3>3 DEF TypeOK
      <4> QED
        BY <2>0, <2>1, <2>4, <2>a, <4>1
        DEF IInv, StageInv, InstallInv, DoneInv, TrapInv, RestInv
    <3> QED
      BY <3>2, <3>3
  <2> QED
    BY <1>a, <1>8, <2>2, <2>3, <2>4 DEF Exit, TypeOK, TrapInv
<1>9. CASE Kill
  <2>1. TypeOK'
    BY <1>a, <1>9 DEF Kill, TypeOK
  <2>2. OriginalsNeverLost'
    <3> SUFFICES ASSUME ~(files = Replaced /\ ~rollback), NEW t \in Targets
                 PROVE  files[t] = orig[t] \/ backup[t] = orig[t]
      BY <1>9 DEF Kill, OriginalsNeverLost, WholeOrKept, Replaced
    <3>1. ~ Complete
      BY <1>a DEF Complete, Replaced, TypeOK
    <3> QED
      BY <1>a, <1>9, <3>1
      DEF Kill, Running, TypeOK, StageInv, InstallInv, TrapInv, RestInv, Untouched
  <2> QED
    BY <1>9, <2>1, <2>2 DEF Kill, IInv, StageInv, InstallInv, TrapInv, DoneInv, RestInv
<1>10. CASE Compile
  BY <1>a, <1>10
  DEF Compile, Running, IInv, TypeOK, StageInv, InstallInv, TrapInv, DoneInv, RestInv,
      Untouched, WholeOrKept, Replaced, OriginalsNeverLost
<1>11. CASE UNCHANGED vars
  BY <1>a, <1>11
  DEF vars, IInv, TypeOK, StageInv, InstallInv, TrapInv, DoneInv, RestInv, Untouched,
      Complete, WholeOrKept, Replaced, OriginalsNeverLost
<1> QED
  BY <1>1, <1>2, <1>3, <1>4, <1>5, <1>6, <1>7, <1>8, <1>9, <1>10, <1>11 DEF Next

LEMMA AlwaysIInv == Spec => []IInv
BY InitIInv, StepIInv, PTL DEF Spec

-----------------------------------------------------------------------------
(* The script's variables stay in their ranges; above all, what is         *)
(* installed is never a torn or a missing file, whenever it is killed.     *)
THEOREM AlwaysTypeOK == Spec => []TypeOK
<1>1. IInv => TypeOK
  BY DEF IInv
<1> QED
  BY AlwaysIInv, <1>1, PTL

(* A run that ends with an error leaves every file as it found it, or all  *)
(* replaced with the rollback disarmed and the cache cleared before, or,   *)
(* where the rollback was itself stopped, a backup of each file it did not *)
(* put back; for any number of files.                                      *)
THEOREM AlwaysFailureAllOrNothing == Spec => []FailureAllOrNothing
<1>1. IInv => FailureAllOrNothing
  <2> SUFFICES ASSUME IInv PROVE FailureAllOrNothing
    OBVIOUS
  <2>1. (\A t \in Targets : files[t] = "override") => files = Replaced
    BY DEF IInv, TypeOK, Replaced
  <2>2. exitCode \in {0, 1}
    BY DEF IInv, TypeOK
  <2>3. pc = "trap" /\ ~rollback => files = orig \/ (files = Replaced /\ cache = {})
    BY <2>1, <2>2 DEF IInv, TrapInv, Complete, Untouched
  <2>4. pc = "done" /\ exitCode # 0 =>
          \/ files = orig
          \/ files = Replaced /\ ~rollback
          \/ rollback /\ (failed \/ i <= NumTargets) /\ WholeOrKept
    BY <2>1, <2>2 DEF IInv, DoneInv
  <2> QED
    BY <2>3, <2>4 DEF FailureAllOrNothing
<1> QED
  BY AlwaysIInv, <1>1, PTL

(* Until a run has replaced every file and disarmed its rollback, each     *)
(* file it found is in place or in a backup, after every command and at    *)
(* every kill.                                                             *)
THEOREM AlwaysOriginalsNeverLost == Spec => []OriginalsNeverLost
<1>1. IInv => OriginalsNeverLost
  <2> SUFFICES ASSUME IInv, ~(files = Replaced /\ ~rollback /\ pc \in {"trap", "done", "killed"})
               PROVE  WholeOrKept
    BY DEF OriginalsNeverLost
  <2>1. CASE pc \in {"idle", "check", "stage"}
    BY <2>1 DEF IInv, StageInv, RestInv, Untouched, WholeOrKept
  <2>2. CASE pc = "install"
    BY <2>2 DEF IInv, InstallInv, WholeOrKept
  <2>3. CASE pc = "killed"
    BY <2>3 DEF IInv, RestInv, OriginalsNeverLost
  <2>4. CASE pc \in {"trap", "done"}
    <3>1. rollback \/ ~ (\A t \in Targets : files[t] = "override")
      BY <2>4 DEF IInv, TypeOK, Replaced
    <3>2. exitCode \in {0, 1}
      BY DEF IInv, TypeOK
    <3> QED
      BY <2>4, <3>1, <3>2 DEF IInv, TrapInv, DoneInv, Complete, Untouched, WholeOrKept
  <2> QED
    BY <2>1, <2>2, <2>3, <2>4 DEF IInv, TypeOK
<1> QED
  BY AlwaysIInv, <1>1, PTL

(* A run that ends in success has installed every file, and the cache is   *)
(* empty when it ends.                                                     *)
THEOREM AlwaysSuccessIsComplete == Spec => SuccessIsComplete
<1>1. IInv => (pc = "done" /\ exitCode = 0 => files = [t \in Targets |-> "override"])
  BY DEF IInv, TypeOK, DoneInv
<1>2. IInv /\ [Next]_vars
        => [pc # "done" /\ pc' = "done" /\ exitCode' = 0 => cache' = {}]_vars
  <2> SUFFICES ASSUME IInv, Next, pc # "done", pc' = "done", exitCode' = 0
               PROVE  cache' = {}
    OBVIOUS
  <2>1. Check \/ Restore \/ Exit
    BY DEF Next, Begin, Check, Stage, Trap, Staged, Install, Clear, Restore, Abandon, Exit, Kill, Compile
  <2>2. ~Check /\ ~Restore
    BY DEF Check, Restore, Abandon
  <2>3. exitCode = 0 /\ pc = "trap" /\ cache' = cache
    BY <2>1, <2>2 DEF Exit, Abandon
  <2> QED
    BY <2>3 DEF IInv, TrapInv, Complete
<1> QED
  BY AlwaysIInv, <1>1, <1>2, PTL DEF Spec, SuccessIsComplete
=============================================================================
