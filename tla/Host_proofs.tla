------------------------------- MODULE Host_proofs -------------------------------
(***************************************************************************)
(* The theorems of the host. Host_steps says what each step does; here the *)
(* steps are put together into the inductive invariants: HostInv (types,   *)
(* the lock and what the handlers rely on), DataInv (the rows),            *)
(* CompanionInv (the record of the companion), WholeInv (how far a change  *)
(* of the release, a configuration or an activation got), BackInv (what an *)
(* operation that found the service running has to leave) and UpkeepInv    *)
(* (the release, the installation file and the receipt of a host that is   *)
(* used).                                                                  *)
(***************************************************************************)
EXTENDS Host_steps, MCHostAll

(***************************************************************************)
(* HostInv: the types, the lock, and what each step relies on.             *)
(***************************************************************************)

\* The steps at which the service is stopped.
NoService ==
  {"save", "migrate", "switch", "start", "undo.switch", "undo.unlink", "undo.copy", "undo.start",
   "rollback.switch", "rollback.unlink", "rollback.copy", "rollback.start", "return.switch",
   "return.unlink", "return.copy", "return.start", "replace.save", "replace.cut",
   "runtime.prepare", "runtime.start", "restore.copy", "restore.prepare", "restore.start",
   "migrate.save", "migrate.run", "optimize.directory", "optimize.save", "activate.refresh",
   "activate.legacy", "activate.switch", "activate.files", "activate.restart",
   "deactivate.link", "deactivate.files", "uninstall.export", "uninstall.disable",
   "uninstall.remove", "uninstall.purge"}

\* The steps between the copy of the database and the last change to it.
Copied ==
  {"migrate", "switch", "start", "check", "publish", "receipt", "undo.unlink", "undo.copy",
   "rollback.stop", "rollback.switch", "rollback.unlink", "rollback.copy", "rollback.start",
   "rollback.check", "rollback.publish", "rollback.receipt", "return.stop", "return.switch",
   "return.unlink", "return.copy", "replace.cut", "runtime.prepare", "runtime.start",
   "runtime.check", "restore.stop", "restore.copy", "migrate.run", "activate.sync",
   "activate.stop", "activate.refresh", "activate.legacy", "activate.switch", "activate.files",
   "activate.restart", "activate.check", "deactivate.stop", "deactivate.link",
   "deactivate.files"}

\* An operation that has copied the database and may still replace it.
Secured(l) ==
  \/ l.at \in Copied
  \/ l.at \in ReconcileLabels /\ l.ret # "return"
  \/ l.at \in {"undo.stop", "undo.switch"} /\ l.copied
  \/ l.at \in {"uninstall.disable", "uninstall.remove", "uninstall.purge"} /\ l.copied

\* What the handlers rely on.
Flags(l) ==
  /\ l.at \in {"runtime.start", "runtime.check"} => l.active
  /\ l.at \in {"stop", "save"} => ~l.copied
  /\ l.at \in UninstallLabels /\ l.published /\ l.staged.schema # 0 => l.copied
  /\ l.at = "uninstall.purge" => l.published

\* Where an operation may be without the lock.
Unlocked == {"idle", "return", "replace.lock", "uninstall.lock"} \cup MenuSteps

\* A step keeps the lock, takes it or ends the operation.
Locks(p) ==
  \/ Ends(p)
  \/ lock = None /\ lock' = p /\ proc'[p].at # "idle"
  \/ /\ lock' = lock /\ proc'[p].at # "idle"
     /\ proc[p].at \notin {"replace.lock", "uninstall.lock"}

\* A step leaves the service and the files as an operation may.
Serves(p) ==
  /\ Locks(p)
  /\ proc'[p].at \in NoService => up' = None
  /\ up' \in Releases \cup {None} /\ (up' # None => disk'.unit = "managed")
  /\ Flags(proc'[p])

\* No row goes that is not in a copy.
Secures(p) ==
  /\ \/ disk.db.rows \subseteq disk'.db.rows
     \/ Secured(proc[p])
     \/ disk.db.rows \subseteq {Foreign}
  /\ Secured(proc'[p]) => Secured(proc[p]) \/ disk.db \in disk'.backups \/ disk.db.schema = 0

\* An operation at rest relies on nothing.
LEMMA RestingFlags == Flags(Resting) /\ ~Secured(Resting) /\ Resting.at \notin NoService
BY DEF Flags, Secured, Resting, NoService, Copied, ReconcileLabels, UninstallLabels

\* What systemctl start leaves: a service, if its files fit, under a managed unit.
LEMMA Started ==
  ASSUME TypeOK, NEW r \in Starting
  PROVE  r \in Releases \cup {None} /\ (r # None => disk.unit = "managed")
BY DEF Starting, Fits, TypeOK, Disk

\* The types of the parts of the state.
LEMMA TypesNow ==
  ASSUME TypeOK
  PROVE  /\ disk \in Disk /\ codex \in Companion /\ torn \in BOOLEAN
         /\ up \in Releases \cup {None} /\ (up # None => disk.unit = "managed")
         /\ disk.unit \in {"none", "managed"} /\ disk.db \in Database
         /\ disk.backups \subseteq Database /\ disk.db.rows \subseteq 0..MaxWrites
         /\ disk.db.schema \in Nat /\ (disk.db.schema = 0 => disk.db.rows = {})
BY DEF TypeOK, Disk, Database

\* What every step keeps in order, and what only an operation with the lock changes.
Typed(p) ==
  /\ disk' \in Disk /\ codex' \in Companion
  /\ torn' \in BOOLEAN /\ (torn => torn')
  /\ writes' = writes /\ ops' = ops /\ crashes' \in 0..MaxCrashes
  /\ disk.backups \subseteq disk'.backups

\* Only an operation with the lock starts or stops the service.
Held(p) == up' = up \/ proc[p].at \notin Unlocked

\* An operation has what its next step relies on.
Ready(p) == Flags(proc[p]) /\ (proc[p].at \in NoService => up = None)

\* Every step, by its group, leaves the types and the observations in order.
LEMMA ActivateStepTyped ==
  ASSUME TypeOK, Placed, NEW p \in Procs, ActivateStep(p)
  PROVE  Moves(p) /\ Typed(p) /\ Held(p)
<1>1. /\ disk \in Disk /\ codex \in Companion /\ torn \in BOOLEAN
      /\ crashes \in 0..MaxCrashes /\ up \in Releases \cup {None}
  BY DEF TypeOK
<1> USE UnpackDoes, EnvironmentDoes, EnvironmentFailsDoes, PreflightDoes, StopServiceDoes,
     SaveDatabaseDoes, MigrateDatabaseDoes, MigrationFailsDoes, SwitchReleaseDoes,
     StartServiceDoes, CheckServiceDoes, PublishInstallationDoes, WriteReceiptDoes,
     ReturnDoes, BodyRaisesDoes DEF ActivateStep
<1>2. Moves(p) OBVIOUS
<1>3. disk' \in Disk /\ codex' \in Companion /\ torn' \in BOOLEAN /\ (torn => torn')
  BY <1>1
<1>4. writes' = writes /\ ops' = ops /\ crashes' = crashes BY DEF counts
<1>5. disk.backups \subseteq disk'.backups BY DEF DiskKeeps, DiskFields
<1>6. up' = up \/ proc[p].at \notin Unlocked BY DEF Unlocked, MenuSteps, Goes
<1>7. QED BY <1>1, <1>2, <1>3, <1>4, <1>5, <1>6 DEF Typed, Held

LEMMA UndoStepTyped ==
  ASSUME TypeOK, Placed, NEW p \in Procs, UndoStep(p)
  PROVE  Moves(p) /\ Typed(p) /\ Held(p)
<1>1. /\ disk \in Disk /\ codex \in Companion /\ torn \in BOOLEAN
      /\ crashes \in 0..MaxCrashes /\ up \in Releases \cup {None}
  BY DEF TypeOK
<1> USE UndoStopDoes, UndoSwitchDoes, UndoUnlinkDoes, UndoCopyDoes, UndoStartDoes,
     UndoPublishDoes, UndoReceiptDoes, UndoRaisesDoes DEF UndoStep
<1>2. Moves(p) OBVIOUS
<1>3. disk' \in Disk /\ codex' \in Companion /\ torn' \in BOOLEAN /\ (torn => torn')
  BY <1>1
<1>4. writes' = writes /\ ops' = ops /\ crashes' = crashes BY DEF counts
<1>5. disk.backups \subseteq disk'.backups BY DEF DiskKeeps, DiskFields
<1>6. up' = up \/ proc[p].at \notin Unlocked BY DEF Unlocked, MenuSteps, Goes
<1>7. QED BY <1>1, <1>2, <1>3, <1>4, <1>5, <1>6 DEF Typed, Held

LEMMA RollbackStepTyped ==
  ASSUME TypeOK, Placed, NEW p \in Procs, RollbackStep(p)
  PROVE  Moves(p) /\ Typed(p) /\ Held(p)
<1>1. /\ disk \in Disk /\ codex \in Companion /\ torn \in BOOLEAN
      /\ crashes \in 0..MaxCrashes /\ up \in Releases \cup {None}
  BY DEF TypeOK
<1> USE RollbackSaveDoes, RollbackStopDoes, RollbackRefusedDoes, RollbackSwitchDoes,
     RollbackUnlinkDoes, RollbackCopyDoes, RollbackStartDoes, RollbackCheckDoes,
     RollbackPublishDoes, RollbackReceiptDoes, RollbackRaisesDoes DEF RollbackStep
<1>2. Moves(p) OBVIOUS
<1>3. disk' \in Disk /\ codex' \in Companion /\ torn' \in BOOLEAN /\ (torn => torn')
  BY <1>1
<1>4. writes' = writes /\ ops' = ops /\ crashes' = crashes BY DEF counts
<1>5. disk.backups \subseteq disk'.backups BY DEF DiskKeeps, DiskFields
<1>6. up' = up \/ proc[p].at \notin Unlocked BY DEF Unlocked, MenuSteps, Goes
<1>7. QED BY <1>1, <1>2, <1>3, <1>4, <1>5, <1>6 DEF Typed, Held

LEMMA ReturnStepTyped ==
  ASSUME TypeOK, Placed, NEW p \in Procs, ReturnStep(p)
  PROVE  Moves(p) /\ Typed(p) /\ Held(p)
<1>1. /\ disk \in Disk /\ codex \in Companion /\ torn \in BOOLEAN
      /\ crashes \in 0..MaxCrashes /\ up \in Releases \cup {None}
  BY DEF TypeOK
<1> USE ReturnStopDoes, ReturnSwitchDoes, ReturnUnlinkDoes, ReturnCopyDoes, ReturnStartDoes,
     ReturnPublishDoes, ReturnRaisesDoes DEF ReturnStep
<1>2. Moves(p) OBVIOUS
<1>3. disk' \in Disk /\ codex' \in Companion /\ torn' \in BOOLEAN /\ (torn => torn')
  BY <1>1
<1>4. writes' = writes /\ ops' = ops /\ crashes' = crashes BY DEF counts
<1>5. disk.backups \subseteq disk'.backups BY DEF DiskKeeps, DiskFields
<1>6. up' = up \/ proc[p].at \notin Unlocked BY DEF Unlocked, MenuSteps, Goes
<1>7. QED BY <1>1, <1>2, <1>3, <1>4, <1>5, <1>6 DEF Typed, Held

LEMMA CodexStepTyped ==
  ASSUME TypeOK, Placed, NEW p \in Procs, CodexStep(p)
  PROVE  Moves(p) /\ Typed(p) /\ Held(p)
<1>1. /\ disk \in Disk /\ codex \in Companion /\ torn \in BOOLEAN
      /\ crashes \in 0..MaxCrashes /\ up \in Releases \cup {None}
  BY DEF TypeOK
<1> USE DisableDoes, ReconcileKeepsDoes, ReconcileRepairsDoes, ReconcileRaisesDoes,
     StageAsideDoes, StageInstallDoes, StageInstallFailsDoes, StagePrepareDoes,
     StagePrepareFailsDoes, StageRaisesDoes, StageFailDoes, FailOffDoes, EnableStartDoes,
     EnableRefreshDoes, EnableReadyDoes, EnableStatusDoes, EnableRaisesDoes, EnableOffDoes,
     EnableBackDoes, EnableFailDoes, RepairRestartDoes, RepairStatusDoes, RepairRaisesDoes,
     RepairBackDoes, RepairAgainDoes, RepairFailDoes, CodexRaisesDoes DEF CodexStep
<1>2. Moves(p) OBVIOUS
<1>3. disk' \in Disk /\ codex' \in Companion /\ torn' \in BOOLEAN /\ (torn => torn')
  BY <1>1
<1>4. writes' = writes /\ ops' = ops /\ crashes' = crashes BY DEF counts
<1>5. disk.backups \subseteq disk'.backups BY DEF DiskKeeps, DiskFields
<1>6. up' = up \/ proc[p].at \notin Unlocked BY DEF Unlocked, MenuSteps, Goes
<1>7. QED BY <1>1, <1>2, <1>3, <1>4, <1>5, <1>6 DEF Typed, Held

LEMMA DatabaseStepTyped ==
  ASSUME TypeOK, Placed, NEW p \in Procs, DatabaseStep(p)
  PROVE  Moves(p) /\ Typed(p) /\ Held(p)
<1>1. /\ disk \in Disk /\ codex \in Companion /\ torn \in BOOLEAN
      /\ crashes \in 0..MaxCrashes /\ up \in Releases \cup {None}
  BY DEF TypeOK
<1>2. up' = up \/ proc[p].at \notin Unlocked
  <2> USE DEF Unlocked, MenuSteps, Goes
  <2>1. CASE \/ ReplaceLock(p) \/ ReplaceRefused(p) \/ ReplaceStop(p) \/ ReplaceSave(p)
             \/ ReplaceCut(p) \/ RuntimePrepare(p) \/ RuntimeStart(p) \/ RuntimeCheck(p)
             \/ ReplaceRaises(p)
    BY <2>1, ReplaceLockDoes, ReplaceRefusedDoes, ReplaceStopDoes, ReplaceSaveDoes,
       ReplaceCutDoes, RuntimePrepareDoes, RuntimeStartDoes, RuntimeCheckDoes,
       ReplaceRaisesDoes
  <2>2. CASE \/ ReplaceResume(p) \/ RestoreStop(p) \/ RestoreCopy(p) \/ RestorePrepare(p)
             \/ RestoreStart(p) \/ RestoreCheck(p) \/ RestoreRaises(p) \/ OptimizeStop(p)
             \/ OptimizeDirectory(p)
    BY <2>2, ReplaceResumeDoes, RestoreStopDoes, RestoreCopyDoes, RestorePrepareDoes,
       RestoreStartDoes, RestoreCheckDoes, RestoreRaisesDoes, OptimizeStopDoes,
       OptimizeDirectoryDoes
  <2>3. CASE \/ OptimizeSave(p) \/ StopRefused(p) \/ MigrateStop(p) \/ MigrateSave(p)
             \/ MigrateRun(p) \/ MigrateFails(p) \/ BackupRaises(p) \/ Mutate(p)
    BY <2>3, OptimizeSaveDoes, StopRefusedDoes, MigrateStopDoes, MigrateSaveDoes,
       MigrateRunDoes, MigrateFailsDoes, BackupRaisesDoes, MutateDoes
  <2>4. QED BY <2>1, <2>2, <2>3 DEF DatabaseStep
<1> USE ReplaceLockDoes, ReplaceRefusedDoes, ReplaceStopDoes, ReplaceSaveDoes, ReplaceCutDoes,
     RuntimePrepareDoes, RuntimeStartDoes, RuntimeCheckDoes, ReplaceRaisesDoes,
     ReplaceResumeDoes, RestoreStopDoes, RestoreCopyDoes, RestorePrepareDoes,
     RestoreStartDoes, RestoreCheckDoes, RestoreRaisesDoes, OptimizeStopDoes,
     OptimizeDirectoryDoes, OptimizeSaveDoes, StopRefusedDoes, MigrateStopDoes,
     MigrateSaveDoes, MigrateRunDoes, MigrateFailsDoes, BackupRaisesDoes, MutateDoes DEF
     DatabaseStep
<1>3. Moves(p) OBVIOUS
<1>4. disk' \in Disk /\ codex' \in Companion /\ torn' \in BOOLEAN /\ (torn => torn')
  BY <1>1
<1>5. writes' = writes /\ ops' = ops /\ crashes' = crashes BY DEF counts
<1>6. disk.backups \subseteq disk'.backups BY DEF DiskKeeps, DiskFields
<1>7. QED BY <1>1, <1>2, <1>3, <1>4, <1>5, <1>6 DEF Typed, Held

LEMMA SetupStepTyped ==
  ASSUME TypeOK, Placed, NEW p \in Procs, SetupStep(p)
  PROVE  Moves(p) /\ Typed(p) /\ Held(p)
<1>1. /\ disk \in Disk /\ codex \in Companion /\ torn \in BOOLEAN
      /\ crashes \in 0..MaxCrashes /\ up \in Releases \cup {None}
  BY DEF TypeOK
<1> USE StageReleaseDoes, StageDatabaseDoes, StageDomainDoes, StageServiceDoes,
     SetupRaisesDoes, ActivateStageDoes, ActivateBackupDoes, ActivateSyncDoes,
     ActivateStopDoes, ActivateRefreshDoes, ActivateLegacyDoes, ActivateSwitchDoes,
     ActivateFilesDoes, ActivateRestartDoes, ActivateCheckDoes, ActivatePublishDoes,
     ActivateReceiptDoes, ActivateRaisesDoes, DeactivateStopDoes, DeactivateLinkDoes,
     DeactivateFilesDoes, DeactivateStartDoes, DeactivateReceiptDoes, DeactivateRaisesDoes,
     ConfigureEnvDoes, ConfigureCaddyDoes, ConfigureRestartDoes, ConfigurePublishDoes,
     ConfigureFailsDoes, ConfigureUndoDoes, ConfigureAgainDoes, ConfigureRaisesDoes,
     UninstallLockDoes, UninstallRefusedDoes, UninstallStopDoes, UninstallExportDoes,
     UninstallExportFailsDoes, UninstallResumeDoes, UninstallDisableDoes,
     UninstallRemoveDoes, UninstallPurgeDoes, UninstallRaisesDoes DEF SetupStep
<1>2. Moves(p) OBVIOUS
<1>3. disk' \in Disk /\ codex' \in Companion /\ torn' \in BOOLEAN /\ (torn => torn')
  BY <1>1
<1>4. writes' = writes /\ ops' = ops /\ crashes' = crashes BY DEF counts
<1>5. disk.backups \subseteq disk'.backups BY DEF DiskKeeps, DiskFields
<1>6. up' = up \/ proc[p].at \notin Unlocked
  <2>1. CASE ActivateStop(p) \/ ActivateRestart(p) \/ DeactivateStop(p) \/
              DeactivateStart(p) \/ ConfigureRestart(p) \/ ConfigureAgain(p) \/
              UninstallStop(p) \/ UninstallResume(p) \/ UninstallDisable(p)
    BY <2>1 DEF Unlocked, MenuSteps, Goes
  <2>2. CASE ~(ActivateStop(p) \/ ActivateRestart(p) \/ DeactivateStop(p) \/
              DeactivateStart(p) \/ ConfigureRestart(p) \/ ConfigureAgain(p) \/
              UninstallStop(p) \/ UninstallResume(p) \/ UninstallDisable(p))
    BY <2>2
  <2>3. QED BY <2>1, <2>2
<1>7. QED BY <1>1, <1>2, <1>3, <1>4, <1>5, <1>6 DEF Typed, Held

\* Every step, by its group, leaves the service as the next one relies on.
LEMMA ActivateStepServes ==
  ASSUME TypeOK, Placed, NEW p \in Procs, ActivateStep(p), Ready(p)
  PROVE  Serves(p) /\ Secures(p)
<1>1. CASE Unpack(p)
  <2>1. disk'.db = disk.db /\ disk'.backups = disk.backups /\ disk'.unit = disk.unit
    BY <1>1, UnpackDoes DEF DiskKeeps, DiskFields
  <2>2. Serves(p)
    BY <1>1, <2>1, UnpackDoes, RestingFlags, TypesNow DEF Serves, Ready, Locks, Flags,
       NoService, UninstallLabels, Goes, Ends, Keeps, Fields
  <2>3. Secures(p)
    BY <1>1, <2>1, UnpackDoes, RestingFlags, TypesNow DEF Secures, Secured, Ready, Flags,
       Copied, ReconcileLabels, Goes, Ends, Keeps, Fields
  <2>4. QED BY <2>2, <2>3
<1>2. CASE Environment(p)
  <2>1. disk'.db = disk.db /\ disk'.backups = disk.backups /\ disk'.unit = disk.unit
    BY <1>2, EnvironmentDoes DEF DiskKeeps, DiskFields
  <2>2. Serves(p)
    BY <1>2, <2>1, EnvironmentDoes, RestingFlags, TypesNow DEF Serves, Ready, Locks, Flags,
       NoService, UninstallLabels, Goes, Ends, Keeps, Fields
  <2>3. Secures(p)
    BY <1>2, <2>1, EnvironmentDoes, RestingFlags, TypesNow DEF Secures, Secured, Ready, Flags,
       Copied, ReconcileLabels, Goes, Ends, Keeps, Fields
  <2>4. QED BY <2>2, <2>3
<1>3. CASE EnvironmentFails(p)
  <2>1. disk'.db = disk.db /\ disk'.backups = disk.backups /\ disk'.unit = disk.unit
    BY <1>3, EnvironmentFailsDoes DEF DiskKeeps, DiskFields
  <2>2. Serves(p)
    BY <1>3, <2>1, EnvironmentFailsDoes, RestingFlags, TypesNow DEF Serves, Ready, Locks,
       Flags, NoService, UninstallLabels, Goes, Ends, Keeps, Fields
  <2>3. Secures(p)
    BY <1>3, <2>1, EnvironmentFailsDoes, RestingFlags, TypesNow DEF Secures, Secured, Ready,
       Flags, Copied, ReconcileLabels, Goes, Ends, Keeps, Fields
  <2>4. QED BY <2>2, <2>3
<1>4. CASE Preflight(p)
  <2>1. Serves(p)
    BY <1>4, PreflightDoes, RestingFlags, TypesNow DEF Serves, Ready, Locks, Flags, NoService,
       UninstallLabels, Goes, Ends, Keeps, Fields
  <2>2. Secures(p)
    BY <1>4, PreflightDoes, RestingFlags, TypesNow DEF Secures, Secured, Ready, Flags, Copied,
       ReconcileLabels, Goes, Ends, Keeps, Fields
  <2>3. QED BY <2>1, <2>2
<1>5. CASE StopService(p)
  <2>1. Serves(p)
    BY <1>5, StopServiceDoes, RestingFlags, TypesNow DEF Serves, Ready, Locks, Flags,
       NoService, UninstallLabels, Goes, Ends, Keeps, Fields
  <2>2. Secures(p)
    BY <1>5, StopServiceDoes, RestingFlags, TypesNow DEF Secures, Secured, Ready, Flags,
       Copied, ReconcileLabels, Goes, Ends, Keeps, Fields
  <2>3. QED BY <2>1, <2>2
<1>6. CASE SaveDatabase(p)
  <2>1. disk'.db = disk.db /\ disk'.unit = disk.unit
    BY <1>6, SaveDatabaseDoes DEF DiskKeeps, DiskFields
  <2>2. Serves(p)
    BY <1>6, <2>1, SaveDatabaseDoes, RestingFlags, TypesNow DEF Serves, Ready, Locks, Flags,
       NoService, UninstallLabels, Goes, Ends, Keeps, Fields
  <2>3. Secures(p)
    BY <1>6, <2>1, SaveDatabaseDoes, RestingFlags, TypesNow DEF Secures, Secured, Ready,
       Flags, Copied, ReconcileLabels, Goes, Ends, Keeps, Fields
  <2>4. QED BY <2>2, <2>3
<1>7. CASE MigrateDatabase(p)
  <2>1. disk'.backups = disk.backups /\ disk'.unit = disk.unit
    BY <1>7, MigrateDatabaseDoes DEF DiskKeeps, DiskFields
  <2>2. Serves(p)
    BY <1>7, <2>1, MigrateDatabaseDoes, RestingFlags, TypesNow DEF Serves, Ready, Locks,
       Flags, NoService, UninstallLabels, Goes, Ends, Keeps, Fields
  <2>3. Secures(p)
    BY <1>7, <2>1, MigrateDatabaseDoes, RestingFlags, TypesNow DEF Secures, Secured, Ready,
       Flags, Copied, ReconcileLabels, Goes, Ends, Keeps, Fields
  <2>4. QED BY <2>2, <2>3
<1>8. CASE MigrationFails(p)
  <2>1. disk'.backups = disk.backups /\ disk'.unit = disk.unit
    BY <1>8, MigrationFailsDoes DEF DiskKeeps, DiskFields
  <2>2. Serves(p)
    BY <1>8, <2>1, MigrationFailsDoes, RestingFlags, TypesNow DEF Serves, Ready, Locks, Flags,
       NoService, UninstallLabels, Goes, Ends, Keeps, Fields
  <2>3. Secures(p)
    BY <1>8, <2>1, MigrationFailsDoes, RestingFlags, TypesNow DEF Secures, Secured, Ready,
       Flags, Copied, ReconcileLabels, Goes, Ends, Keeps, Fields
  <2>4. QED BY <2>2, <2>3
<1>9. CASE SwitchRelease(p)
  <2>1. disk'.db = disk.db /\ disk'.backups = disk.backups /\ disk'.unit = disk.unit
    BY <1>9, SwitchReleaseDoes DEF DiskKeeps, DiskFields
  <2>2. Serves(p)
    BY <1>9, <2>1, SwitchReleaseDoes, RestingFlags, TypesNow DEF Serves, Ready, Locks, Flags,
       NoService, UninstallLabels, Goes, Ends, Keeps, Fields
  <2>3. Secures(p)
    BY <1>9, <2>1, SwitchReleaseDoes, RestingFlags, TypesNow DEF Secures, Secured, Ready,
       Flags, Copied, ReconcileLabels, Goes, Ends, Keeps, Fields
  <2>4. QED BY <2>2, <2>3
<1>10. CASE StartService(p)
  <2>1. Serves(p)
    BY <1>10, StartServiceDoes, RestingFlags, TypesNow, Started DEF Serves, Ready, Locks,
       Flags, NoService, UninstallLabels, Goes, Ends, Keeps, Fields
  <2>2. Secures(p)
    BY <1>10, StartServiceDoes, RestingFlags, TypesNow DEF Secures, Secured, Ready, Flags,
       Copied, ReconcileLabels, Goes, Ends, Keeps, Fields
  <2>3. QED BY <2>1, <2>2
<1>11. CASE CheckService(p)
  <2>1. Serves(p)
    BY <1>11, CheckServiceDoes, RestingFlags, TypesNow DEF Serves, Ready, Locks, Flags,
       NoService, UninstallLabels, Goes, Ends, Keeps, Fields
  <2>2. Secures(p)
    BY <1>11, CheckServiceDoes, RestingFlags, TypesNow DEF Secures, Secured, Ready, Flags,
       Copied, ReconcileLabels, Goes, Ends, Keeps, Fields
  <2>3. QED BY <2>1, <2>2
<1>12. CASE PublishInstallation(p)
  <2>1. disk'.db = disk.db /\ disk'.backups = disk.backups /\ disk'.unit = disk.unit
    BY <1>12, PublishInstallationDoes DEF DiskKeeps, DiskFields
  <2>2. Serves(p)
    BY <1>12, <2>1, PublishInstallationDoes, RestingFlags, TypesNow DEF Serves, Ready, Locks,
       Flags, NoService, UninstallLabels, Goes, Ends, Keeps, Fields
  <2>3. Secures(p)
    BY <1>12, <2>1, PublishInstallationDoes, RestingFlags, TypesNow DEF Secures, Secured,
       Ready, Flags, Copied, ReconcileLabels, Goes, Ends, Keeps, Fields
  <2>4. QED BY <2>2, <2>3
<1>13. CASE WriteReceipt(p)
  <2>1. disk'.db = disk.db /\ disk'.backups = disk.backups /\ disk'.unit = disk.unit
    BY <1>13, WriteReceiptDoes DEF DiskKeeps, DiskFields
  <2>2. Serves(p)
    BY <1>13, <2>1, WriteReceiptDoes, RestingFlags, TypesNow DEF Serves, Ready, Locks, Flags,
       NoService, UninstallLabels, Goes, Ends, Keeps, Fields
  <2>3. Secures(p)
    BY <1>13, <2>1, WriteReceiptDoes, RestingFlags, TypesNow DEF Secures, Secured, Ready,
       Flags, Copied, ReconcileLabels, Goes, Ends, Keeps, Fields
  <2>4. QED BY <2>2, <2>3
<1>14. CASE Return(p)
  <2>1. Serves(p)
    BY <1>14, ReturnDoes, RestingFlags, TypesNow DEF Serves, Ready, Locks, Flags, NoService,
       UninstallLabels, Goes, Ends, Keeps, Fields
  <2>2. Secures(p)
    BY <1>14, ReturnDoes, RestingFlags, TypesNow DEF Secures, Secured, Ready, Flags, Copied,
       ReconcileLabels, Goes, Ends, Keeps, Fields
  <2>3. QED BY <2>1, <2>2
<1>15. CASE BodyRaises(p)
  <2>1. Serves(p)
    BY <1>15, BodyRaisesDoes, RestingFlags, TypesNow DEF Serves, Ready, Locks, Flags,
       NoService, UninstallLabels, Goes, Ends, Keeps, Fields, Guarded
  <2>2. Secures(p)
    BY <1>15, BodyRaisesDoes, RestingFlags, TypesNow DEF Secures, Secured, Ready, Flags,
       Copied, ReconcileLabels, Goes, Ends, Keeps, Fields, Guarded
  <2>3. QED BY <2>1, <2>2
<1>16. QED
  BY <1>1, <1>2, <1>3, <1>4, <1>5, <1>6, <1>7, <1>8, <1>9, <1>10, <1>11, <1>12, <1>13,
     <1>14, <1>15 DEF ActivateStep

LEMMA UndoStepServes ==
  ASSUME TypeOK, Placed, NEW p \in Procs, UndoStep(p), Ready(p)
  PROVE  Serves(p) /\ Secures(p)
<1>1. CASE UndoStop(p)
  <2>1. Serves(p)
    BY <1>1, UndoStopDoes, RestingFlags, TypesNow DEF Serves, Ready, Locks, Flags, NoService,
       UninstallLabels, Goes, Ends, Keeps, Fields
  <2>2. Secures(p)
    BY <1>1, UndoStopDoes, RestingFlags, TypesNow DEF Secures, Secured, Ready, Flags, Copied,
       ReconcileLabels, Goes, Ends, Keeps, Fields
  <2>3. QED BY <2>1, <2>2
<1>2. CASE UndoSwitch(p)
  <2>1. disk'.db = disk.db /\ disk'.backups = disk.backups /\ disk'.unit = disk.unit
    BY <1>2, UndoSwitchDoes DEF DiskKeeps, DiskFields
  <2>2. Serves(p)
    BY <1>2, <2>1, UndoSwitchDoes, RestingFlags, TypesNow DEF Serves, Ready, Locks, Flags,
       NoService, UninstallLabels, Goes, Ends, Keeps, Fields
  <2>3. Secures(p)
    BY <1>2, <2>1, UndoSwitchDoes, RestingFlags, TypesNow DEF Secures, Secured, Ready, Flags,
       Copied, ReconcileLabels, Goes, Ends, Keeps, Fields
  <2>4. QED BY <2>2, <2>3
<1>3. CASE UndoUnlink(p)
  <2>1. disk'.backups = disk.backups /\ disk'.unit = disk.unit
    BY <1>3, UndoUnlinkDoes DEF DiskKeeps, DiskFields
  <2>2. Serves(p)
    BY <1>3, <2>1, UndoUnlinkDoes, RestingFlags, TypesNow DEF Serves, Ready, Locks, Flags,
       NoService, UninstallLabels, Goes, Ends, Keeps, Fields
  <2>3. Secures(p)
    BY <1>3, <2>1, UndoUnlinkDoes, RestingFlags, TypesNow DEF Secures, Secured, Ready, Flags,
       Copied, ReconcileLabels, Goes, Ends, Keeps, Fields
  <2>4. QED BY <2>2, <2>3
<1>4. CASE UndoCopy(p)
  <2>1. disk'.backups = disk.backups /\ disk'.unit = disk.unit
    BY <1>4, UndoCopyDoes DEF DiskKeeps, DiskFields
  <2>2. Serves(p)
    BY <1>4, <2>1, UndoCopyDoes, RestingFlags, TypesNow DEF Serves, Ready, Locks, Flags,
       NoService, UninstallLabels, Goes, Ends, Keeps, Fields
  <2>3. Secures(p)
    BY <1>4, <2>1, UndoCopyDoes, RestingFlags, TypesNow DEF Secures, Secured, Ready, Flags,
       Copied, ReconcileLabels, Goes, Ends, Keeps, Fields
  <2>4. QED BY <2>2, <2>3
<1>5. CASE UndoStart(p)
  <2>1. Serves(p)
    BY <1>5, UndoStartDoes, RestingFlags, TypesNow, Started DEF Serves, Ready, Locks, Flags,
       NoService, UninstallLabels, Goes, Ends, Keeps, Fields
  <2>2. Secures(p)
    BY <1>5, UndoStartDoes, RestingFlags, TypesNow DEF Secures, Secured, Ready, Flags, Copied,
       ReconcileLabels, Goes, Ends, Keeps, Fields
  <2>3. QED BY <2>1, <2>2
<1>6. CASE UndoPublish(p)
  <2>1. disk'.db = disk.db /\ disk'.backups = disk.backups /\ disk'.unit = disk.unit
    BY <1>6, UndoPublishDoes DEF DiskKeeps, DiskFields
  <2>2. Serves(p)
    BY <1>6, <2>1, UndoPublishDoes, RestingFlags, TypesNow DEF Serves, Ready, Locks, Flags,
       NoService, UninstallLabels, Goes, Ends, Keeps, Fields
  <2>3. Secures(p)
    BY <1>6, <2>1, UndoPublishDoes, RestingFlags, TypesNow DEF Secures, Secured, Ready, Flags,
       Copied, ReconcileLabels, Goes, Ends, Keeps, Fields
  <2>4. QED BY <2>2, <2>3
<1>7. CASE UndoReceipt(p)
  <2>1. disk'.db = disk.db /\ disk'.backups = disk.backups /\ disk'.unit = disk.unit
    BY <1>7, UndoReceiptDoes DEF DiskKeeps, DiskFields
  <2>2. Serves(p)
    BY <1>7, <2>1, UndoReceiptDoes, RestingFlags, TypesNow DEF Serves, Ready, Locks, Flags,
       NoService, UninstallLabels, Goes, Ends, Keeps, Fields
  <2>3. Secures(p)
    BY <1>7, <2>1, UndoReceiptDoes, RestingFlags, TypesNow DEF Secures, Secured, Ready, Flags,
       Copied, ReconcileLabels, Goes, Ends, Keeps, Fields
  <2>4. QED BY <2>2, <2>3
<1>8. CASE UndoRaises(p)
  <2>1. Serves(p)
    BY <1>8, UndoRaisesDoes, RestingFlags, TypesNow DEF Serves, Ready, Locks, Flags,
       NoService, UninstallLabels, Goes, Ends, Keeps, Fields
  <2>2. Secures(p)
    BY <1>8, UndoRaisesDoes, RestingFlags, TypesNow DEF Secures, Secured, Ready, Flags,
       Copied, ReconcileLabels, Goes, Ends, Keeps, Fields
  <2>3. QED BY <2>1, <2>2
<1>9. QED BY <1>1, <1>2, <1>3, <1>4, <1>5, <1>6, <1>7, <1>8 DEF UndoStep

LEMMA RollbackStepServes ==
  ASSUME TypeOK, Placed, NEW p \in Procs, RollbackStep(p), Ready(p)
  PROVE  Serves(p) /\ Secures(p)
<1>1. CASE RollbackSave(p)
  <2>1. disk'.db = disk.db /\ disk'.unit = disk.unit
    BY <1>1, RollbackSaveDoes DEF DiskKeeps, DiskFields
  <2>2. Serves(p)
    BY <1>1, <2>1, RollbackSaveDoes, RestingFlags, TypesNow DEF Serves, Ready, Locks, Flags,
       NoService, UninstallLabels, Goes, Ends, Keeps, Fields
  <2>3. Secures(p)
    BY <1>1, <2>1, RollbackSaveDoes, RestingFlags, TypesNow DEF Secures, Secured, Ready,
       Flags, Copied, ReconcileLabels, Goes, Ends, Keeps, Fields
  <2>4. QED BY <2>2, <2>3
<1>2. CASE RollbackStop(p)
  <2>1. Serves(p)
    BY <1>2, RollbackStopDoes, RestingFlags, TypesNow DEF Serves, Ready, Locks, Flags,
       NoService, UninstallLabels, Goes, Ends, Keeps, Fields
  <2>2. Secures(p)
    BY <1>2, RollbackStopDoes, RestingFlags, TypesNow DEF Secures, Secured, Ready, Flags,
       Copied, ReconcileLabels, Goes, Ends, Keeps, Fields
  <2>3. QED BY <2>1, <2>2
<1>3. CASE RollbackRefused(p)
  <2>1. Serves(p)
    BY <1>3, RollbackRefusedDoes, RestingFlags, TypesNow DEF Serves, Ready, Locks, Flags,
       NoService, UninstallLabels, Goes, Ends, Keeps, Fields
  <2>2. Secures(p)
    BY <1>3, RollbackRefusedDoes, RestingFlags, TypesNow DEF Secures, Secured, Ready, Flags,
       Copied, ReconcileLabels, Goes, Ends, Keeps, Fields
  <2>3. QED BY <2>1, <2>2
<1>4. CASE RollbackSwitch(p)
  <2>1. disk'.db = disk.db /\ disk'.backups = disk.backups /\ disk'.unit = disk.unit
    BY <1>4, RollbackSwitchDoes DEF DiskKeeps, DiskFields
  <2>2. Serves(p)
    BY <1>4, <2>1, RollbackSwitchDoes, RestingFlags, TypesNow DEF Serves, Ready, Locks, Flags,
       NoService, UninstallLabels, Goes, Ends, Keeps, Fields
  <2>3. Secures(p)
    BY <1>4, <2>1, RollbackSwitchDoes, RestingFlags, TypesNow DEF Secures, Secured, Ready,
       Flags, Copied, ReconcileLabels, Goes, Ends, Keeps, Fields
  <2>4. QED BY <2>2, <2>3
<1>5. CASE RollbackUnlink(p)
  <2>1. disk'.backups = disk.backups /\ disk'.unit = disk.unit
    BY <1>5, RollbackUnlinkDoes DEF DiskKeeps, DiskFields
  <2>2. Serves(p)
    BY <1>5, <2>1, RollbackUnlinkDoes, RestingFlags, TypesNow DEF Serves, Ready, Locks, Flags,
       NoService, UninstallLabels, Goes, Ends, Keeps, Fields
  <2>3. Secures(p)
    BY <1>5, <2>1, RollbackUnlinkDoes, RestingFlags, TypesNow DEF Secures, Secured, Ready,
       Flags, Copied, ReconcileLabels, Goes, Ends, Keeps, Fields
  <2>4. QED BY <2>2, <2>3
<1>6. CASE RollbackCopy(p)
  <2>1. disk'.backups = disk.backups /\ disk'.unit = disk.unit
    BY <1>6, RollbackCopyDoes DEF DiskKeeps, DiskFields
  <2>2. Serves(p)
    BY <1>6, <2>1, RollbackCopyDoes, RestingFlags, TypesNow DEF Serves, Ready, Locks, Flags,
       NoService, UninstallLabels, Goes, Ends, Keeps, Fields
  <2>3. Secures(p)
    BY <1>6, <2>1, RollbackCopyDoes, RestingFlags, TypesNow DEF Secures, Secured, Ready,
       Flags, Copied, ReconcileLabels, Goes, Ends, Keeps, Fields
  <2>4. QED BY <2>2, <2>3
<1>7. CASE RollbackStart(p)
  <2>1. Serves(p)
    BY <1>7, RollbackStartDoes, RestingFlags, TypesNow, Started DEF Serves, Ready, Locks,
       Flags, NoService, UninstallLabels, Goes, Ends, Keeps, Fields
  <2>2. Secures(p)
    BY <1>7, RollbackStartDoes, RestingFlags, TypesNow DEF Secures, Secured, Ready, Flags,
       Copied, ReconcileLabels, Goes, Ends, Keeps, Fields
  <2>3. QED BY <2>1, <2>2
<1>8. CASE RollbackCheck(p)
  <2>1. Serves(p)
    BY <1>8, RollbackCheckDoes, RestingFlags, TypesNow DEF Serves, Ready, Locks, Flags,
       NoService, UninstallLabels, Goes, Ends, Keeps, Fields
  <2>2. Secures(p)
    BY <1>8, RollbackCheckDoes, RestingFlags, TypesNow DEF Secures, Secured, Ready, Flags,
       Copied, ReconcileLabels, Goes, Ends, Keeps, Fields
  <2>3. QED BY <2>1, <2>2
<1>9. CASE RollbackPublish(p)
  <2>1. disk'.db = disk.db /\ disk'.backups = disk.backups /\ disk'.unit = disk.unit
    BY <1>9, RollbackPublishDoes DEF DiskKeeps, DiskFields
  <2>2. Serves(p)
    BY <1>9, <2>1, RollbackPublishDoes, RestingFlags, TypesNow DEF Serves, Ready, Locks,
       Flags, NoService, UninstallLabels, Goes, Ends, Keeps, Fields
  <2>3. Secures(p)
    BY <1>9, <2>1, RollbackPublishDoes, RestingFlags, TypesNow DEF Secures, Secured, Ready,
       Flags, Copied, ReconcileLabels, Goes, Ends, Keeps, Fields
  <2>4. QED BY <2>2, <2>3
<1>10. CASE RollbackReceipt(p)
  <2>1. disk'.db = disk.db /\ disk'.backups = disk.backups /\ disk'.unit = disk.unit
    BY <1>10, RollbackReceiptDoes DEF DiskKeeps, DiskFields
  <2>2. Serves(p)
    BY <1>10, <2>1, RollbackReceiptDoes, RestingFlags, TypesNow DEF Serves, Ready, Locks,
       Flags, NoService, UninstallLabels, Goes, Ends, Keeps, Fields
  <2>3. Secures(p)
    BY <1>10, <2>1, RollbackReceiptDoes, RestingFlags, TypesNow DEF Secures, Secured, Ready,
       Flags, Copied, ReconcileLabels, Goes, Ends, Keeps, Fields
  <2>4. QED BY <2>2, <2>3
<1>11. CASE RollbackRaises(p)
  <2>1. Serves(p)
    BY <1>11, RollbackRaisesDoes, RestingFlags, TypesNow DEF Serves, Ready, Locks, Flags,
       NoService, UninstallLabels, Goes, Ends, Keeps, Fields
  <2>2. Secures(p)
    BY <1>11, RollbackRaisesDoes, RestingFlags, TypesNow DEF Secures, Secured, Ready, Flags,
       Copied, ReconcileLabels, Goes, Ends, Keeps, Fields
  <2>3. QED BY <2>1, <2>2
<1>12. QED
  BY <1>1, <1>2, <1>3, <1>4, <1>5, <1>6, <1>7, <1>8, <1>9, <1>10, <1>11 DEF RollbackStep

LEMMA ReturnStepServes ==
  ASSUME TypeOK, Placed, NEW p \in Procs, ReturnStep(p), Ready(p)
  PROVE  Serves(p) /\ Secures(p)
<1>1. CASE ReturnStop(p)
  <2>1. Serves(p)
    BY <1>1, ReturnStopDoes, RestingFlags, TypesNow DEF Serves, Ready, Locks, Flags,
       NoService, UninstallLabels, Goes, Ends, Keeps, Fields
  <2>2. Secures(p)
    BY <1>1, ReturnStopDoes, RestingFlags, TypesNow DEF Secures, Secured, Ready, Flags,
       Copied, ReconcileLabels, Goes, Ends, Keeps, Fields
  <2>3. QED BY <2>1, <2>2
<1>2. CASE ReturnSwitch(p)
  <2>1. disk'.db = disk.db /\ disk'.backups = disk.backups /\ disk'.unit = disk.unit
    BY <1>2, ReturnSwitchDoes DEF DiskKeeps, DiskFields
  <2>2. Serves(p)
    BY <1>2, <2>1, ReturnSwitchDoes, RestingFlags, TypesNow DEF Serves, Ready, Locks, Flags,
       NoService, UninstallLabels, Goes, Ends, Keeps, Fields
  <2>3. Secures(p)
    BY <1>2, <2>1, ReturnSwitchDoes, RestingFlags, TypesNow DEF Secures, Secured, Ready,
       Flags, Copied, ReconcileLabels, Goes, Ends, Keeps, Fields
  <2>4. QED BY <2>2, <2>3
<1>3. CASE ReturnUnlink(p)
  <2>1. disk'.backups = disk.backups /\ disk'.unit = disk.unit
    BY <1>3, ReturnUnlinkDoes DEF DiskKeeps, DiskFields
  <2>2. Serves(p)
    BY <1>3, <2>1, ReturnUnlinkDoes, RestingFlags, TypesNow DEF Serves, Ready, Locks, Flags,
       NoService, UninstallLabels, Goes, Ends, Keeps, Fields
  <2>3. Secures(p)
    BY <1>3, <2>1, ReturnUnlinkDoes, RestingFlags, TypesNow DEF Secures, Secured, Ready,
       Flags, Copied, ReconcileLabels, Goes, Ends, Keeps, Fields
  <2>4. QED BY <2>2, <2>3
<1>4. CASE ReturnCopy(p)
  <2>1. disk'.backups = disk.backups /\ disk'.unit = disk.unit
    BY <1>4, ReturnCopyDoes DEF DiskKeeps, DiskFields
  <2>2. Serves(p)
    BY <1>4, <2>1, ReturnCopyDoes, RestingFlags, TypesNow DEF Serves, Ready, Locks, Flags,
       NoService, UninstallLabels, Goes, Ends, Keeps, Fields
  <2>3. Secures(p)
    BY <1>4, <2>1, ReturnCopyDoes, RestingFlags, TypesNow DEF Secures, Secured, Ready, Flags,
       Copied, ReconcileLabels, Goes, Ends, Keeps, Fields
  <2>4. QED BY <2>2, <2>3
<1>5. CASE ReturnStart(p)
  <2>1. Serves(p)
    BY <1>5, ReturnStartDoes, RestingFlags, TypesNow, Started DEF Serves, Ready, Locks, Flags,
       NoService, UninstallLabels, Goes, Ends, Keeps, Fields
  <2>2. Secures(p)
    BY <1>5, ReturnStartDoes, RestingFlags, TypesNow DEF Secures, Secured, Ready, Flags,
       Copied, ReconcileLabels, Goes, Ends, Keeps, Fields
  <2>3. QED BY <2>1, <2>2
<1>6. CASE ReturnPublish(p)
  <2>1. disk'.db = disk.db /\ disk'.backups = disk.backups /\ disk'.unit = disk.unit
    BY <1>6, ReturnPublishDoes DEF DiskKeeps, DiskFields
  <2>2. Serves(p)
    BY <1>6, <2>1, ReturnPublishDoes, RestingFlags, TypesNow DEF Serves, Ready, Locks, Flags,
       NoService, UninstallLabels, Goes, Ends, Keeps, Fields
  <2>3. Secures(p)
    BY <1>6, <2>1, ReturnPublishDoes, RestingFlags, TypesNow DEF Secures, Secured, Ready,
       Flags, Copied, ReconcileLabels, Goes, Ends, Keeps, Fields
  <2>4. QED BY <2>2, <2>3
<1>7. CASE ReturnRaises(p)
  <2>1. Serves(p)
    BY <1>7, ReturnRaisesDoes, RestingFlags, TypesNow DEF Serves, Ready, Locks, Flags,
       NoService, UninstallLabels, Goes, Ends, Keeps, Fields
  <2>2. Secures(p)
    BY <1>7, ReturnRaisesDoes, RestingFlags, TypesNow DEF Secures, Secured, Ready, Flags,
       Copied, ReconcileLabels, Goes, Ends, Keeps, Fields
  <2>3. QED BY <2>1, <2>2
<1>8. QED BY <1>1, <1>2, <1>3, <1>4, <1>5, <1>6, <1>7 DEF ReturnStep

LEMMA CodexStepServes ==
  ASSUME TypeOK, Placed, NEW p \in Procs, CodexStep(p), Ready(p)
  PROVE  Serves(p) /\ Secures(p)
<1>1. CASE Disable(p)
  <2>1. Serves(p)
    BY <1>1, DisableDoes, RestingFlags, TypesNow DEF Serves, Ready, Locks, Flags, NoService,
       UninstallLabels, Goes, Ends, Keeps, Fields
  <2>2. Secures(p)
    BY <1>1, DisableDoes, RestingFlags, TypesNow DEF Secures, Secured, Ready, Flags, Copied,
       ReconcileLabels, Goes, Ends, Keeps, Fields
  <2>3. QED BY <2>1, <2>2
<1>2. CASE ReconcileKeeps(p)
  <2>1. Serves(p)
    BY <1>2, ReconcileKeepsDoes, RestingFlags, TypesNow, LocalTypes DEF Serves, Ready, Locks,
       Flags, NoService, UninstallLabels, Goes, Ends, Keeps, Fields
  <2>2. Secures(p)
    BY <1>2, ReconcileKeepsDoes, RestingFlags, TypesNow DEF Secures, Secured, Ready, Flags,
       Copied, ReconcileLabels, Goes, Ends, Keeps, Fields
  <2>3. QED BY <2>1, <2>2
<1>3. CASE ReconcileRepairs(p)
  <2>1. Serves(p)
    BY <1>3, ReconcileRepairsDoes, RestingFlags, TypesNow DEF Serves, Ready, Locks, Flags,
       NoService, UninstallLabels, Goes, Ends, Keeps, Fields
  <2>2. Secures(p)
    BY <1>3, ReconcileRepairsDoes, RestingFlags, TypesNow DEF Secures, Secured, Ready, Flags,
       Copied, ReconcileLabels, Goes, Ends, Keeps, Fields
  <2>3. QED BY <2>1, <2>2
<1>4. CASE ReconcileRaises(p)
  <2>1. Serves(p)
    BY <1>4, ReconcileRaisesDoes, RestingFlags, TypesNow, LocalTypes DEF Serves, Ready, Locks,
       Flags, NoService, UninstallLabels, Goes, Ends, Keeps, Fields
  <2>2. Secures(p)
    BY <1>4, ReconcileRaisesDoes, RestingFlags, TypesNow DEF Secures, Secured, Ready, Flags,
       Copied, ReconcileLabels, Goes, Ends, Keeps, Fields
  <2>3. QED BY <2>1, <2>2
<1>5. CASE StageAside(p)
  <2>1. Serves(p)
    BY <1>5, StageAsideDoes, RestingFlags, TypesNow DEF Serves, Ready, Locks, Flags,
       NoService, UninstallLabels, Goes, Ends, Keeps, Fields
  <2>2. Secures(p)
    BY <1>5, StageAsideDoes, RestingFlags, TypesNow DEF Secures, Secured, Ready, Flags,
       Copied, ReconcileLabels, Goes, Ends, Keeps, Fields
  <2>3. QED BY <2>1, <2>2
<1>6. CASE StageInstall(p)
  <2>1. Goes(p, {"stage.install"}, "stage.prepare") /\ disk' = disk /\ up' = up
    BY <1>6, StageInstallDoes
  <2>2. Serves(p)
    BY <2>1, LocalTypes, RestingFlags, TypesNow DEF Serves, Ready, Locks, Flags, NoService,
       MenuSteps, UninstallLabels, ReconcileLabels, Goes, Ends, Keeps, Fields
  <2>3. Secures(p)
    BY <2>1, LocalTypes, RestingFlags, TypesNow DEF Secures, Secured, Copied, ReconcileLabels,
       Goes, Ends, Keeps, Fields
  <2>4. QED BY <2>2, <2>3
<1>7. CASE StageInstallFails(p)
  <2>1. Serves(p)
    BY <1>7, StageInstallFailsDoes, RestingFlags, TypesNow DEF Serves, Ready, Locks, Flags,
       NoService, UninstallLabels, Goes, Ends, Keeps, Fields
  <2>2. Secures(p)
    BY <1>7, StageInstallFailsDoes, RestingFlags, TypesNow DEF Secures, Secured, Ready, Flags,
       Copied, ReconcileLabels, Goes, Ends, Keeps, Fields
  <2>3. QED BY <2>1, <2>2
<1>8. CASE StagePrepare(p)
  <2>1. Serves(p)
    BY <1>8, StagePrepareDoes, RestingFlags, TypesNow DEF Serves, Ready, Locks, Flags,
       NoService, UninstallLabels, Goes, Ends, Keeps, Fields
  <2>2. Secures(p)
    BY <1>8, StagePrepareDoes, RestingFlags, TypesNow DEF Secures, Secured, Ready, Flags,
       Copied, ReconcileLabels, Goes, Ends, Keeps, Fields
  <2>3. QED BY <2>1, <2>2
<1>9. CASE StagePrepareFails(p)
  <2>1. Serves(p)
    BY <1>9, StagePrepareFailsDoes, RestingFlags, TypesNow DEF Serves, Ready, Locks, Flags,
       NoService, UninstallLabels, Goes, Ends, Keeps, Fields
  <2>2. Secures(p)
    BY <1>9, StagePrepareFailsDoes, RestingFlags, TypesNow DEF Secures, Secured, Ready, Flags,
       Copied, ReconcileLabels, Goes, Ends, Keeps, Fields
  <2>3. QED BY <2>1, <2>2
<1>10. CASE StageRaises(p)
  <2>1. Serves(p)
    BY <1>10, StageRaisesDoes, RestingFlags, TypesNow DEF Serves, Ready, Locks, Flags,
       NoService, UninstallLabels, Goes, Ends, Keeps, Fields
  <2>2. Secures(p)
    BY <1>10, StageRaisesDoes, RestingFlags, TypesNow DEF Secures, Secured, Ready, Flags,
       Copied, ReconcileLabels, Goes, Ends, Keeps, Fields
  <2>3. QED BY <2>1, <2>2
<1>11. CASE StageFail(p)
  <2>1. Serves(p)
    BY <1>11, StageFailDoes, RestingFlags, TypesNow, LocalTypes DEF Serves, Ready, Locks,
       Flags, NoService, UninstallLabels, Goes, Ends, Keeps, Fields
  <2>2. Secures(p)
    BY <1>11, StageFailDoes, RestingFlags, TypesNow DEF Secures, Secured, Ready, Flags,
       Copied, ReconcileLabels, Goes, Ends, Keeps, Fields
  <2>3. QED BY <2>1, <2>2
<1>12. CASE FailOff(p)
  <2>1. Serves(p)
    BY <1>12, FailOffDoes, RestingFlags, TypesNow DEF Serves, Ready, Locks, Flags, NoService,
       UninstallLabels, Goes, Ends, Keeps, Fields
  <2>2. Secures(p)
    BY <1>12, FailOffDoes, RestingFlags, TypesNow DEF Secures, Secured, Ready, Flags, Copied,
       ReconcileLabels, Goes, Ends, Keeps, Fields
  <2>3. QED BY <2>1, <2>2
<1>13. CASE EnableStart(p)
  <2>1. Serves(p)
    BY <1>13, EnableStartDoes, RestingFlags, TypesNow DEF Serves, Ready, Locks, Flags,
       NoService, UninstallLabels, Goes, Ends, Keeps, Fields
  <2>2. Secures(p)
    BY <1>13, EnableStartDoes, RestingFlags, TypesNow DEF Secures, Secured, Ready, Flags,
       Copied, ReconcileLabels, Goes, Ends, Keeps, Fields
  <2>3. QED BY <2>1, <2>2
<1>14. CASE EnableRefresh(p)
  <2>1. Serves(p)
    BY <1>14, EnableRefreshDoes, RestingFlags, TypesNow, Started DEF Serves, Ready, Locks,
       Flags, NoService, UninstallLabels, Goes, Ends, Keeps, Fields
  <2>2. Secures(p)
    BY <1>14, EnableRefreshDoes, RestingFlags, TypesNow DEF Secures, Secured, Ready, Flags,
       Copied, ReconcileLabels, Goes, Ends, Keeps, Fields
  <2>3. QED BY <2>1, <2>2
<1>15. CASE EnableReady(p)
  <2>1. Serves(p)
    BY <1>15, EnableReadyDoes, RestingFlags, TypesNow DEF Serves, Ready, Locks, Flags,
       NoService, UninstallLabels, Goes, Ends, Keeps, Fields
  <2>2. Secures(p)
    BY <1>15, EnableReadyDoes, RestingFlags, TypesNow DEF Secures, Secured, Ready, Flags,
       Copied, ReconcileLabels, Goes, Ends, Keeps, Fields
  <2>3. QED BY <2>1, <2>2
<1>16. CASE EnableStatus(p)
  <2>1. Serves(p)
    BY <1>16, EnableStatusDoes, RestingFlags, TypesNow DEF Serves, Ready, Locks, Flags,
       NoService, UninstallLabels, Goes, Ends, Keeps, Fields
  <2>2. Secures(p)
    BY <1>16, EnableStatusDoes, RestingFlags, TypesNow DEF Secures, Secured, Ready, Flags,
       Copied, ReconcileLabels, Goes, Ends, Keeps, Fields
  <2>3. QED BY <2>1, <2>2
<1>17. CASE EnableRaises(p)
  <2>1. Serves(p)
    BY <1>17, EnableRaisesDoes, RestingFlags, TypesNow DEF Serves, Ready, Locks, Flags,
       NoService, UninstallLabels, Goes, Ends, Keeps, Fields
  <2>2. Secures(p)
    BY <1>17, EnableRaisesDoes, RestingFlags, TypesNow DEF Secures, Secured, Ready, Flags,
       Copied, ReconcileLabels, Goes, Ends, Keeps, Fields
  <2>3. QED BY <2>1, <2>2
<1>18. CASE EnableOff(p)
  <2>1. Serves(p)
    BY <1>18, EnableOffDoes, RestingFlags, TypesNow DEF Serves, Ready, Locks, Flags,
       NoService, UninstallLabels, Goes, Ends, Keeps, Fields
  <2>2. Secures(p)
    BY <1>18, EnableOffDoes, RestingFlags, TypesNow DEF Secures, Secured, Ready, Flags,
       Copied, ReconcileLabels, Goes, Ends, Keeps, Fields
  <2>3. QED BY <2>1, <2>2
<1>19. CASE EnableBack(p)
  <2>1. Serves(p)
    BY <1>19, EnableBackDoes, RestingFlags, TypesNow DEF Serves, Ready, Locks, Flags,
       NoService, UninstallLabels, Goes, Ends, Keeps, Fields
  <2>2. Secures(p)
    BY <1>19, EnableBackDoes, RestingFlags, TypesNow DEF Secures, Secured, Ready, Flags,
       Copied, ReconcileLabels, Goes, Ends, Keeps, Fields
  <2>3. QED BY <2>1, <2>2
<1>20. CASE EnableFail(p)
  <2>1. Serves(p)
    BY <1>20, EnableFailDoes, RestingFlags, TypesNow DEF Serves, Ready, Locks, Flags,
       NoService, UninstallLabels, Goes, Ends, Keeps, Fields
  <2>2. Secures(p)
    BY <1>20, EnableFailDoes, RestingFlags, TypesNow DEF Secures, Secured, Ready, Flags,
       Copied, ReconcileLabels, Goes, Ends, Keeps, Fields
  <2>3. QED BY <2>1, <2>2
<1>21. CASE RepairRestart(p)
  <2>1. Serves(p)
    BY <1>21, RepairRestartDoes, RestingFlags, TypesNow DEF Serves, Ready, Locks, Flags,
       NoService, UninstallLabels, Goes, Ends, Keeps, Fields
  <2>2. Secures(p)
    BY <1>21, RepairRestartDoes, RestingFlags, TypesNow DEF Secures, Secured, Ready, Flags,
       Copied, ReconcileLabels, Goes, Ends, Keeps, Fields
  <2>3. QED BY <2>1, <2>2
<1>22. CASE RepairStatus(p)
  <2>1. Serves(p)
    BY <1>22, RepairStatusDoes, RestingFlags, TypesNow, LocalTypes DEF Serves, Ready, Locks,
       Flags, NoService, UninstallLabels, Goes, Ends, Keeps, Fields
  <2>2. Secures(p)
    BY <1>22, RepairStatusDoes, RestingFlags, TypesNow DEF Secures, Secured, Ready, Flags,
       Copied, ReconcileLabels, Goes, Ends, Keeps, Fields
  <2>3. QED BY <2>1, <2>2
<1>23. CASE RepairRaises(p)
  <2>1. Serves(p)
    BY <1>23, RepairRaisesDoes, RestingFlags, TypesNow DEF Serves, Ready, Locks, Flags,
       NoService, UninstallLabels, Goes, Ends, Keeps, Fields
  <2>2. Secures(p)
    BY <1>23, RepairRaisesDoes, RestingFlags, TypesNow DEF Secures, Secured, Ready, Flags,
       Copied, ReconcileLabels, Goes, Ends, Keeps, Fields
  <2>3. QED BY <2>1, <2>2
<1>24. CASE RepairBack(p)
  <2>1. Serves(p)
    BY <1>24, RepairBackDoes, RestingFlags, TypesNow DEF Serves, Ready, Locks, Flags,
       NoService, UninstallLabels, Goes, Ends, Keeps, Fields
  <2>2. Secures(p)
    BY <1>24, RepairBackDoes, RestingFlags, TypesNow DEF Secures, Secured, Ready, Flags,
       Copied, ReconcileLabels, Goes, Ends, Keeps, Fields
  <2>3. QED BY <2>1, <2>2
<1>25. CASE RepairAgain(p)
  <2>1. Serves(p)
    BY <1>25, RepairAgainDoes, RestingFlags, TypesNow DEF Serves, Ready, Locks, Flags,
       NoService, UninstallLabels, Goes, Ends, Keeps, Fields
  <2>2. Secures(p)
    BY <1>25, RepairAgainDoes, RestingFlags, TypesNow DEF Secures, Secured, Ready, Flags,
       Copied, ReconcileLabels, Goes, Ends, Keeps, Fields
  <2>3. QED BY <2>1, <2>2
<1>26. CASE RepairFail(p)
  <2>1. Serves(p)
    BY <1>26, RepairFailDoes, RestingFlags, TypesNow, LocalTypes DEF Serves, Ready, Locks,
       Flags, NoService, UninstallLabels, Goes, Ends, Keeps, Fields
  <2>2. Secures(p)
    BY <1>26, RepairFailDoes, RestingFlags, TypesNow DEF Secures, Secured, Ready, Flags,
       Copied, ReconcileLabels, Goes, Ends, Keeps, Fields
  <2>3. QED BY <2>1, <2>2
<1>27. CASE CodexRaises(p)
  <2>1. (Ends(p) \/ Goes(p, ReconcileLabels, proc[p].ret)) /\ disk' = disk /\ up' = up
    BY <1>27, CodexRaisesDoes
  <2>2. Serves(p)
    BY <2>1, LocalTypes, RestingFlags, TypesNow DEF Serves, Ready, Locks, Flags, NoService,
       MenuSteps, UninstallLabels, ReconcileLabels, Goes, Ends, Keeps, Fields
  <2>3. Secures(p)
    BY <2>1, LocalTypes, RestingFlags, TypesNow DEF Secures, Secured, Copied, ReconcileLabels,
       Goes, Ends, Keeps, Fields
  <2>4. QED BY <2>2, <2>3
<1>28. QED
  BY <1>1, <1>2, <1>3, <1>4, <1>5, <1>6, <1>7, <1>8, <1>9, <1>10, <1>11, <1>12, <1>13,
     <1>14, <1>15, <1>16, <1>17, <1>18, <1>19, <1>20, <1>21, <1>22, <1>23, <1>24, <1>25,
     <1>26, <1>27 DEF CodexStep

LEMMA DatabaseStepServes ==
  ASSUME TypeOK, Placed, NEW p \in Procs, DatabaseStep(p), Ready(p)
  PROVE  Serves(p) /\ Secures(p)
<1>1. CASE ReplaceLock(p)
  <2>1. Serves(p)
    BY <1>1, ReplaceLockDoes, RestingFlags, TypesNow DEF Serves, Ready, Locks, Flags,
       NoService, UninstallLabels, Goes, Ends, Keeps, Fields
  <2>2. Secures(p)
    BY <1>1, ReplaceLockDoes, RestingFlags, TypesNow DEF Secures, Secured, Ready, Flags,
       Copied, ReconcileLabels, Goes, Ends, Keeps, Fields
  <2>3. QED BY <2>1, <2>2
<1>2. CASE ReplaceRefused(p)
  <2>1. Serves(p)
    BY <1>2, ReplaceRefusedDoes, RestingFlags, TypesNow DEF Serves, Ready, Locks, Flags,
       NoService, UninstallLabels, Goes, Ends, Keeps, Fields
  <2>2. Secures(p)
    BY <1>2, ReplaceRefusedDoes, RestingFlags, TypesNow DEF Secures, Secured, Ready, Flags,
       Copied, ReconcileLabels, Goes, Ends, Keeps, Fields
  <2>3. QED BY <2>1, <2>2
<1>3. CASE ReplaceStop(p)
  <2>1. Serves(p)
    BY <1>3, ReplaceStopDoes, RestingFlags, TypesNow DEF Serves, Ready, Locks, Flags,
       NoService, UninstallLabels, Goes, Ends, Keeps, Fields
  <2>2. Secures(p)
    BY <1>3, ReplaceStopDoes, RestingFlags, TypesNow DEF Secures, Secured, Ready, Flags,
       Copied, ReconcileLabels, Goes, Ends, Keeps, Fields
  <2>3. QED BY <2>1, <2>2
<1>4. CASE ReplaceSave(p)
  <2>1. disk'.db = disk.db /\ disk'.unit = disk.unit
    BY <1>4, ReplaceSaveDoes DEF DiskKeeps, DiskFields
  <2>2. Serves(p)
    BY <1>4, <2>1, ReplaceSaveDoes, RestingFlags, TypesNow DEF Serves, Ready, Locks, Flags,
       NoService, UninstallLabels, Goes, Ends, Keeps, Fields
  <2>3. Secures(p)
    BY <1>4, <2>1, ReplaceSaveDoes, RestingFlags, TypesNow DEF Secures, Secured, Ready, Flags,
       Copied, ReconcileLabels, Goes, Ends, Keeps, Fields
  <2>4. QED BY <2>2, <2>3
<1>5. CASE ReplaceCut(p)
  <2>1. disk'.backups = disk.backups /\ disk'.unit = disk.unit
    BY <1>5, ReplaceCutDoes DEF DiskKeeps, DiskFields
  <2>2. Serves(p)
    BY <1>5, <2>1, ReplaceCutDoes, RestingFlags, TypesNow DEF Serves, Ready, Locks, Flags,
       NoService, UninstallLabels, Goes, Ends, Keeps, Fields
  <2>3. Secures(p)
    BY <1>5, <2>1, ReplaceCutDoes, RestingFlags, TypesNow DEF Secures, Secured, Ready, Flags,
       Copied, ReconcileLabels, Goes, Ends, Keeps, Fields
  <2>4. QED BY <2>2, <2>3
<1>6. CASE RuntimePrepare(p)
  <2>1. Serves(p)
    BY <1>6, RuntimePrepareDoes, RestingFlags, TypesNow DEF Serves, Ready, Locks, Flags,
       NoService, UninstallLabels, Goes, Ends, Keeps, Fields
  <2>2. Secures(p)
    BY <1>6, RuntimePrepareDoes, RestingFlags, TypesNow DEF Secures, Secured, Ready, Flags,
       Copied, ReconcileLabels, Goes, Ends, Keeps, Fields
  <2>3. QED BY <2>1, <2>2
<1>7. CASE RuntimeStart(p)
  <2>1. Serves(p)
    BY <1>7, RuntimeStartDoes, RestingFlags, TypesNow, Started DEF Serves, Ready, Locks,
       Flags, NoService, UninstallLabels, Goes, Ends, Keeps, Fields
  <2>2. Secures(p)
    BY <1>7, RuntimeStartDoes, RestingFlags, TypesNow DEF Secures, Secured, Ready, Flags,
       Copied, ReconcileLabels, Goes, Ends, Keeps, Fields
  <2>3. QED BY <2>1, <2>2
<1>8. CASE RuntimeCheck(p)
  <2>1. Serves(p)
    BY <1>8, RuntimeCheckDoes, RestingFlags, TypesNow DEF Serves, Ready, Locks, Flags,
       NoService, UninstallLabels, Goes, Ends, Keeps, Fields
  <2>2. Secures(p)
    BY <1>8, RuntimeCheckDoes, RestingFlags, TypesNow DEF Secures, Secured, Ready, Flags,
       Copied, ReconcileLabels, Goes, Ends, Keeps, Fields
  <2>3. QED BY <2>1, <2>2
<1>9. CASE ReplaceRaises(p)
  <2>1. Serves(p)
    BY <1>9, ReplaceRaisesDoes, RestingFlags, TypesNow DEF Serves, Ready, Locks, Flags,
       NoService, UninstallLabels, Goes, Ends, Keeps, Fields
  <2>2. Secures(p)
    BY <1>9, ReplaceRaisesDoes, RestingFlags, TypesNow DEF Secures, Secured, Ready, Flags,
       Copied, ReconcileLabels, Goes, Ends, Keeps, Fields
  <2>3. QED BY <2>1, <2>2
<1>10. CASE ReplaceResume(p)
  <2>1. Serves(p)
    BY <1>10, ReplaceResumeDoes, RestingFlags, TypesNow, Started DEF Serves, Ready, Locks,
       Flags, NoService, UninstallLabels, Goes, Ends, Keeps, Fields
  <2>2. Secures(p)
    BY <1>10, ReplaceResumeDoes, RestingFlags, TypesNow DEF Secures, Secured, Ready, Flags,
       Copied, ReconcileLabels, Goes, Ends, Keeps, Fields
  <2>3. QED BY <2>1, <2>2
<1>11. CASE RestoreStop(p)
  <2>1. Serves(p)
    BY <1>11, RestoreStopDoes, RestingFlags, TypesNow DEF Serves, Ready, Locks, Flags,
       NoService, UninstallLabels, Goes, Ends, Keeps, Fields
  <2>2. Secures(p)
    BY <1>11, RestoreStopDoes, RestingFlags, TypesNow DEF Secures, Secured, Ready, Flags,
       Copied, ReconcileLabels, Goes, Ends, Keeps, Fields
  <2>3. QED BY <2>1, <2>2
<1>12. CASE RestoreCopy(p)
  <2>1. disk'.backups = disk.backups /\ disk'.unit = disk.unit
    BY <1>12, RestoreCopyDoes DEF DiskKeeps, DiskFields
  <2>2. Serves(p)
    BY <1>12, <2>1, RestoreCopyDoes, RestingFlags, TypesNow DEF Serves, Ready, Locks, Flags,
       NoService, UninstallLabels, Goes, Ends, Keeps, Fields
  <2>3. Secures(p)
    BY <1>12, <2>1, RestoreCopyDoes, RestingFlags, TypesNow DEF Secures, Secured, Ready,
       Flags, Copied, ReconcileLabels, Goes, Ends, Keeps, Fields
  <2>4. QED BY <2>2, <2>3
<1>13. CASE RestorePrepare(p)
  <2>1. Serves(p)
    BY <1>13, RestorePrepareDoes, RestingFlags, TypesNow DEF Serves, Ready, Locks, Flags,
       NoService, UninstallLabels, Goes, Ends, Keeps, Fields
  <2>2. Secures(p)
    BY <1>13, RestorePrepareDoes, RestingFlags, TypesNow DEF Secures, Secured, Ready, Flags,
       Copied, ReconcileLabels, Goes, Ends, Keeps, Fields
  <2>3. QED BY <2>1, <2>2
<1>14. CASE RestoreStart(p)
  <2>1. Serves(p)
    BY <1>14, RestoreStartDoes, RestingFlags, TypesNow, Started DEF Serves, Ready, Locks,
       Flags, NoService, UninstallLabels, Goes, Ends, Keeps, Fields
  <2>2. Secures(p)
    BY <1>14, RestoreStartDoes, RestingFlags, TypesNow DEF Secures, Secured, Ready, Flags,
       Copied, ReconcileLabels, Goes, Ends, Keeps, Fields
  <2>3. QED BY <2>1, <2>2
<1>15. CASE RestoreCheck(p)
  <2>1. Serves(p)
    BY <1>15, RestoreCheckDoes, RestingFlags, TypesNow DEF Serves, Ready, Locks, Flags,
       NoService, UninstallLabels, Goes, Ends, Keeps, Fields
  <2>2. Secures(p)
    BY <1>15, RestoreCheckDoes, RestingFlags, TypesNow DEF Secures, Secured, Ready, Flags,
       Copied, ReconcileLabels, Goes, Ends, Keeps, Fields
  <2>3. QED BY <2>1, <2>2
<1>16. CASE RestoreRaises(p)
  <2>1. Serves(p)
    BY <1>16, RestoreRaisesDoes, RestingFlags, TypesNow DEF Serves, Ready, Locks, Flags,
       NoService, UninstallLabels, Goes, Ends, Keeps, Fields
  <2>2. Secures(p)
    BY <1>16, RestoreRaisesDoes, RestingFlags, TypesNow DEF Secures, Secured, Ready, Flags,
       Copied, ReconcileLabels, Goes, Ends, Keeps, Fields
  <2>3. QED BY <2>1, <2>2
<1>17. CASE OptimizeStop(p)
  <2>1. Serves(p)
    BY <1>17, OptimizeStopDoes, RestingFlags, TypesNow DEF Serves, Ready, Locks, Flags,
       NoService, UninstallLabels, Goes, Ends, Keeps, Fields
  <2>2. Secures(p)
    BY <1>17, OptimizeStopDoes, RestingFlags, TypesNow DEF Secures, Secured, Ready, Flags,
       Copied, ReconcileLabels, Goes, Ends, Keeps, Fields
  <2>3. QED BY <2>1, <2>2
<1>18. CASE OptimizeDirectory(p)
  <2>1. Serves(p)
    BY <1>18, OptimizeDirectoryDoes, RestingFlags, TypesNow DEF Serves, Ready, Locks, Flags,
       NoService, UninstallLabels, Goes, Ends, Keeps, Fields
  <2>2. Secures(p)
    BY <1>18, OptimizeDirectoryDoes, RestingFlags, TypesNow DEF Secures, Secured, Ready,
       Flags, Copied, ReconcileLabels, Goes, Ends, Keeps, Fields
  <2>3. QED BY <2>1, <2>2
<1>19. CASE OptimizeSave(p)
  <2>1. disk'.db = disk.db /\ disk'.unit = disk.unit
    BY <1>19, OptimizeSaveDoes DEF DiskKeeps, DiskFields
  <2>2. Serves(p)
    BY <1>19, <2>1, OptimizeSaveDoes, RestingFlags, TypesNow DEF Serves, Ready, Locks, Flags,
       NoService, UninstallLabels, Goes, Ends, Keeps, Fields
  <2>3. Secures(p)
    BY <1>19, <2>1, OptimizeSaveDoes, RestingFlags, TypesNow DEF Secures, Secured, Ready,
       Flags, Copied, ReconcileLabels, Goes, Ends, Keeps, Fields
  <2>4. QED BY <2>2, <2>3
<1>20. CASE StopRefused(p)
  <2>1. Serves(p)
    BY <1>20, StopRefusedDoes, RestingFlags, TypesNow DEF Serves, Ready, Locks, Flags,
       NoService, UninstallLabels, Goes, Ends, Keeps, Fields
  <2>2. Secures(p)
    BY <1>20, StopRefusedDoes, RestingFlags, TypesNow DEF Secures, Secured, Ready, Flags,
       Copied, ReconcileLabels, Goes, Ends, Keeps, Fields
  <2>3. QED BY <2>1, <2>2
<1>21. CASE MigrateStop(p)
  <2>1. Serves(p)
    BY <1>21, MigrateStopDoes, RestingFlags, TypesNow DEF Serves, Ready, Locks, Flags,
       NoService, UninstallLabels, Goes, Ends, Keeps, Fields
  <2>2. Secures(p)
    BY <1>21, MigrateStopDoes, RestingFlags, TypesNow DEF Secures, Secured, Ready, Flags,
       Copied, ReconcileLabels, Goes, Ends, Keeps, Fields
  <2>3. QED BY <2>1, <2>2
<1>22. CASE MigrateSave(p)
  <2>1. disk'.db = disk.db /\ disk'.unit = disk.unit
    BY <1>22, MigrateSaveDoes DEF DiskKeeps, DiskFields
  <2>2. Serves(p)
    BY <1>22, <2>1, MigrateSaveDoes, RestingFlags, TypesNow DEF Serves, Ready, Locks, Flags,
       NoService, UninstallLabels, Goes, Ends, Keeps, Fields
  <2>3. Secures(p)
    BY <1>22, <2>1, MigrateSaveDoes, RestingFlags, TypesNow DEF Secures, Secured, Ready,
       Flags, Copied, ReconcileLabels, Goes, Ends, Keeps, Fields
  <2>4. QED BY <2>2, <2>3
<1>23. CASE MigrateRun(p)
  <2>1. disk'.backups = disk.backups /\ disk'.unit = disk.unit
    BY <1>23, MigrateRunDoes DEF DiskKeeps, DiskFields
  <2>2. Serves(p)
    BY <1>23, <2>1, MigrateRunDoes, RestingFlags, TypesNow DEF Serves, Ready, Locks, Flags,
       NoService, UninstallLabels, Goes, Ends, Keeps, Fields
  <2>3. Secures(p)
    BY <1>23, <2>1, MigrateRunDoes, RestingFlags, TypesNow DEF Secures, Secured, Ready, Flags,
       Copied, ReconcileLabels, Goes, Ends, Keeps, Fields
  <2>4. QED BY <2>2, <2>3
<1>24. CASE MigrateFails(p)
  <2>1. disk'.backups = disk.backups /\ disk'.unit = disk.unit
    BY <1>24, MigrateFailsDoes DEF DiskKeeps, DiskFields
  <2>2. Serves(p)
    BY <1>24, <2>1, MigrateFailsDoes, RestingFlags, TypesNow DEF Serves, Ready, Locks, Flags,
       NoService, UninstallLabels, Goes, Ends, Keeps, Fields
  <2>3. Secures(p)
    BY <1>24, <2>1, MigrateFailsDoes, RestingFlags, TypesNow DEF Secures, Secured, Ready,
       Flags, Copied, ReconcileLabels, Goes, Ends, Keeps, Fields
  <2>4. QED BY <2>2, <2>3
<1>25. CASE BackupRaises(p)
  <2>1. Serves(p)
    BY <1>25, BackupRaisesDoes, RestingFlags, TypesNow DEF Serves, Ready, Locks, Flags,
       NoService, UninstallLabels, Goes, Ends, Keeps, Fields
  <2>2. Secures(p)
    BY <1>25, BackupRaisesDoes, RestingFlags, TypesNow DEF Secures, Secured, Ready, Flags,
       Copied, ReconcileLabels, Goes, Ends, Keeps, Fields
  <2>3. QED BY <2>1, <2>2
<1>26. CASE Mutate(p)
  <2>1. Serves(p)
    BY <1>26, MutateDoes, RestingFlags, TypesNow, Started DEF Serves, Ready, Locks, Flags,
       NoService, UninstallLabels, Goes, Ends, Keeps, Fields, Stopping
  <2>2. Secures(p)
    BY <1>26, MutateDoes, RestingFlags, TypesNow DEF Secures, Secured, Ready, Flags, Copied,
       ReconcileLabels, Goes, Ends, Keeps, Fields
  <2>3. QED BY <2>1, <2>2
<1>27. QED
  BY <1>1, <1>2, <1>3, <1>4, <1>5, <1>6, <1>7, <1>8, <1>9, <1>10, <1>11, <1>12, <1>13,
     <1>14, <1>15, <1>16, <1>17, <1>18, <1>19, <1>20, <1>21, <1>22, <1>23, <1>24, <1>25,
     <1>26 DEF DatabaseStep

LEMMA SetupStepServes ==
  ASSUME TypeOK, Placed, NEW p \in Procs, SetupStep(p), Ready(p)
  PROVE  Serves(p) /\ Secures(p)
<1>1. CASE StageRelease(p)
  <2>1. disk'.db = disk.db /\ disk'.backups = disk.backups /\ disk'.unit = disk.unit
    BY <1>1, StageReleaseDoes DEF DiskKeeps, DiskFields
  <2>2. Serves(p)
    BY <1>1, <2>1, StageReleaseDoes, RestingFlags, TypesNow DEF Serves, Ready, Locks, Flags,
       NoService, UninstallLabels, Goes, Ends, Keeps, Fields, Then, MenuSteps
  <2>3. Secures(p)
    BY <1>1, <2>1, StageReleaseDoes, RestingFlags, TypesNow DEF Secures, Secured, Ready,
       Flags, Copied, ReconcileLabels, Goes, Ends, Keeps, Fields, Then, MenuSteps
  <2>4. QED BY <2>2, <2>3
<1>2. CASE StageDatabase(p)
  <2>1. disk'.backups = disk.backups /\ disk'.unit = disk.unit
    BY <1>2, StageDatabaseDoes DEF DiskKeeps, DiskFields
  <2>2. Serves(p)
    BY <1>2, <2>1, StageDatabaseDoes, RestingFlags, TypesNow DEF Serves, Ready, Locks, Flags,
       NoService, UninstallLabels, Goes, Ends, Keeps, Fields, Then, MenuSteps
  <2>3. Secures(p)
    BY <1>2, <2>1, StageDatabaseDoes, RestingFlags, TypesNow DEF Secures, Secured, Ready,
       Flags, Copied, ReconcileLabels, Goes, Ends, Keeps, Fields, Then, MenuSteps
  <2>4. QED BY <2>2, <2>3
<1>3. CASE StageDomain(p)
  <2>1. disk'.db = disk.db /\ disk'.backups = disk.backups /\ disk'.unit = disk.unit
    BY <1>3, StageDomainDoes DEF DiskKeeps, DiskFields
  <2>2. Serves(p)
    BY <1>3, <2>1, StageDomainDoes, RestingFlags, TypesNow DEF Serves, Ready, Locks, Flags,
       NoService, UninstallLabels, Goes, Ends, Keeps, Fields, Then, MenuSteps
  <2>3. Secures(p)
    BY <1>3, <2>1, StageDomainDoes, RestingFlags, TypesNow DEF Secures, Secured, Ready, Flags,
       Copied, ReconcileLabels, Goes, Ends, Keeps, Fields, Then, MenuSteps
  <2>4. QED BY <2>2, <2>3
<1>4. CASE StageService(p)
  <2>1. disk'.db = disk.db /\ disk'.backups = disk.backups /\ disk'.unit = disk.unit
    BY <1>4, StageServiceDoes DEF DiskKeeps, DiskFields
  <2>2. Serves(p)
    BY <1>4, <2>1, StageServiceDoes, RestingFlags, TypesNow DEF Serves, Ready, Locks, Flags,
       NoService, UninstallLabels, Goes, Ends, Keeps, Fields
  <2>3. Secures(p)
    BY <1>4, <2>1, StageServiceDoes, RestingFlags, TypesNow DEF Secures, Secured, Ready,
       Flags, Copied, ReconcileLabels, Goes, Ends, Keeps, Fields
  <2>4. QED BY <2>2, <2>3
<1>5. CASE SetupRaises(p)
  <2>1. Serves(p)
    BY <1>5, SetupRaisesDoes, RestingFlags, TypesNow DEF Serves, Ready, Locks, Flags,
       NoService, UninstallLabels, Goes, Ends, Keeps, Fields, MenuSteps
  <2>2. Secures(p)
    BY <1>5, SetupRaisesDoes, RestingFlags, TypesNow DEF Secures, Secured, Ready, Flags,
       Copied, ReconcileLabels, Goes, Ends, Keeps, Fields, MenuSteps
  <2>3. QED BY <2>1, <2>2
<1>6. CASE ActivateStage(p)
  <2>1. disk'.db = disk.db /\ disk'.backups = disk.backups /\ disk'.unit = disk.unit
    BY <1>6, ActivateStageDoes DEF DiskKeeps, DiskFields
  <2>2. Serves(p)
    BY <1>6, <2>1, ActivateStageDoes, RestingFlags, TypesNow DEF Serves, Ready, Locks, Flags,
       NoService, UninstallLabels, Goes, Ends, Keeps, Fields
  <2>3. Secures(p)
    BY <1>6, <2>1, ActivateStageDoes, RestingFlags, TypesNow DEF Secures, Secured, Ready,
       Flags, Copied, ReconcileLabels, Goes, Ends, Keeps, Fields
  <2>4. QED BY <2>2, <2>3
<1>7. CASE ActivateBackup(p)
  <2>1. disk'.db = disk.db /\ disk'.unit = disk.unit
    BY <1>7, ActivateBackupDoes DEF DiskKeeps, DiskFields
  <2>2. Serves(p)
    BY <1>7, <2>1, ActivateBackupDoes, RestingFlags, TypesNow DEF Serves, Ready, Locks, Flags,
       NoService, UninstallLabels, Goes, Ends, Keeps, Fields
  <2>3. Secures(p)
    BY <1>7, <2>1, ActivateBackupDoes, RestingFlags, TypesNow DEF Secures, Secured, Ready,
       Flags, Copied, ReconcileLabels, Goes, Ends, Keeps, Fields
  <2>4. QED BY <2>2, <2>3
<1>8. CASE ActivateSync(p)
  <2>1. disk'.db = disk.db /\ disk'.backups = disk.backups /\ disk'.unit = disk.unit
    BY <1>8, ActivateSyncDoes DEF DiskKeeps, DiskFields
  <2>2. Serves(p)
    BY <1>8, <2>1, ActivateSyncDoes, RestingFlags, TypesNow DEF Serves, Ready, Locks, Flags,
       NoService, UninstallLabels, Goes, Ends, Keeps, Fields
  <2>3. Secures(p)
    BY <1>8, <2>1, ActivateSyncDoes, RestingFlags, TypesNow DEF Secures, Secured, Ready,
       Flags, Copied, ReconcileLabels, Goes, Ends, Keeps, Fields
  <2>4. QED BY <2>2, <2>3
<1>9. CASE ActivateStop(p)
  <2>1. Serves(p)
    BY <1>9, ActivateStopDoes, RestingFlags, TypesNow DEF Serves, Ready, Locks, Flags,
       NoService, UninstallLabels, Goes, Ends, Keeps, Fields
  <2>2. Secures(p)
    BY <1>9, ActivateStopDoes, RestingFlags, TypesNow DEF Secures, Secured, Ready, Flags,
       Copied, ReconcileLabels, Goes, Ends, Keeps, Fields
  <2>3. QED BY <2>1, <2>2
<1>10. CASE ActivateRefresh(p)
  <2>1. disk'.db = disk.db /\ disk'.unit = disk.unit
    BY <1>10, ActivateRefreshDoes DEF DiskKeeps, DiskFields
  <2>2. Serves(p)
    BY <1>10, <2>1, ActivateRefreshDoes, RestingFlags, TypesNow DEF Serves, Ready, Locks,
       Flags, NoService, UninstallLabels, Goes, Ends, Keeps, Fields
  <2>3. Secures(p)
    BY <1>10, <2>1, ActivateRefreshDoes, RestingFlags, TypesNow DEF Secures, Secured, Ready,
       Flags, Copied, ReconcileLabels, Goes, Ends, Keeps, Fields
  <2>4. QED BY <2>2, <2>3
<1>11. CASE ActivateLegacy(p)
  <2>1. disk'.backups = disk.backups /\ disk'.unit = disk.unit
    BY <1>11, ActivateLegacyDoes DEF DiskKeeps, DiskFields
  <2>2. Serves(p)
    BY <1>11, <2>1, ActivateLegacyDoes, RestingFlags, TypesNow DEF Serves, Ready, Locks,
       Flags, NoService, UninstallLabels, Goes, Ends, Keeps, Fields
  <2>3. Secures(p)
    BY <1>11, <2>1, ActivateLegacyDoes, RestingFlags, TypesNow DEF Secures, Secured, Ready,
       Flags, Copied, ReconcileLabels, Goes, Ends, Keeps, Fields
  <2>4. QED BY <2>2, <2>3
<1>12. CASE ActivateSwitch(p)
  <2>1. disk'.db = disk.db /\ disk'.backups = disk.backups /\ disk'.unit = disk.unit
    BY <1>12, ActivateSwitchDoes DEF DiskKeeps, DiskFields
  <2>2. Serves(p)
    BY <1>12, <2>1, ActivateSwitchDoes, RestingFlags, TypesNow DEF Serves, Ready, Locks,
       Flags, NoService, UninstallLabels, Goes, Ends, Keeps, Fields
  <2>3. Secures(p)
    BY <1>12, <2>1, ActivateSwitchDoes, RestingFlags, TypesNow DEF Secures, Secured, Ready,
       Flags, Copied, ReconcileLabels, Goes, Ends, Keeps, Fields
  <2>4. QED BY <2>2, <2>3
<1>13. CASE ActivateFiles(p)
  <2>1. disk'.db = disk.db /\ disk'.backups = disk.backups
    BY <1>13, ActivateFilesDoes DEF DiskKeeps, DiskFields
  <2>2. Serves(p)
    BY <1>13, <2>1, ActivateFilesDoes, RestingFlags, TypesNow DEF Serves, Ready, Locks, Flags,
       NoService, UninstallLabels, Goes, Ends, Keeps, Fields
  <2>3. Secures(p)
    BY <1>13, <2>1, ActivateFilesDoes, RestingFlags, TypesNow DEF Secures, Secured, Ready,
       Flags, Copied, ReconcileLabels, Goes, Ends, Keeps, Fields
  <2>4. QED BY <2>2, <2>3
<1>14. CASE ActivateRestart(p)
  <2>1. Serves(p)
    BY <1>14, ActivateRestartDoes, RestingFlags, TypesNow, Started DEF Serves, Ready, Locks,
       Flags, NoService, UninstallLabels, Goes, Ends, Keeps, Fields
  <2>2. Secures(p)
    BY <1>14, ActivateRestartDoes, RestingFlags, TypesNow DEF Secures, Secured, Ready, Flags,
       Copied, ReconcileLabels, Goes, Ends, Keeps, Fields
  <2>3. QED BY <2>1, <2>2
<1>15. CASE ActivateCheck(p)
  <2>1. Serves(p)
    BY <1>15, ActivateCheckDoes, RestingFlags, TypesNow DEF Serves, Ready, Locks, Flags,
       NoService, UninstallLabels, Goes, Ends, Keeps, Fields
  <2>2. Secures(p)
    BY <1>15, ActivateCheckDoes, RestingFlags, TypesNow DEF Secures, Secured, Ready, Flags,
       Copied, ReconcileLabels, Goes, Ends, Keeps, Fields
  <2>3. QED BY <2>1, <2>2
<1>16. CASE ActivatePublish(p)
  <2>1. disk'.db = disk.db /\ disk'.backups = disk.backups /\ disk'.unit = disk.unit
    BY <1>16, ActivatePublishDoes DEF DiskKeeps, DiskFields
  <2>2. Serves(p)
    BY <1>16, <2>1, ActivatePublishDoes, RestingFlags, TypesNow DEF Serves, Ready, Locks,
       Flags, NoService, UninstallLabels, Goes, Ends, Keeps, Fields
  <2>3. Secures(p)
    BY <1>16, <2>1, ActivatePublishDoes, RestingFlags, TypesNow DEF Secures, Secured, Ready,
       Flags, Copied, ReconcileLabels, Goes, Ends, Keeps, Fields
  <2>4. QED BY <2>2, <2>3
<1>17. CASE ActivateReceipt(p)
  <2>1. disk'.db = disk.db /\ disk'.backups = disk.backups /\ disk'.unit = disk.unit
    BY <1>17, ActivateReceiptDoes DEF DiskKeeps, DiskFields
  <2>2. Serves(p)
    BY <1>17, <2>1, ActivateReceiptDoes, RestingFlags, TypesNow DEF Serves, Ready, Locks,
       Flags, NoService, UninstallLabels, Goes, Ends, Keeps, Fields
  <2>3. Secures(p)
    BY <1>17, <2>1, ActivateReceiptDoes, RestingFlags, TypesNow DEF Secures, Secured, Ready,
       Flags, Copied, ReconcileLabels, Goes, Ends, Keeps, Fields
  <2>4. QED BY <2>2, <2>3
<1>18. CASE ActivateRaises(p)
  <2>1. Serves(p)
    BY <1>18, ActivateRaisesDoes, RestingFlags, TypesNow DEF Serves, Ready, Locks, Flags,
       NoService, UninstallLabels, Goes, Ends, Keeps, Fields
  <2>2. Secures(p)
    BY <1>18, ActivateRaisesDoes, RestingFlags, TypesNow DEF Secures, Secured, Ready, Flags,
       Copied, ReconcileLabels, Goes, Ends, Keeps, Fields
  <2>3. QED BY <2>1, <2>2
<1>19. CASE DeactivateStop(p)
  <2>1. Serves(p)
    BY <1>19, DeactivateStopDoes, RestingFlags, TypesNow DEF Serves, Ready, Locks, Flags,
       NoService, UninstallLabels, Goes, Ends, Keeps, Fields, Stopping
  <2>2. Secures(p)
    BY <1>19, DeactivateStopDoes, RestingFlags, TypesNow DEF Secures, Secured, Ready, Flags,
       Copied, ReconcileLabels, Goes, Ends, Keeps, Fields
  <2>3. QED BY <2>1, <2>2
<1>20. CASE DeactivateLink(p)
  <2>1. disk'.db = disk.db /\ disk'.backups = disk.backups /\ disk'.unit = disk.unit
    BY <1>20, DeactivateLinkDoes DEF DiskKeeps, DiskFields
  <2>2. Serves(p)
    BY <1>20, <2>1, DeactivateLinkDoes, RestingFlags, TypesNow DEF Serves, Ready, Locks,
       Flags, NoService, UninstallLabels, Goes, Ends, Keeps, Fields
  <2>3. Secures(p)
    BY <1>20, <2>1, DeactivateLinkDoes, RestingFlags, TypesNow DEF Secures, Secured, Ready,
       Flags, Copied, ReconcileLabels, Goes, Ends, Keeps, Fields
  <2>4. QED BY <2>2, <2>3
<1>21. CASE DeactivateFiles(p)
  <2>1. disk'.backups = disk.backups BY <1>21, DeactivateFilesDoes DEF DiskKeeps, DiskFields
  <2>2. Serves(p)
    BY <1>21, <2>1, DeactivateFilesDoes, RestingFlags, TypesNow DEF Serves, Ready, Locks,
       Flags, NoService, UninstallLabels, Goes, Ends, Keeps, Fields
  <2>3. Secures(p)
    BY <1>21, <2>1, DeactivateFilesDoes, RestingFlags, TypesNow DEF Secures, Secured, Ready,
       Flags, Copied, ReconcileLabels, Goes, Ends, Keeps, Fields
  <2>4. QED BY <2>2, <2>3
<1>22. CASE DeactivateStart(p)
  <2>1. Serves(p)
    BY <1>22, DeactivateStartDoes, RestingFlags, TypesNow, Started DEF Serves, Ready, Locks,
       Flags, NoService, UninstallLabels, Goes, Ends, Keeps, Fields
  <2>2. Secures(p)
    BY <1>22, DeactivateStartDoes, RestingFlags, TypesNow DEF Secures, Secured, Ready, Flags,
       Copied, ReconcileLabels, Goes, Ends, Keeps, Fields
  <2>3. QED BY <2>1, <2>2
<1>23. CASE DeactivateReceipt(p)
  <2>1. disk'.db = disk.db /\ disk'.backups = disk.backups /\ disk'.unit = disk.unit
    BY <1>23, DeactivateReceiptDoes DEF DiskKeeps, DiskFields
  <2>2. Serves(p)
    BY <1>23, <2>1, DeactivateReceiptDoes, RestingFlags, TypesNow DEF Serves, Ready, Locks,
       Flags, NoService, UninstallLabels, Goes, Ends, Keeps, Fields
  <2>3. Secures(p)
    BY <1>23, <2>1, DeactivateReceiptDoes, RestingFlags, TypesNow DEF Secures, Secured, Ready,
       Flags, Copied, ReconcileLabels, Goes, Ends, Keeps, Fields
  <2>4. QED BY <2>2, <2>3
<1>24. CASE DeactivateRaises(p)
  <2>1. disk'.db = disk.db /\ disk'.backups = disk.backups /\ disk'.unit = disk.unit
    BY <1>24, DeactivateRaisesDoes DEF DiskKeeps, DiskFields
  <2>2. Serves(p)
    BY <1>24, <2>1, DeactivateRaisesDoes, RestingFlags, TypesNow DEF Serves, Ready, Locks,
       Flags, NoService, UninstallLabels, Goes, Ends, Keeps, Fields
  <2>3. Secures(p)
    BY <1>24, <2>1, DeactivateRaisesDoes, RestingFlags, TypesNow DEF Secures, Secured, Ready,
       Flags, Copied, ReconcileLabels, Goes, Ends, Keeps, Fields
  <2>4. QED BY <2>2, <2>3
<1>25. CASE ConfigureEnv(p)
  <2>1. disk'.db = disk.db /\ disk'.backups = disk.backups /\ disk'.unit = disk.unit
    BY <1>25, ConfigureEnvDoes DEF DiskKeeps, DiskFields
  <2>2. Serves(p)
    BY <1>25, <2>1, ConfigureEnvDoes, RestingFlags, TypesNow DEF Serves, Ready, Locks, Flags,
       NoService, UninstallLabels, Goes, Ends, Keeps, Fields
  <2>3. Secures(p)
    BY <1>25, <2>1, ConfigureEnvDoes, RestingFlags, TypesNow DEF Secures, Secured, Ready,
       Flags, Copied, ReconcileLabels, Goes, Ends, Keeps, Fields
  <2>4. QED BY <2>2, <2>3
<1>26. CASE ConfigureCaddy(p)
  <2>1. disk'.db = disk.db /\ disk'.backups = disk.backups /\ disk'.unit = disk.unit
    BY <1>26, ConfigureCaddyDoes DEF DiskKeeps, DiskFields
  <2>2. Serves(p)
    BY <1>26, <2>1, ConfigureCaddyDoes, RestingFlags, TypesNow DEF Serves, Ready, Locks,
       Flags, NoService, UninstallLabels, Goes, Ends, Keeps, Fields
  <2>3. Secures(p)
    BY <1>26, <2>1, ConfigureCaddyDoes, RestingFlags, TypesNow DEF Secures, Secured, Ready,
       Flags, Copied, ReconcileLabels, Goes, Ends, Keeps, Fields
  <2>4. QED BY <2>2, <2>3
<1>27. CASE ConfigureRestart(p)
  <2>1. Serves(p)
    BY <1>27, ConfigureRestartDoes, RestingFlags, TypesNow, Started DEF Serves, Ready, Locks,
       Flags, NoService, UninstallLabels, Goes, Ends, Keeps, Fields
  <2>2. Secures(p)
    BY <1>27, ConfigureRestartDoes, RestingFlags, TypesNow DEF Secures, Secured, Ready, Flags,
       Copied, ReconcileLabels, Goes, Ends, Keeps, Fields
  <2>3. QED BY <2>1, <2>2
<1>28. CASE ConfigurePublish(p)
  <2>1. disk'.db = disk.db /\ disk'.backups = disk.backups /\ disk'.unit = disk.unit
    BY <1>28, ConfigurePublishDoes DEF DiskKeeps, DiskFields
  <2>2. Serves(p)
    BY <1>28, <2>1, ConfigurePublishDoes, RestingFlags, TypesNow DEF Serves, Ready, Locks,
       Flags, NoService, UninstallLabels, Goes, Ends, Keeps, Fields
  <2>3. Secures(p)
    BY <1>28, <2>1, ConfigurePublishDoes, RestingFlags, TypesNow DEF Secures, Secured, Ready,
       Flags, Copied, ReconcileLabels, Goes, Ends, Keeps, Fields
  <2>4. QED BY <2>2, <2>3
<1>29. CASE ConfigureFails(p)
  <2>1. Serves(p)
    BY <1>29, ConfigureFailsDoes, RestingFlags, TypesNow DEF Serves, Ready, Locks, Flags,
       NoService, UninstallLabels, Goes, Ends, Keeps, Fields
  <2>2. Secures(p)
    BY <1>29, ConfigureFailsDoes, RestingFlags, TypesNow DEF Secures, Secured, Ready, Flags,
       Copied, ReconcileLabels, Goes, Ends, Keeps, Fields
  <2>3. QED BY <2>1, <2>2
<1>30. CASE ConfigureUndo(p)
  <2>1. disk'.db = disk.db /\ disk'.backups = disk.backups /\ disk'.unit = disk.unit
    BY <1>30, ConfigureUndoDoes DEF DiskKeeps, DiskFields
  <2>2. Serves(p)
    BY <1>30, <2>1, ConfigureUndoDoes, RestingFlags, TypesNow DEF Serves, Ready, Locks, Flags,
       NoService, UninstallLabels, Goes, Ends, Keeps, Fields
  <2>3. Secures(p)
    BY <1>30, <2>1, ConfigureUndoDoes, RestingFlags, TypesNow DEF Secures, Secured, Ready,
       Flags, Copied, ReconcileLabels, Goes, Ends, Keeps, Fields
  <2>4. QED BY <2>2, <2>3
<1>31. CASE ConfigureAgain(p)
  <2>1. Serves(p)
    BY <1>31, ConfigureAgainDoes, RestingFlags, TypesNow, Started DEF Serves, Ready, Locks,
       Flags, NoService, UninstallLabels, Goes, Ends, Keeps, Fields
  <2>2. Secures(p)
    BY <1>31, ConfigureAgainDoes, RestingFlags, TypesNow DEF Secures, Secured, Ready, Flags,
       Copied, ReconcileLabels, Goes, Ends, Keeps, Fields
  <2>3. QED BY <2>1, <2>2
<1>32. CASE ConfigureRaises(p)
  <2>1. Serves(p)
    BY <1>32, ConfigureRaisesDoes, RestingFlags, TypesNow DEF Serves, Ready, Locks, Flags,
       NoService, UninstallLabels, Goes, Ends, Keeps, Fields
  <2>2. Secures(p)
    BY <1>32, ConfigureRaisesDoes, RestingFlags, TypesNow DEF Secures, Secured, Ready, Flags,
       Copied, ReconcileLabels, Goes, Ends, Keeps, Fields
  <2>3. QED BY <2>1, <2>2
<1>33. CASE UninstallLock(p)
  <2>1. Serves(p)
    BY <1>33, UninstallLockDoes, RestingFlags, TypesNow DEF Serves, Ready, Locks, Flags,
       NoService, UninstallLabels, Goes, Ends, Keeps, Fields
  <2>2. Secures(p)
    BY <1>33, UninstallLockDoes, RestingFlags, TypesNow DEF Secures, Secured, Ready, Flags,
       Copied, ReconcileLabels, Goes, Ends, Keeps, Fields
  <2>3. QED BY <2>1, <2>2
<1>34. CASE UninstallRefused(p)
  <2>1. Serves(p)
    BY <1>34, UninstallRefusedDoes, RestingFlags, TypesNow DEF Serves, Ready, Locks, Flags,
       NoService, UninstallLabels, Goes, Ends, Keeps, Fields
  <2>2. Secures(p)
    BY <1>34, UninstallRefusedDoes, RestingFlags, TypesNow DEF Secures, Secured, Ready, Flags,
       Copied, ReconcileLabels, Goes, Ends, Keeps, Fields
  <2>3. QED BY <2>1, <2>2
<1>35. CASE UninstallStop(p)
  <2>1. Serves(p)
    BY <1>35, UninstallStopDoes, RestingFlags, TypesNow DEF Serves, Ready, Locks, Flags,
       NoService, UninstallLabels, Goes, Ends, Keeps, Fields
  <2>2. Secures(p)
    BY <1>35, UninstallStopDoes, RestingFlags, TypesNow DEF Secures, Secured, Ready, Flags,
       Copied, ReconcileLabels, Goes, Ends, Keeps, Fields
  <2>3. QED BY <2>1, <2>2
<1>36. CASE UninstallExport(p)
  <2>1. disk'.db = disk.db /\ disk'.unit = disk.unit
    BY <1>36, UninstallExportDoes DEF DiskKeeps, DiskFields
  <2>2. Serves(p)
    BY <1>36, <2>1, UninstallExportDoes, RestingFlags, TypesNow DEF Serves, Ready, Locks,
       Flags, NoService, UninstallLabels, Goes, Ends, Keeps, Fields
  <2>3. Secures(p)
    BY <1>36, <2>1, UninstallExportDoes, RestingFlags, TypesNow DEF Secures, Secured, Ready,
       Flags, Copied, ReconcileLabels, Goes, Ends, Keeps, Fields
  <2>4. QED BY <2>2, <2>3
<1>37. CASE UninstallExportFails(p)
  <2>1. Serves(p)
    BY <1>37, UninstallExportFailsDoes, RestingFlags, TypesNow DEF Serves, Ready, Locks,
       Flags, NoService, UninstallLabels, Goes, Ends, Keeps, Fields
  <2>2. Secures(p)
    BY <1>37, UninstallExportFailsDoes, RestingFlags, TypesNow DEF Secures, Secured, Ready,
       Flags, Copied, ReconcileLabels, Goes, Ends, Keeps, Fields
  <2>3. QED BY <2>1, <2>2
<1>38. CASE UninstallResume(p)
  <2>1. Serves(p)
    BY <1>38, UninstallResumeDoes, RestingFlags, TypesNow, Started DEF Serves, Ready, Locks,
       Flags, NoService, UninstallLabels, Goes, Ends, Keeps, Fields
  <2>2. Secures(p)
    BY <1>38, UninstallResumeDoes, RestingFlags, TypesNow DEF Secures, Secured, Ready, Flags,
       Copied, ReconcileLabels, Goes, Ends, Keeps, Fields
  <2>3. QED BY <2>1, <2>2
<1>39. CASE UninstallDisable(p)
  <2>1. Serves(p)
    BY <1>39, UninstallDisableDoes, RestingFlags, TypesNow DEF Serves, Ready, Locks, Flags,
       NoService, UninstallLabels, Goes, Ends, Keeps, Fields
  <2>2. Secures(p)
    BY <1>39, UninstallDisableDoes, RestingFlags, TypesNow DEF Secures, Secured, Ready, Flags,
       Copied, ReconcileLabels, Goes, Ends, Keeps, Fields
  <2>3. QED BY <2>1, <2>2
<1>40. CASE UninstallRemove(p)
  <2>1. disk'.db = disk.db /\ disk'.backups = disk.backups
    BY <1>40, UninstallRemoveDoes DEF DiskKeeps, DiskFields
  <2>2. Serves(p)
    BY <1>40, <2>1, UninstallRemoveDoes, RestingFlags, TypesNow DEF Serves, Ready, Locks,
       Flags, NoService, UninstallLabels, Goes, Ends, Keeps, Fields
  <2>3. Secures(p)
    BY <1>40, <2>1, UninstallRemoveDoes, RestingFlags, TypesNow DEF Secures, Secured, Ready,
       Flags, Copied, ReconcileLabels, Goes, Ends, Keeps, Fields
  <2>4. QED BY <2>2, <2>3
<1>41. CASE UninstallPurge(p)
  <2>1. disk'.backups = disk.backups /\ disk'.unit = disk.unit
    BY <1>41, UninstallPurgeDoes DEF DiskKeeps, DiskFields
  <2>2. Serves(p)
    BY <1>41, <2>1, UninstallPurgeDoes, RestingFlags, TypesNow DEF Serves, Ready, Locks,
       Flags, NoService, UninstallLabels, Goes, Ends, Keeps, Fields
  <2>3. Secures(p)
    BY <1>41, <2>1, UninstallPurgeDoes, RestingFlags, TypesNow DEF Secures, Secured, Ready,
       Flags, Copied, ReconcileLabels, Goes, Ends, Keeps, Fields, UninstallLabels
  <2>4. QED BY <2>2, <2>3
<1>42. CASE UninstallRaises(p)
  <2>1. Serves(p)
    BY <1>42, UninstallRaisesDoes, RestingFlags, TypesNow DEF Serves, Ready, Locks, Flags,
       NoService, UninstallLabels, Goes, Ends, Keeps, Fields
  <2>2. Secures(p)
    BY <1>42, UninstallRaisesDoes, RestingFlags, TypesNow DEF Secures, Secured, Ready, Flags,
       Copied, ReconcileLabels, Goes, Ends, Keeps, Fields
  <2>3. QED BY <2>1, <2>2
<1>43. QED
  BY <1>1, <1>2, <1>3, <1>4, <1>5, <1>6, <1>7, <1>8, <1>9, <1>10, <1>11, <1>12, <1>13,
     <1>14, <1>15, <1>16, <1>17, <1>18, <1>19, <1>20, <1>21, <1>22, <1>23, <1>24, <1>25,
     <1>26, <1>27, <1>28, <1>29, <1>30, <1>31, <1>32, <1>33, <1>34, <1>35, <1>36, <1>37,
     <1>38, <1>39, <1>40, <1>41, <1>42 DEF SetupStep

\* An operation that reads, stages or is refused before it takes the lock.
Free(l) ==
  \/ l.at \in {"idle", "replace.lock", "uninstall.lock"}
  \/ l.op = "setup" /\ l.at \in MenuSteps \cup {"return"}

\* Everybody else holds the lock: there is one of them at most.
Single == \A p \in Procs : Free(proc[p]) \/ lock = p

\* The inductive invariant of the types: every operation is on its leg and has what its next step
\* relies on, and one at most is at work without being free of the lock.
HostInv == TypeOK /\ Placed /\ Single /\ (\A p \in Procs : Ready(p))

\* A step of an operation, whichever it is.
LEMMA StepDoes ==
  ASSUME TypeOK, Placed, NEW p \in Procs, Steps(p) \/ Dies(p), Ready(p)
  PROVE  Moves(p) /\ Typed(p) /\ Held(p) /\ Serves(p) /\ Secures(p)
<1>1. CASE Dies(p)
  <2>1. /\ Moves(p) /\ proc'[p] = Resting /\ Ends(p)
        /\ UNCHANGED <<disk, codex, up, writes, ops>> /\ torn' = TRUE
        /\ crashes < MaxCrashes /\ crashes' = crashes + 1
    BY <1>1, LeaveRests DEF Dies, Leave, Ends
  <2>2. crashes' \in 0..MaxCrashes BY <2>1, HostAssumption DEF TypeOK
  <2>3. Typed(p) /\ Held(p)
    BY <2>1, <2>2, TypesNow DEF Typed, Held
  <2>4. Serves(p) /\ Secures(p)
    BY <2>1, TypesNow, RestingFlags DEF Serves, Secures, Locks
  <2>5. QED BY <2>1, <2>3, <2>4
<1>2. CASE Steps(p)
  BY <1>2, ActivateStepTyped, UndoStepTyped, RollbackStepTyped, ReturnStepTyped,
     CodexStepTyped, DatabaseStepTyped, SetupStepTyped, ActivateStepServes, UndoStepServes,
     RollbackStepServes, ReturnStepServes, CodexStepServes, DatabaseStepServes,
     SetupStepServes DEF Steps, ReleaseStep
<1>3. QED BY <1>1, <1>2

\* An operation that is free of the lock stays so or takes it.
LEMMA FreeStep ==
  ASSUME Placed, NEW p \in Procs, Moves(p), Locks(p), Free(proc[p]), proc[p].at # "idle"
  PROVE  Free(proc'[p]) \/ lock' = p
<1>1. CASE Ends(p) BY <1>1, RestingIsPlaced DEF Ends, Free
<1>2. CASE lock' = p BY <1>2
<1>3. CASE proc'[p].at # "idle" /\ proc[p].at \notin {"replace.lock", "uninstall.lock"}
  <2>1. proc'[p].op = "setup" \/ proc'[p] = Resting BY <1>3 DEF Moves, Steady, Free
  <2>2. proc'[p].op = "setup" BY <1>3, <2>1, RestingIsPlaced
  <2>3. proc'[p].at \in Labels /\ Path(proc'[p]) BY DEF Moves, Local
  <2>4. proc'[p].at \in MenuSteps \cup {"return"}
    BY <1>3, <2>2, <2>3 DEF Path, Labels
  <2>5. QED BY <2>2, <2>4 DEF Free
<1>4. QED BY <1>1, <1>2, <1>3 DEF Locks

\* A step keeps HostInv, whoever takes it.
LEMMA StepHostInv ==
  ASSUME HostInv, NEW p \in Procs, ~At(p, "idle"), Steps(p) \/ Dies(p),
         mixed' = (mixed \/ Mixes(p)), UNCHANGED moment
  PROVE  HostInv'
<1>1. TypeOK /\ Placed /\ Single /\ (\A q \in Procs : Ready(q)) BY DEF HostInv
<1>2. Moves(p) /\ Typed(p) /\ Held(p) /\ Serves(p) BY <1>1, StepDoes
<1>3. /\ proc' \in [Procs -> Local] /\ Path(proc'[p])
      /\ \A q \in Procs \ {p} : proc'[q] = proc[q]
  BY <1>2 DEF Moves, Framed
<1>4. Locks(p) /\ proc[p].at # "idle" /\ None \notin Procs
  BY <1>2, HostAssumption DEF Serves, At
<1>5. lock \in {None} \cup {q \in Procs : proc[q].at # "idle"} BY <1>1 DEF TypeOK, At
<1>6. lock' \in {None} \cup {q \in Procs : proc'[q].at # "idle"}
  BY <1>3, <1>4, <1>5 DEF Locks, Ends
<1>7. mixed' \in BOOLEAN BY <1>1 DEF TypeOK
<1>8. TypeOK'
  <2>1. /\ writes \in 0..MaxWrites /\ ops \in 0..MaxOps
        /\ moment \in [1..MaxWrites -> {"quiet", "early", "trial"}]
    BY <1>1 DEF TypeOK
  <2>2. /\ disk' \in Disk /\ codex' \in Companion /\ torn' \in BOOLEAN
        /\ writes' = writes /\ ops' = ops /\ crashes' \in 0..MaxCrashes
    BY <1>2 DEF Typed
  <2>3. up' \in Releases \cup {None} /\ (up' # None => disk'.unit = "managed")
    BY <1>2 DEF Serves
  <2>4. QED BY <1>3, <1>6, <1>7, <2>1, <2>2, <2>3 DEF TypeOK, At
<1>9. Placed' BY <1>1, <1>3 DEF Placed
<1>10. Single'
  <2>1. Free(proc'[p]) \/ lock' = p
    BY <1>1, <1>2, <1>3, <1>4, FreeStep DEF Single, Locks, Ends, Free, Resting
  <2>2. ASSUME NEW q \in Procs \ {p} PROVE Free(proc'[q]) \/ lock' = q
    BY <1>1, <1>3, <1>4 DEF Single, Locks, Ends
  <2>3. QED BY <2>1, <2>2 DEF Single
<1>11. (\A q \in Procs : Ready(q))'
  <2>1. Flags(proc'[p]) /\ (proc'[p].at \in NoService => up' = None) BY <1>2 DEF Serves
  <2>2. ASSUME NEW q \in Procs \ {p}, proc'[q].at \in NoService PROVE up' = None
    <3>1. proc[q].at \in NoService /\ up = None BY <1>1, <1>3, <2>2 DEF Ready
    <3>2. ~Free(proc[q]) BY <3>1 DEF Free, NoService, MenuSteps
    <3>3. lock = q /\ lock # p BY <1>1, <3>2 DEF Single
    <3>4. Free(proc[p]) BY <1>1, <3>3 DEF Single
    <3>5. proc[p].at \in Unlocked BY <3>4 DEF Free, Unlocked
    <3>6. QED BY <1>2, <3>1, <3>5 DEF Held
  <2>3. ASSUME NEW q \in Procs \ {p} PROVE Flags(proc'[q]) BY <1>1, <1>3 DEF Ready
  <2>4. QED BY <2>1, <2>2, <2>3 DEF Ready
<1>12. QED BY <1>8, <1>9, <1>10, <1>11 DEF HostInv

\* The first steps of the operations.
Beginnings ==
  {"unpack", "rollback.save", "stage.aside", "disable", "replace.lock", "optimize.stop",
   "migrate.stop", "mutate", "activate.stage", "configure.env", "uninstall.lock"} \cup MenuSteps

\* How an operation begins.
LEMMA BeginsDo ==
  ASSUME TypeOK, Placed, NEW p \in Procs, Begins(p), ~Backup(p)
  PROVE  /\ \E op \in Operations : Begun(p, op)
         /\ proc'[p].at \in Beginnings
         /\ ~Secured(proc'[p]) /\ Flags(proc'[p])
         /\ \/ lock = None /\ lock' = p
            \/ lock' = lock /\ Free(proc'[p])
<1>1. CASE BeginUpdate(p)
  <2>1. \E op \in Operations : Begun(p, op) BY <1>1, BeginUpdateDoes DEF Operations
  <2>2. QED
    BY <1>1, <2>1, BeginUpdateDoes DEF Beginnings, Secured, Copied, Flags, Free, MenuSteps,
       ReconcileLabels, UninstallLabels, Begun
<1>2. CASE BeginDeploy(p)
  <2>1. \E op \in Operations : Begun(p, op) BY <1>2, BeginDeployDoes DEF Operations
  <2>2. QED
    BY <1>2, <2>1, BeginDeployDoes DEF Beginnings, Secured, Copied, Flags, Free, MenuSteps,
       ReconcileLabels, UninstallLabels, Begun
<1>3. CASE BeginRollback(p)
  <2>1. \E op \in Operations : Begun(p, op) BY <1>3, BeginRollbackDoes DEF Operations
  <2>2. QED
    BY <1>3, <2>1, BeginRollbackDoes DEF Beginnings, Secured, Copied, Flags, Free, MenuSteps,
       ReconcileLabels, UninstallLabels, Begun
<1>4. CASE BeginEnable(p)
  <2>1. \E op \in Operations : Begun(p, op) BY <1>4, BeginEnableDoes DEF Operations
  <2>2. QED
    BY <1>4, <2>1, BeginEnableDoes DEF Beginnings, Secured, Copied, Flags, Free, MenuSteps,
       ReconcileLabels, UninstallLabels, Begun
<1>5. CASE BeginRepair(p)
  <2>1. \E op \in Operations : Begun(p, op) BY <1>5, BeginRepairDoes DEF Operations
  <2>2. QED
    BY <1>5, <2>1, BeginRepairDoes DEF Beginnings, Secured, Copied, Flags, Free, MenuSteps,
       ReconcileLabels, UninstallLabels, Begun
<1>6. CASE BeginDisable(p)
  <2>1. \E op \in Operations : Begun(p, op) BY <1>6, BeginDisableDoes DEF Operations
  <2>2. QED
    BY <1>6, <2>1, BeginDisableDoes DEF Beginnings, Secured, Copied, Flags, Free, MenuSteps,
       ReconcileLabels, UninstallLabels, Begun
<1>7. CASE BeginImport(p)
  <2>1. \E op \in Operations : Begun(p, op) BY <1>7, BeginImportDoes DEF Operations
  <2>2. QED
    BY <1>7, <2>1, BeginImportDoes DEF Beginnings, Secured, Copied, Flags, Free, MenuSteps,
       ReconcileLabels, UninstallLabels, Begun
<1>8. CASE BeginReset(p)
  <2>1. \E op \in Operations : Begun(p, op) BY <1>8, BeginResetDoes DEF Operations
  <2>2. QED
    BY <1>8, <2>1, BeginResetDoes DEF Beginnings, Secured, Copied, Flags, Free, MenuSteps,
       ReconcileLabels, UninstallLabels, Begun
<1>9. CASE BeginOptimize(p)
  <2>1. \E op \in Operations : Begun(p, op) BY <1>9, BeginOptimizeDoes DEF Operations
  <2>2. QED
    BY <1>9, <2>1, BeginOptimizeDoes DEF Beginnings, Secured, Copied, Flags, Free, MenuSteps,
       ReconcileLabels, UninstallLabels, Begun
<1>10. CASE BeginMigrate(p)
  <2>1. \E op \in Operations : Begun(p, op) BY <1>10, BeginMigrateDoes DEF Operations
  <2>2. QED
    BY <1>10, <2>1, BeginMigrateDoes DEF Beginnings, Secured, Copied, Flags, Free, MenuSteps,
       ReconcileLabels, UninstallLabels, Begun
<1>11. CASE BeginService(p)
  <2>1. \E op \in Operations : Begun(p, op) BY <1>11, BeginServiceDoes DEF Operations
  <2>2. QED
    BY <1>11, <2>1, BeginServiceDoes DEF Beginnings, Secured, Copied, Flags, Free, MenuSteps,
       ReconcileLabels, UninstallLabels, Begun
<1>12. CASE BeginSetup(p)
  <2>1. \E op \in Operations : Begun(p, op) BY <1>12, BeginSetupDoes DEF Operations
  <2>2. QED
    BY <1>12, <2>1, BeginSetupDoes DEF Beginnings, Secured, Copied, Flags, Free, MenuSteps,
       ReconcileLabels, UninstallLabels, Begun
<1>13. CASE BeginMenu(p)
  <2>1. \E op \in Operations : Begun(p, op) BY <1>13, BeginMenuDoes DEF Operations
  <2>2. QED
    BY <1>13, <2>1, BeginMenuDoes DEF Beginnings, Secured, Copied, Flags, Free, MenuSteps,
       ReconcileLabels, UninstallLabels, Begun
<1>14. CASE BeginActivate(p)
  <2>1. \E op \in Operations : Begun(p, op) BY <1>14, BeginActivateDoes DEF Operations
  <2>2. QED
    BY <1>14, <2>1, BeginActivateDoes DEF Beginnings, Secured, Copied, Flags, Free, MenuSteps,
       ReconcileLabels, UninstallLabels, Begun
<1>15. CASE BeginConfigure(p)
  <2>1. \E op \in Operations : Begun(p, op) BY <1>15, BeginConfigureDoes DEF Operations
  <2>2. QED
    BY <1>15, <2>1, BeginConfigureDoes DEF Beginnings, Secured, Copied, Flags, Free, MenuSteps,
       ReconcileLabels, UninstallLabels, Begun
<1>16. CASE BeginUninstall(p)
  <2>1. \E op \in Operations : Begun(p, op) BY <1>16, BeginUninstallDoes DEF Operations
  <2>2. QED
    BY <1>16, <2>1, BeginUninstallDoes DEF Beginnings, Secured, Copied, Flags, Free, MenuSteps,
       ReconcileLabels, UninstallLabels, Begun
<1>17. QED
  BY <1>1, <1>2, <1>3, <1>4, <1>5, <1>6, <1>7, <1>8, <1>9, <1>10, <1>11, <1>12, <1>13, <1>14,
     <1>15, <1>16 DEF Begins, ReleaseBegins, CodexBegins, DatabaseBegins, SetupBegins

\* The beginning of an operation keeps HostInv.
LEMMA BeginHostInv ==
  ASSUME HostInv, NEW p \in Procs, At(p, "idle"), Begins(p), UNCHANGED <<moment, mixed>>
  PROVE  HostInv'
<1>1. /\ TypeOK /\ Placed /\ Single /\ (\A q \in Procs : Ready(q)) /\ proc[p].at = "idle"
      /\ None \notin Procs /\ lock \in {None} \cup {q \in Procs : proc[q].at # "idle"}
      /\ writes \in 0..MaxWrites /\ ops \in 0..MaxOps /\ crashes \in 0..MaxCrashes
      /\ moment \in [1..MaxWrites -> {"quiet", "early", "trial"}] /\ mixed \in BOOLEAN
  BY HostAssumption DEF HostInv, At, TypeOK
<1>2. CASE Backup(p)
  <2>1. disk' \in Disk /\ disk'.unit = disk.unit
    BY <1>2, TypesNow, <1>1 DEF Backup, Saved, Disk
  <2>2. ops' \in 0..MaxOps BY <1>1, <1>2, HostAssumption DEF Backup
  <2>3. UNCHANGED <<codex, up, lock, proc, writes, crashes, torn>> BY <1>2 DEF Backup
  <2>4. TypeOK' BY <1>1, <2>1, <2>2, <2>3, TypesNow DEF TypeOK, At
  <2>5. Placed' /\ Single' /\ (\A q \in Procs : Ready(q))'
    BY <1>1, <2>3 DEF Placed, Single, Ready
  <2>6. QED BY <2>4, <2>5 DEF HostInv
<1>3. CASE ~Backup(p)
  <2>1. PICK op \in Operations : Begun(p, op) BY <1>1, <1>3, BeginsDo
  <2>2. /\ proc'[p].at # "idle" /\ proc'[p].at \notin NoService /\ Flags(proc'[p])
        /\ (lock = None /\ lock' = p) \/ (lock' = lock /\ Free(proc'[p]))
    BY <1>1, <1>3, BeginsDo DEF Beginnings, MenuSteps, NoService
  <2>3. /\ proc' \in [Procs -> Local] /\ Path(proc'[p])
        /\ \A q \in Procs \ {p} : proc'[q] = proc[q]
        /\ UNCHANGED <<disk, codex, up, writes, crashes, torn>> /\ ops' \in 0..MaxOps
    BY <1>1, <2>1, HostAssumption DEF Begun, Framed
  <2>4. lock' \in {None} \cup {q \in Procs : proc'[q].at # "idle"}
    BY <1>1, <2>2, <2>3
  <2>5. TypeOK' BY <1>1, <2>3, <2>4, TypesNow DEF TypeOK, At
  <2>6. Placed' BY <1>1, <2>3 DEF Placed
  <2>7. Single'
    <3>1. ASSUME NEW q \in Procs \ {p} PROVE Free(proc'[q]) \/ lock' = q
      BY <1>1, <2>2, <2>3 DEF Single
    <3>2. QED BY <2>2, <3>1 DEF Single
  <2>8. (\A q \in Procs : Ready(q))'
    BY <1>1, <2>2, <2>3 DEF Ready
  <2>9. QED BY <2>5, <2>6, <2>7, <2>8 DEF HostInv
<1>4. QED BY <1>2, <1>3

\* A row that the service stores adds to the database and changes nothing else.
LEMMA StoredDisk ==
  ASSUME TypeOK, Stores
  PROVE  /\ disk' \in Disk /\ disk'.unit = disk.unit /\ disk'.backups = disk.backups
         /\ disk'.db.rows = disk.db.rows \cup {writes'} /\ disk'.db.schema = disk.db.schema
         /\ writes' = writes + 1 /\ writes' \in 1..MaxWrites
         /\ moment' = [moment EXCEPT ![writes'] = Moment] /\ up # None
         /\ UNCHANGED <<codex, up, lock, proc, ops, crashes, torn, mixed>>
<1>1. /\ disk \in Disk /\ writes \in 0..MaxWrites /\ writes < MaxWrites /\ disk.db.schema # 0
      /\ writes' = writes + 1
      /\ disk' = [disk EXCEPT !.db.rows = @ \cup {writes + 1}]
      /\ moment' = [moment EXCEPT ![writes + 1] = Moment] /\ up # None
      /\ UNCHANGED <<codex, up, lock, proc, ops, crashes, torn, mixed>>
  BY DEF TypeOK, Stores, ServiceWrites
<1>2. writes' \in 1..MaxWrites BY <1>1, HostAssumption
<1>3. PICK d : d = [disk.db EXCEPT !.rows = @ \cup {writes + 1}] OBVIOUS
<1>4. disk.db \in Database BY <1>1 DEF Disk
<1>5. /\ d \in Database /\ d.rows = disk.db.rows \cup {writes + 1} /\ d.schema = disk.db.schema
  BY <1>1, <1>2, <1>3, <1>4 DEF Database
<1>6. disk' = [disk EXCEPT !.db = d] BY <1>1, <1>3
<1>7. /\ disk' \in Disk /\ disk'.unit = disk.unit /\ disk'.backups = disk.backups /\ disk'.db = d
  BY <1>1, <1>5, <1>6 DEF Disk
<1>8. QED BY <1>1, <1>2, <1>5, <1>7

LEMMA StoreHostInv ==
  ASSUME HostInv, Stores
  PROVE  HostInv'
<1>1. /\ TypeOK /\ Placed /\ Single /\ (\A q \in Procs : Ready(q))
      /\ lock \in {None} \cup {q \in Procs : proc[q].at # "idle"}
      /\ up \in Releases \cup {None} /\ (up # None => disk.unit = "managed")
      /\ proc \in [Procs -> Local] /\ codex \in Companion /\ ops \in 0..MaxOps
      /\ crashes \in 0..MaxCrashes /\ torn \in BOOLEAN /\ mixed \in BOOLEAN
      /\ moment \in [1..MaxWrites -> {"quiet", "early", "trial"}]
  BY DEF HostInv, At, TypeOK
<1>2. Moment \in {"quiet", "early", "trial"} BY DEF Moment
<1>3. moment' \in [1..MaxWrites -> {"quiet", "early", "trial"}] BY <1>1, <1>2, StoredDisk
<1>4. TypeOK'
  BY <1>1, <1>3, StoredDisk, HostAssumption DEF TypeOK, At
<1>5. Placed' /\ Single' /\ (\A q \in Procs : Ready(q))'
  BY <1>1, StoredDisk DEF Placed, Single, Ready
<1>6. QED BY <1>4, <1>5 DEF HostInv

LEMMA InitHostInv == Init => HostInv
<1> SUFFICES ASSUME Init PROVE HostInv OBVIOUS
<1>1. disk \in Disk /\ up \in Releases \cup {None} /\ (up # None => disk.unit = "managed")
  <2>1. CASE \E r \in Releases \ Checkouts : Installed(r)
    <3>1. PICK r \in Releases \ Checkouts : Installed(r) BY <2>1
    <3>2. Schema[r] \in Nat /\ Schema[r] # 0 /\ Version[r] \in Nat BY HostAssumption
    <3>3. [schema |-> Schema[r], rows |-> {}] \in Database BY <3>2 DEF Database
    <3>4. [NoReceipt EXCEPT !.op = "setup", !.state = "complete"] \in Receipt BY NoThings
    <3>5. [mode |-> "managed", version |-> Version[r], rel |-> None,
           domain |-> 1] \in Installation
      BY <3>2 DEF Installation
    <3>6. [x \in Releases |-> IF x = r THEN "ready" ELSE "absent"]
            \in [Releases -> {"absent", "bare", "ready"}]
      OBVIOUS
    <3>7. QED BY <3>1, <3>3, <3>4, <3>5, <3>6 DEF Installed, Disk
  <2>2. CASE Untouched BY <2>2, NoThings DEF Untouched, Disk
  <2>3. QED BY <2>1, <2>2 DEF Init
<1>2. /\ codex = NoCompanion /\ lock = None /\ proc = [p \in Procs |-> Resting]
      /\ writes = 0 /\ ops = 0 /\ crashes = 0 /\ torn = FALSE /\ mixed = FALSE
      /\ moment = [n \in 1..MaxWrites |-> "quiet"]
  BY DEF Init
<1>3. /\ codex \in Companion /\ proc \in [Procs -> Local]
  BY <1>2, RestingIsPlaced DEF NoCompanion, Companion
<1>4. TypeOK
  <2>1. writes \in 0..MaxWrites /\ ops \in 0..MaxOps /\ crashes \in 0..MaxCrashes
    BY <1>2, HostAssumption
  <2>2. moment \in [1..MaxWrites -> {"quiet", "early", "trial"}] BY <1>2
  <2>3. lock = None /\ torn \in BOOLEAN /\ mixed \in BOOLEAN BY <1>2
  <2>4. QED BY <1>1, <1>3, <2>1, <2>2, <2>3 DEF TypeOK
<1>5. Placed /\ Single /\ (\A p \in Procs : Ready(p))
  BY <1>2, <1>3, RestingIsPlaced, RestingFlags DEF Placed, Single, Ready, Free
<1>6. QED BY <1>4, <1>5 DEF HostInv

\* HostInv is inductive.
LEMMA NextHostInv ==
  ASSUME HostInv, [Next]_hostVars
  PROVE  HostInv'
<1>1. CASE Stores BY <1>1, StoreHostInv
<1>2. CASE UNCHANGED hostVars
  BY <1>2 DEF HostInv, hostVars, vars, counts, TypeOK, At, Placed, Single, Ready
<1>3. ASSUME NEW p \in Procs, At(p, "idle"), Begins(p), UNCHANGED <<moment, mixed>>
      PROVE  HostInv'
  BY <1>3, BeginHostInv
<1>4. ASSUME NEW p \in Procs, ~At(p, "idle"), Steps(p) \/ Dies(p),
             mixed' = (mixed \/ Mixes(p)), UNCHANGED moment
      PROVE  HostInv'
  BY <1>4, StepHostInv
<1>5. QED BY <1>1, <1>2, <1>3, <1>4 DEF Next, Rests

\* Whatever the command lines and the service do, and wherever they die, the host is in one of the
\* states of TypeOK; in particular the lock of bridge_cli/operation_lock.py is held by nobody who
\* has ended.
THEOREM TypeCorrect == Spec => []TypeOK
<1>1. HostInv => TypeOK BY DEF HostInv
<1>2. QED BY <1>1, InitHostInv, NextHostInv, PTL DEF Spec

-----------------------------------------------------------------------------
\* Every quiet row is in one of the copies.
AllSaved == \A n \in 1..writes : moment[n] = "quiet" => \E b \in disk.backups : n \in b.rows

\* The inductive invariant: while an operation may still replace the database, every quiet row is
\* in a copy.
DataInv == DataKept /\ (\A p \in Procs : Secured(proc[p]) => AllSaved)

\* DataInv is inductive: a step that replaces the database is taken by an operation that has
\* copied it, and nothing was stored in a quiet moment since.
LEMMA StepDataInv ==
  ASSUME HostInv, DataInv, NEW p \in Procs, Steps(p) \/ Dies(p), UNCHANGED moment
  PROVE  DataInv'
<1>1. Moves(p) /\ Typed(p) /\ Secures(p) BY StepDoes DEF HostInv
<1>2. /\ writes' = writes /\ disk.backups \subseteq disk'.backups
      /\ \A q \in Procs \ {p} : proc'[q] = proc[q]
  BY <1>1 DEF Typed, Moves, Framed
<1>3. /\ writes \in Nat /\ (disk.db.schema = 0 => disk.db.rows = {})
  BY TypesNow, HostAssumption DEF HostInv, TypeOK
<1>4. AllSaved => AllSaved' BY <1>2 DEF AllSaved
<1>5. ASSUME Secured(proc'[p]) PROVE AllSaved'
  <2>1. CASE Secured(proc[p]) BY <1>4, <2>1 DEF DataInv
  <2>2. CASE disk.db \in disk'.backups BY <1>2, <2>2 DEF DataInv, DataKept, AllSaved
  <2>3. CASE disk.db.schema = 0
    BY <1>2, <1>3, <2>3 DEF DataInv, DataKept, AllSaved
  <2>4. QED BY <1>1, <1>5, <2>1, <2>2, <2>3 DEF Secures
<1>6. DataKept'
  <2>1. CASE disk.db.rows \subseteq disk'.db.rows
    BY <1>2, <2>1 DEF DataInv, DataKept
  <2>2. CASE Secured(proc[p]) BY <1>4, <2>2 DEF DataInv, DataKept, AllSaved
  <2>3. CASE disk.db.rows \subseteq {Foreign}
    BY <1>2, <1>3, <2>3 DEF DataInv, DataKept, Foreign
  <2>4. QED BY <1>1, <2>1, <2>2, <2>3 DEF Secures
<1>7. QED BY <1>2, <1>4, <1>5, <1>6 DEF DataInv

LEMMA StoreDataInv ==
  ASSUME HostInv, DataInv, Stores
  PROVE  DataInv'
<1>1. /\ TypeOK /\ (\A p \in Procs : Ready(p)) BY DEF HostInv
<1>2. /\ disk'.backups = disk.backups /\ disk'.db.rows = disk.db.rows \cup {writes'}
      /\ writes' = writes + 1 /\ writes' \in 1..MaxWrites /\ up # None
      /\ moment' = [moment EXCEPT ![writes'] = Moment] /\ proc' = proc
  BY <1>1, StoredDisk
<1>3. writes \in Nat /\ DOMAIN moment = 1..MaxWrites BY <1>1, HostAssumption DEF TypeOK
<1>4. \A n \in 1..writes : n \in 1..writes' /\ moment'[n] = moment[n] BY <1>2, <1>3
<1>5. \A n \in 1..writes' : n \in 1..writes \/ n = writes' BY <1>2, <1>3
<1>6. DataKept' BY <1>2, <1>4, <1>5 DEF DataInv, DataKept
<1>7. ASSUME NEW p \in Procs, Secured(proc[p]) PROVE AllSaved'
  <2>1. proc[p].at \notin NoService BY <1>1, <1>2 DEF Ready
  <2>2. proc[p].at \in OnTrial \cup Early
    BY <1>7, <2>1 DEF Secured, Copied, ReconcileLabels, NoService, OnTrial, Early
  <2>3. moment'[writes'] # "quiet" BY <1>2, <1>3, <2>2 DEF Moment
  <2>4. AllSaved BY <1>7 DEF DataInv
  <2>5. QED BY <1>2, <1>4, <1>5, <2>3, <2>4 DEF AllSaved
<1>8. QED BY <1>2, <1>6, <1>7 DEF DataInv

LEMMA BeginDataInv ==
  ASSUME HostInv, DataInv, NEW p \in Procs, Begins(p), UNCHANGED moment
  PROVE  DataInv'
<1>1. TypeOK /\ Placed BY DEF HostInv
<1>2. CASE Backup(p)
  <2>1. disk'.db = disk.db /\ disk.backups \subseteq disk'.backups
    BY <1>1, <1>2 DEF Backup, Saved, TypeOK, Disk
  <2>2. proc' = proc /\ writes' = writes BY <1>2 DEF Backup
  <2>3. QED BY <2>1, <2>2 DEF DataInv, DataKept, AllSaved
<1>3. CASE ~Backup(p)
  <2>1. PICK op \in Operations : Begun(p, op) BY <1>1, <1>3, BeginsDo
  <2>2. /\ UNCHANGED <<disk, writes>> /\ ~Secured(proc'[p])
        /\ \A q \in Procs \ {p} : proc'[q] = proc[q]
    BY <1>1, <1>3, <2>1, BeginsDo DEF Begun, Framed
  <2>3. QED BY <2>2 DEF DataInv, DataKept, AllSaved
<1>4. QED BY <1>2, <1>3

LEMMA NextDataInv ==
  ASSUME HostInv, DataInv, [Next]_hostVars
  PROVE  DataInv'
<1>1. CASE Stores BY <1>1, StoreDataInv
<1>2. CASE UNCHANGED hostVars
  BY <1>2 DEF DataInv, DataKept, AllSaved, hostVars, vars, counts
<1>3. ASSUME NEW p \in Procs, At(p, "idle"), Begins(p), UNCHANGED <<moment, mixed>>
      PROVE  DataInv'
  BY <1>3, BeginDataInv
<1>4. ASSUME NEW p \in Procs, ~At(p, "idle"), Steps(p) \/ Dies(p),
             mixed' = (mixed \/ Mixes(p)), UNCHANGED moment
      PROVE  DataInv'
  BY <1>4, StepDataInv
<1>5. QED BY <1>1, <1>2, <1>3, <1>4 DEF Next, Rests

\* No operation of bridge_cli, completed, undone or killed between two steps, loses a row that the
\* service stored while no release was on trial and no copy had been taken: it is in the database
\* or in one of the backups.
THEOREM DataAreKept == Spec => []DataKept
<1>1. Init => DataInv
  <2>1. Init => writes = 0 /\ proc = [p \in Procs |-> Resting] BY DEF Init
  <2>2. \A n : n \notin 1..0 OBVIOUS
  <2>3. QED BY <2>1, <2>2, RestingFlags DEF DataInv, DataKept, AllSaved
<1>2. HostInv /\ DataInv /\ [Next]_hostVars => DataInv' BY NextDataInv
<1>3. DataInv => DataKept BY DEF DataInv
<1>4. QED BY <1>1, <1>2, <1>3, InitHostInv, NextHostInv, PTL DEF Spec

(***************************************************************************)
(* CompanionInv: what the status file of the companion records.            *)
(***************************************************************************)

\* The steps of an enable or a repair at which what is installed is no longer, or not
\* yet, what the status file records.
Detached ==
  {"stage.install", "stage.prepare", "repair.restart", "repair.status", "repair.back",
   "enable.start", "enable.refresh", "enable.ready", "enable.status", "enable.off", "enable.back"}

\* What CompanionRecorded says of the companion.
Recorded(c) == c.state = "complete" /\ c.desired => c.digest = c.runtime /\ c.link /\ c.unit

\* The operation holds what the file records, and the file still records it.
Apart(l) ==
  /\ Recorded(l.codex)
  /\ codex.state = l.codex.state /\ codex.desired = l.codex.desired
  /\ codex.digest = l.codex.digest
  /\ l.at = "stage.install" => codex.link = l.codex.link /\ codex.unit = l.codex.unit
  /\ l.at \in Detached \ {"stage.install", "repair.back", "enable.off", "enable.back"} =>
       codex.runtime = Digest[l.target] /\ codex.link
  /\ l.at \in {"repair.restart", "repair.status", "enable.start", "enable.refresh",
               "enable.ready", "enable.status"} => codex.unit

\* What operation p makes of the record.
Told(l) == IF l.at \in Detached THEN Apart(l) ELSE Recorded(codex)

\* A step of the companion keeps the record true, or holds what was recorded.
LEMMA CodexStepTells ==
  ASSUME TypeOK, Placed, NEW p \in Procs, CodexStep(p), ~torn', Told(proc[p])
  PROVE  Told(proc[p])'
<1>1. CASE Disable(p)
  <2>1. /\ codex'.runtime = codex.runtime /\ codex'.link = codex.link
          /\ codex'.unit = codex.unit /\ codex'.digest = codex.digest
          /\ proc'[p].target = proc[p].target /\ proc'[p].codex = proc[p].codex
    BY <1>1, DisableDoes DEF CodexKeeps, CodexFields, Goes, Keeps, Fields
  <2>2. QED BY <1>1, <2>1, DisableDoes DEF Told, Apart, Recorded, Detached, Goes
<1>2. CASE ReconcileKeeps(p)
  <2>1. /\ codex' = codex /\ proc'[p].target = proc[p].target
          /\ proc'[p].codex = proc[p].codex
    BY <1>2, ReconcileKeepsDoes DEF Goes, Keeps, Fields
  <2>2. QED
    BY <1>2, <2>1, ReconcileKeepsDoes, LocalTypes DEF Told, Apart, Recorded, Detached, Goes
<1>3. CASE ReconcileRepairs(p)
  <2>1. /\ codex' = codex /\ proc'[p].target = proc[p].target
          /\ proc'[p].codex = proc[p].codex
    BY <1>3, ReconcileRepairsDoes DEF Goes, Keeps, Fields
  <2>2. QED BY <1>3, <2>1, ReconcileRepairsDoes DEF Told, Apart, Recorded, Detached, Goes
<1>4. CASE ReconcileRaises(p)
  <2>1. /\ codex' = codex /\ proc'[p].target = proc[p].target
          /\ proc'[p].codex = proc[p].codex
    BY <1>4, ReconcileRaisesDoes DEF Goes, Keeps, Fields
  <2>2. QED
    BY <1>4, <2>1, ReconcileRaisesDoes, LocalTypes DEF Told, Apart, Recorded, Detached, Goes
<1>5. CASE StageAside(p)
  <2>1. /\ codex'.link = codex.link /\ codex'.unit = codex.unit
          /\ codex'.desired = codex.desired /\ codex'.state = codex.state
          /\ codex'.digest = codex.digest /\ proc'[p].target = proc[p].target
    BY <1>5, StageAsideDoes DEF CodexKeeps, CodexFields, Goes, Keeps, Fields
  <2>2. QED BY <1>5, <2>1, StageAsideDoes DEF Told, Apart, Recorded, Detached, Goes
<1>6. CASE StageInstall(p)
  <2>1. /\ codex'.unit = codex.unit /\ codex'.desired = codex.desired
          /\ codex'.state = codex.state /\ codex'.digest = codex.digest
          /\ proc'[p].target = proc[p].target /\ proc'[p].codex = proc[p].codex
    BY <1>6, StageInstallDoes DEF CodexKeeps, CodexFields, Goes, Keeps, Fields
  <2>2. QED BY <1>6, <2>1, StageInstallDoes DEF Told, Apart, Recorded, Detached, Goes
<1>7. CASE StageInstallFails(p)
  <2>1. /\ codex'.link = codex.link /\ codex'.unit = codex.unit
          /\ codex'.desired = codex.desired /\ codex'.state = codex.state
          /\ codex'.digest = codex.digest /\ proc'[p].target = proc[p].target
          /\ proc'[p].codex = proc[p].codex
    BY <1>7, StageInstallFailsDoes DEF CodexKeeps, CodexFields, Goes, Keeps, Fields
  <2>2. QED BY <1>7, <2>1, StageInstallFailsDoes DEF Told, Apart, Recorded, Detached, Goes
<1>8. CASE StagePrepare(p)
  <2>1. /\ codex'.runtime = codex.runtime /\ codex'.link = codex.link
          /\ codex'.desired = codex.desired /\ codex'.state = codex.state
          /\ codex'.digest = codex.digest /\ proc'[p].target = proc[p].target
          /\ proc'[p].codex = proc[p].codex
    BY <1>8, StagePrepareDoes DEF CodexKeeps, CodexFields, Goes, Keeps, Fields
  <2>2. /\ proc[p].at = "stage.prepare" /\ codex'.unit
        /\ proc'[p].at \in {"enable.start", "repair.restart"}
    BY <1>8, StagePrepareDoes DEF Goes
  <2>3. Apart(proc[p]) BY <2>2 DEF Told, Detached
  <2>4. Apart(proc[p])' BY <2>1, <2>2, <2>3 DEF Apart, Recorded, Detached
  <2>5. QED BY <2>2, <2>4 DEF Told, Detached
<1>9. CASE StagePrepareFails(p)
  <2>1. /\ codex'.desired = codex.desired /\ codex'.state = codex.state
          /\ codex'.digest = codex.digest /\ proc'[p].target = proc[p].target
          /\ proc'[p].codex = proc[p].codex
    BY <1>9, StagePrepareFailsDoes DEF CodexKeeps, CodexFields, Goes, Keeps, Fields
  <2>2. QED BY <1>9, <2>1, StagePrepareFailsDoes DEF Told, Apart, Recorded, Detached, Goes
<1>10. CASE StageRaises(p)
  <2>1. /\ codex' = codex /\ proc'[p].target = proc[p].target
          /\ proc'[p].codex = proc[p].codex
    BY <1>10, StageRaisesDoes DEF Goes, Keeps, Fields
  <2>2. QED BY <1>10, <2>1, StageRaisesDoes DEF Told, Apart, Recorded, Detached, Goes
<1>11. CASE StageFail(p)
  <2>1. /\ codex'.runtime = codex.runtime /\ codex'.link = codex.link
          /\ codex'.unit = codex.unit /\ codex'.desired = codex.desired
          /\ codex'.digest = codex.digest /\ proc'[p].target = proc[p].target
          /\ proc'[p].codex = proc[p].codex
    BY <1>11, StageFailDoes DEF CodexKeeps, CodexFields, Goes, Keeps, Fields
  <2>2. QED
    BY <1>11, <2>1, StageFailDoes, LocalTypes DEF Told, Apart, Recorded, Detached, Goes
<1>12. CASE FailOff(p)
  <2>1. /\ codex'.runtime = codex.runtime /\ codex'.link = codex.link
          /\ codex'.unit = codex.unit /\ codex'.desired = codex.desired
          /\ codex'.state = codex.state /\ codex'.digest = codex.digest
          /\ proc'[p].target = proc[p].target /\ proc'[p].codex = proc[p].codex
    BY <1>12, FailOffDoes DEF CodexKeeps, CodexFields, Goes, Keeps, Fields
  <2>2. QED BY <1>12, <2>1, FailOffDoes DEF Told, Apart, Recorded, Detached, Goes
<1>13. CASE EnableStart(p)
  <2>1. /\ codex'.runtime = codex.runtime /\ codex'.link = codex.link
          /\ codex'.unit = codex.unit /\ codex'.desired = codex.desired
          /\ codex'.state = codex.state /\ codex'.digest = codex.digest
          /\ proc'[p].target = proc[p].target /\ proc'[p].codex = proc[p].codex
    BY <1>13, EnableStartDoes DEF CodexKeeps, CodexFields, Goes, Keeps, Fields
  <2>2. QED BY <1>13, <2>1, EnableStartDoes DEF Told, Apart, Recorded, Detached, Goes
<1>14. CASE EnableRefresh(p)
  <2>1. /\ codex' = codex /\ proc'[p].target = proc[p].target
          /\ proc'[p].codex = proc[p].codex
    BY <1>14, EnableRefreshDoes DEF Goes, Keeps, Fields
  <2>2. QED BY <1>14, <2>1, EnableRefreshDoes DEF Told, Apart, Recorded, Detached, Goes
<1>15. CASE EnableReady(p)
  <2>1. /\ codex' = codex /\ proc'[p].target = proc[p].target
          /\ proc'[p].codex = proc[p].codex
    BY <1>15, EnableReadyDoes DEF Goes, Keeps, Fields
  <2>2. QED BY <1>15, <2>1, EnableReadyDoes DEF Told, Apart, Recorded, Detached, Goes
<1>16. CASE EnableStatus(p)
  <2>1. /\ codex'.runtime = codex.runtime /\ codex'.link = codex.link
          /\ codex'.unit = codex.unit /\ proc'[p].target = proc[p].target
          /\ proc'[p].codex = proc[p].codex
    BY <1>16, EnableStatusDoes DEF CodexKeeps, CodexFields, Goes, Keeps, Fields
  <2>2. QED
    BY <1>16, <2>1, EnableStatusDoes DEF Told, Apart, Recorded, Detached, Goes, EnableStatus,
       Changes
<1>17. CASE EnableRaises(p)
  <2>1. /\ codex' = codex /\ proc'[p].target = proc[p].target
          /\ proc'[p].codex = proc[p].codex
    BY <1>17, EnableRaisesDoes DEF Goes, Keeps, Fields
  <2>2. QED BY <1>17, <2>1, EnableRaisesDoes DEF Told, Apart, Recorded, Detached, Goes
<1>18. CASE EnableOff(p)
  <2>1. /\ codex'.runtime = codex.runtime /\ codex'.link = codex.link
          /\ codex'.unit = codex.unit /\ codex'.desired = codex.desired
          /\ codex'.state = codex.state /\ codex'.digest = codex.digest
          /\ proc'[p].target = proc[p].target /\ proc'[p].codex = proc[p].codex
    BY <1>18, EnableOffDoes DEF CodexKeeps, CodexFields, Goes, Keeps, Fields
  <2>2. QED BY <1>18, <2>1, EnableOffDoes DEF Told, Apart, Recorded, Detached, Goes
<1>19. CASE EnableBack(p)
  <2>1. /\ codex'.desired = codex.desired /\ codex'.state = codex.state
          /\ codex'.digest = codex.digest /\ proc'[p].target = proc[p].target
          /\ proc'[p].codex = proc[p].codex
    BY <1>19, EnableBackDoes DEF CodexKeeps, CodexFields, Goes, Keeps, Fields
  <2>2. QED BY <1>19, <2>1, EnableBackDoes DEF Told, Apart, Recorded, Detached, Goes
<1>20. CASE EnableFail(p)
  <2>1. /\ codex'.runtime = codex.runtime /\ codex'.link = codex.link
          /\ codex'.unit = codex.unit /\ codex'.digest = codex.digest
          /\ proc'[p].target = proc[p].target /\ proc'[p].codex = proc[p].codex
    BY <1>20, EnableFailDoes DEF CodexKeeps, CodexFields, Goes, Keeps, Fields
  <2>2. QED
    BY <1>20, <2>1, EnableFailDoes DEF Told, Apart, Recorded, Detached, Goes, EnableFail,
       Changes
<1>21. CASE RepairRestart(p)
  <2>1. /\ codex'.runtime = codex.runtime /\ codex'.link = codex.link
          /\ codex'.unit = codex.unit /\ codex'.desired = codex.desired
          /\ codex'.state = codex.state /\ codex'.digest = codex.digest
          /\ proc'[p].target = proc[p].target /\ proc'[p].codex = proc[p].codex
    BY <1>21, RepairRestartDoes DEF CodexKeeps, CodexFields, Goes, Keeps, Fields
  <2>2. QED BY <1>21, <2>1, RepairRestartDoes DEF Told, Apart, Recorded, Detached, Goes
<1>22. CASE RepairStatus(p)
  <2>1. /\ codex'.runtime = codex.runtime /\ codex'.link = codex.link
          /\ codex'.unit = codex.unit /\ codex'.desired = codex.desired
          /\ proc'[p].target = proc[p].target /\ proc'[p].codex = proc[p].codex
    BY <1>22, RepairStatusDoes DEF CodexKeeps, CodexFields, Goes, Keeps, Fields
  <2>2. QED
    BY <1>22, <2>1, RepairStatusDoes, LocalTypes DEF Told, Apart, Recorded, Detached, Goes
<1>23. CASE RepairRaises(p)
  <2>1. /\ codex' = codex /\ proc'[p].target = proc[p].target
          /\ proc'[p].codex = proc[p].codex
    BY <1>23, RepairRaisesDoes DEF Goes, Keeps, Fields
  <2>2. QED BY <1>23, <2>1, RepairRaisesDoes DEF Told, Apart, Recorded, Detached, Goes
<1>24. CASE RepairBack(p)
  <2>1. /\ codex'.desired = codex.desired /\ codex'.state = codex.state
          /\ codex'.digest = codex.digest /\ proc'[p].target = proc[p].target
          /\ proc'[p].codex = proc[p].codex
    BY <1>24, RepairBackDoes DEF CodexKeeps, CodexFields, Goes, Keeps, Fields
  <2>2. QED BY <1>24, <2>1, RepairBackDoes DEF Told, Apart, Recorded, Detached, Goes
<1>25. CASE RepairAgain(p)
  <2>1. /\ codex'.runtime = codex.runtime /\ codex'.link = codex.link
          /\ codex'.unit = codex.unit /\ codex'.desired = codex.desired
          /\ codex'.state = codex.state /\ codex'.digest = codex.digest
          /\ proc'[p].target = proc[p].target /\ proc'[p].codex = proc[p].codex
    BY <1>25, RepairAgainDoes DEF CodexKeeps, CodexFields, Goes, Keeps, Fields
  <2>2. QED BY <1>25, <2>1, RepairAgainDoes DEF Told, Apart, Recorded, Detached, Goes
<1>26. CASE RepairFail(p)
  <2>1. /\ codex'.runtime = codex.runtime /\ codex'.link = codex.link
          /\ codex'.unit = codex.unit /\ codex'.desired = codex.desired
          /\ codex'.digest = codex.digest /\ proc'[p].target = proc[p].target
          /\ proc'[p].codex = proc[p].codex
    BY <1>26, RepairFailDoes DEF CodexKeeps, CodexFields, Goes, Keeps, Fields
  <2>2. QED
    BY <1>26, <2>1, RepairFailDoes, LocalTypes DEF Told, Apart, Recorded, Detached, Goes
<1>27. CASE CodexRaises(p)
  <2>1. torn' BY <1>27, CodexRaisesDoes
  <2>2. QED BY <2>1
<1>28. QED
  BY <1>1, <1>2, <1>3, <1>4, <1>5, <1>6, <1>7, <1>8, <1>9, <1>10, <1>11, <1>12, <1>13,
     <1>14, <1>15, <1>16, <1>17, <1>18, <1>19, <1>20, <1>21, <1>22, <1>23, <1>24, <1>25,
     <1>26, <1>27 DEF CodexStep

\* The other steps leave the companion alone, or end with a record that is true.
LEMMA ActivateStepTells ==
  ASSUME TypeOK, Placed, NEW p \in Procs, ActivateStep(p)
  PROVE  codex' = codex /\ proc[p].at \notin Detached /\ proc'[p].at \notin Detached
<1>3. codex' = codex
  BY UnpackDoes, EnvironmentDoes, EnvironmentFailsDoes, PreflightDoes, StopServiceDoes,
     SaveDatabaseDoes, MigrateDatabaseDoes, MigrationFailsDoes, SwitchReleaseDoes,
     StartServiceDoes, CheckServiceDoes, PublishInstallationDoes, WriteReceiptDoes,
     ReturnDoes, BodyRaisesDoes DEF ActivateStep
<1>4. proc[p].at \notin Detached /\ proc'[p].at \notin Detached
  <2>1. CASE Unpack(p) \/ Environment(p) \/ EnvironmentFails(p) \/ Preflight(p)
    BY <2>1, UnpackDoes, EnvironmentDoes, EnvironmentFailsDoes, PreflightDoes, RestingIsPlaced
         DEF Detached, Goes, Ends, Guarded
  <2>2. CASE StopService(p) \/ SaveDatabase(p) \/ MigrateDatabase(p) \/ MigrationFails(p)
    BY <2>2, StopServiceDoes, SaveDatabaseDoes, MigrateDatabaseDoes, MigrationFailsDoes,
         RestingIsPlaced DEF Detached, Goes, Ends, Guarded
  <2>3. CASE SwitchRelease(p) \/ StartService(p) \/ CheckService(p) \/ PublishInstallation(p)
    BY <2>3, SwitchReleaseDoes, StartServiceDoes, CheckServiceDoes, PublishInstallationDoes,
         RestingIsPlaced DEF Detached, Goes, Ends, Guarded
  <2>4. CASE WriteReceipt(p) \/ Return(p) \/ BodyRaises(p)
    BY <2>4, WriteReceiptDoes, ReturnDoes, BodyRaisesDoes, RestingIsPlaced DEF Detached, Goes,
         Ends, Guarded
  <2>5. QED BY <2>1, <2>2, <2>3, <2>4 DEF ActivateStep
<1>5. QED BY <1>3, <1>4

LEMMA UndoStepTells ==
  ASSUME TypeOK, Placed, NEW p \in Procs, UndoStep(p)
  PROVE  codex' = codex /\ proc[p].at \notin Detached /\ proc'[p].at \notin Detached
<1>1. CASE \/ UndoStop(p) \/ UndoSwitch(p) \/ UndoUnlink(p) \/ UndoCopy(p)
  BY <1>1, UndoStopDoes, UndoSwitchDoes, UndoUnlinkDoes, UndoCopyDoes, RestingIsPlaced
     DEF Detached, Goes, Ends
<1>2. CASE \/ UndoStart(p) \/ UndoPublish(p) \/ UndoReceipt(p) \/ UndoRaises(p)
  BY <1>2, UndoStartDoes, UndoPublishDoes, UndoReceiptDoes, UndoRaisesDoes, RestingIsPlaced
     DEF Detached, Goes, Ends
<1>3. QED BY <1>1, <1>2 DEF UndoStep

LEMMA RollbackStepTells ==
  ASSUME TypeOK, Placed, NEW p \in Procs, RollbackStep(p)
  PROVE  codex' = codex /\ proc[p].at \notin Detached /\ proc'[p].at \notin Detached
<1>1. CASE \/ RollbackSave(p) \/ RollbackStop(p) \/ RollbackRefused(p)
           \/ RollbackSwitch(p) \/ RollbackUnlink(p) \/ RollbackCopy(p)
  BY <1>1, RollbackSaveDoes, RollbackStopDoes, RollbackRefusedDoes, RollbackSwitchDoes,
     RollbackUnlinkDoes, RollbackCopyDoes, RestingIsPlaced
     DEF Detached, Goes, Ends
<1>2. CASE \/ RollbackStart(p) \/ RollbackCheck(p) \/ RollbackPublish(p)
           \/ RollbackReceipt(p) \/ RollbackRaises(p)
  BY <1>2, RollbackStartDoes, RollbackCheckDoes, RollbackPublishDoes, RollbackReceiptDoes,
     RollbackRaisesDoes, RestingIsPlaced
     DEF Detached, Goes, Ends
<1>3. QED BY <1>1, <1>2 DEF RollbackStep

LEMMA ReturnStepTells ==
  ASSUME TypeOK, Placed, NEW p \in Procs, ReturnStep(p)
  PROVE  codex' = codex /\ proc[p].at \notin Detached /\ proc'[p].at \notin Detached
<1> USE ReturnStopDoes, ReturnSwitchDoes, ReturnUnlinkDoes, ReturnCopyDoes, ReturnStartDoes,
     ReturnPublishDoes, ReturnRaisesDoes, LocalTypes DEF ReturnStep
<1>3. codex' = codex OBVIOUS
<1>4. proc[p].at \notin Detached BY DEF Detached, Goes
<1>5. proc'[p].at \notin Detached
  BY RestingIsPlaced DEF Detached, Goes, Ends
<1>6. QED BY <1>3, <1>4, <1>5

LEMMA DatabaseStepTells ==
  ASSUME TypeOK, Placed, NEW p \in Procs, DatabaseStep(p)
  PROVE  codex' = codex /\ proc[p].at \notin Detached /\ proc'[p].at \notin Detached
<1>3. codex' = codex
  BY ReplaceLockDoes, ReplaceRefusedDoes, ReplaceStopDoes, ReplaceSaveDoes, ReplaceCutDoes,
     RuntimePrepareDoes, RuntimeStartDoes, RuntimeCheckDoes, ReplaceRaisesDoes,
     ReplaceResumeDoes, RestoreStopDoes, RestoreCopyDoes, RestorePrepareDoes,
     RestoreStartDoes, RestoreCheckDoes, RestoreRaisesDoes, OptimizeStopDoes,
     OptimizeDirectoryDoes, OptimizeSaveDoes, StopRefusedDoes, MigrateStopDoes,
     MigrateSaveDoes, MigrateRunDoes, MigrateFailsDoes, BackupRaisesDoes, MutateDoes DEF
     DatabaseStep
<1>4. proc[p].at \in DatabaseLabels \cup {"mutate"}
  <2>1. CASE ReplaceLock(p) \/ ReplaceRefused(p) \/ ReplaceStop(p) \/ ReplaceSave(p) \/
               ReplaceCut(p) \/ RuntimePrepare(p) \/ RuntimeStart(p) \/ RuntimeCheck(p)
    BY <2>1, ReplaceLockDoes, ReplaceRefusedDoes, ReplaceStopDoes, ReplaceSaveDoes,
         ReplaceCutDoes, RuntimePrepareDoes, RuntimeStartDoes, RuntimeCheckDoes DEF Goes,
         DatabaseLabels
  <2>2. CASE ReplaceRaises(p) \/ ReplaceResume(p) \/ RestoreStop(p) \/ RestoreCopy(p) \/
               RestorePrepare(p) \/ RestoreStart(p) \/ RestoreCheck(p) \/ RestoreRaises(p)
    BY <2>2, ReplaceRaisesDoes, ReplaceResumeDoes, RestoreStopDoes, RestoreCopyDoes,
         RestorePrepareDoes, RestoreStartDoes, RestoreCheckDoes, RestoreRaisesDoes DEF Goes,
         DatabaseLabels
  <2>3. CASE OptimizeStop(p) \/ OptimizeDirectory(p) \/ OptimizeSave(p) \/ StopRefused(p) \/
               MigrateStop(p) \/ MigrateSave(p) \/ MigrateRun(p) \/ MigrateFails(p)
    BY <2>3, OptimizeStopDoes, OptimizeDirectoryDoes, OptimizeSaveDoes, StopRefusedDoes,
         MigrateStopDoes, MigrateSaveDoes, MigrateRunDoes, MigrateFailsDoes DEF Goes,
         DatabaseLabels
  <2>4. CASE BackupRaises(p) \/ Mutate(p)
    BY <2>4, BackupRaisesDoes, MutateDoes DEF Goes, DatabaseLabels
  <2>5. QED BY <2>1, <2>2, <2>3, <2>4 DEF DatabaseStep
<1>5. proc[p].op \notin {"update", "deploy", "rollback", "enable", "repair"}
  BY <1>4 DEF Placed, Path
<1>6. Path(proc[p]) /\ Path(proc'[p]) /\ (proc'[p].op = proc[p].op \/ proc'[p] = Resting)
  BY DatabaseStepTyped DEF Placed, Moves, Steady
<1>7. proc'[p].op \notin {"update", "deploy", "rollback", "enable", "repair"}
  BY <1>5, <1>6 DEF Resting
<1>8. proc[p].at \notin Detached /\ proc'[p].at \notin Detached
  BY <1>5, <1>6, <1>7 DEF Path, Detached, ReconcileLabels, EnableLabels
<1>9. QED BY <1>3, <1>8

\* The plan of an uninstall has the status file that is there when it removes.
\* The plan of an uninstall has the status file that is there when it removes. The plan is made
\* before the lock is taken (bridge_cli/uninstall.py, plan and execute), so that the lock alone
\* does not give this.
Foreseen ==
  \A p \in Procs :
    proc[p].at = "uninstall.remove" /\ codex.state # "none" => proc[p].codex.state # "none"

\* A removal whose plan has the status file leaves none.
LEMMA RemovalTells ==
  ASSUME TypeOK, Foreseen, NEW p \in Procs, UninstallRemove(p)
  PROVE  Recorded(codex')
<1>1. codex.state # "none" => proc[p].codex.state # "none"
  BY DEF Foreseen, UninstallRemove, At
<1>2. codex' = [codex EXCEPT !.runtime = 0, !.link = FALSE,
                  !.unit = IF proc[p].codex.unit THEN FALSE ELSE @,
                  !.desired = IF proc[p].codex.state # "none" THEN FALSE ELSE @,
                  !.state = IF proc[p].codex.state # "none" THEN "none" ELSE @,
                  !.digest = IF proc[p].codex.state # "none" THEN 0 ELSE @]
  BY DEF UninstallRemove
<1>3. codex'.state = "none" BY <1>1, <1>2 DEF TypeOK, Companion
<1>4. QED BY <1>3 DEF Recorded

LEMMA SetupStepTells ==
  ASSUME TypeOK, Placed, Foreseen, NEW p \in Procs, SetupStep(p)
  PROVE  /\ Recorded(codex) => Recorded(codex')
         /\ codex' = codex \/ proc[p].at \in {"uninstall.disable", "uninstall.remove"}
         /\ proc[p].at \notin Detached /\ proc'[p].at \notin Detached
<1>1. proc[p].at \in MenuSteps \cup ActivateLabels \cup ConfigureLabels \cup UninstallLabels
  <2>1. CASE StageRelease(p) \/ StageDatabase(p) \/ StageDomain(p) \/ StageService(p) \/
               SetupRaises(p) \/ ActivateStage(p) \/ ActivateBackup(p) \/ ActivateSync(p)
    BY <2>1, StageReleaseDoes, StageDatabaseDoes, StageDomainDoes, StageServiceDoes,
         SetupRaisesDoes, ActivateStageDoes, ActivateBackupDoes, ActivateSyncDoes DEF Goes,
         MenuSteps, ActivateLabels, ConfigureLabels
  <2>2. CASE ActivateStop(p) \/ ActivateRefresh(p) \/ ActivateLegacy(p) \/ ActivateSwitch(p) \/
               ActivateFiles(p) \/ ActivateRestart(p) \/ ActivateCheck(p) \/ ActivatePublish(p)
    BY <2>2, ActivateStopDoes, ActivateRefreshDoes, ActivateLegacyDoes, ActivateSwitchDoes,
         ActivateFilesDoes, ActivateRestartDoes, ActivateCheckDoes, ActivatePublishDoes DEF
         Goes, MenuSteps, ActivateLabels, ConfigureLabels
  <2>3. CASE ActivateReceipt(p) \/ ActivateRaises(p) \/ DeactivateStop(p) \/ DeactivateLink(p) \/
               DeactivateFiles(p) \/ DeactivateStart(p) \/ DeactivateReceipt(p) \/
               DeactivateRaises(p)
    BY <2>3, ActivateReceiptDoes, ActivateRaisesDoes, DeactivateStopDoes, DeactivateLinkDoes,
         DeactivateFilesDoes, DeactivateStartDoes, DeactivateReceiptDoes, DeactivateRaisesDoes
         DEF Goes, MenuSteps, ActivateLabels, ConfigureLabels
  <2>4. CASE ConfigureEnv(p) \/ ConfigureCaddy(p) \/ ConfigureRestart(p) \/ ConfigurePublish(p) \/
               ConfigureFails(p) \/ ConfigureUndo(p) \/ ConfigureAgain(p) \/ ConfigureRaises(p)
    BY <2>4, ConfigureEnvDoes, ConfigureCaddyDoes, ConfigureRestartDoes, ConfigurePublishDoes,
         ConfigureFailsDoes, ConfigureUndoDoes, ConfigureAgainDoes, ConfigureRaisesDoes DEF
         Goes, MenuSteps, ActivateLabels, ConfigureLabels
  <2>5. CASE UninstallLock(p) \/ UninstallRefused(p) \/ UninstallStop(p) \/ UninstallExport(p) \/
               UninstallExportFails(p)
    BY <2>5, UninstallLockDoes, UninstallRefusedDoes, UninstallStopDoes, UninstallExportDoes,
         UninstallExportFailsDoes DEF Goes, UninstallLabels
  <2>6. CASE UninstallResume(p) \/ UninstallDisable(p) \/ UninstallRemove(p) \/
               UninstallPurge(p) \/ UninstallRaises(p)
    BY <2>6, UninstallResumeDoes, UninstallDisableDoes, UninstallRemoveDoes,
         UninstallPurgeDoes, UninstallRaisesDoes DEF Goes, UninstallLabels
  <2>7. QED BY <2>1, <2>2, <2>3, <2>4, <2>5, <2>6 DEF SetupStep
<1>2. proc[p].op \notin {"update", "deploy", "rollback", "enable", "repair"}
  BY <1>1 DEF Placed, Path
<1>3. Path(proc[p]) /\ Path(proc'[p]) /\ (proc'[p].op = proc[p].op \/ proc'[p] = Resting)
  BY SetupStepTyped DEF Placed, Moves, Steady
<1>4. proc'[p].op \notin {"update", "deploy", "rollback", "enable", "repair"}
  BY <1>2, <1>3 DEF Resting
<1>5. proc[p].at \notin Detached /\ proc'[p].at \notin Detached
  BY <1>2, <1>3, <1>4 DEF Path, Detached, ReconcileLabels, EnableLabels
<1>6. CASE UninstallDisable(p)
  <2>1. proc[p].at = "uninstall.disable" /\ CodexKeeps({"running"})
    BY <1>6, UninstallDisableDoes DEF Goes
  <2>2. /\ codex'.state = codex.state /\ codex'.desired = codex.desired
        /\ codex'.digest = codex.digest /\ codex'.runtime = codex.runtime
        /\ codex'.link = codex.link /\ codex'.unit = codex.unit
    BY <2>1 DEF CodexKeeps, CodexFields
  <2>3. Recorded(codex) => Recorded(codex') BY <2>2 DEF Recorded
  <2>4. QED BY <1>5, <2>1, <2>3
<1>7. CASE UninstallRemove(p)
  <2>1. proc[p].at = "uninstall.remove" BY <1>7, UninstallRemoveDoes DEF Goes
  <2>2. Recorded(codex') BY <1>7, RemovalTells
  <2>3. QED BY <1>5, <2>1, <2>2
<1>8. CASE ~UninstallDisable(p) /\ ~UninstallRemove(p)
  <2>1. codex' = codex
    BY <1>8, StageReleaseDoes, StageDatabaseDoes, StageDomainDoes, StageServiceDoes,
       SetupRaisesDoes, ActivateStageDoes, ActivateBackupDoes, ActivateSyncDoes,
       ActivateStopDoes, ActivateRefreshDoes, ActivateLegacyDoes, ActivateSwitchDoes,
       ActivateFilesDoes, ActivateRestartDoes, ActivateCheckDoes, ActivatePublishDoes,
       ActivateReceiptDoes, ActivateRaisesDoes, DeactivateStopDoes, DeactivateLinkDoes,
       DeactivateFilesDoes, DeactivateStartDoes, DeactivateReceiptDoes, DeactivateRaisesDoes,
       ConfigureEnvDoes, ConfigureCaddyDoes, ConfigureRestartDoes, ConfigurePublishDoes,
       ConfigureFailsDoes, ConfigureUndoDoes, ConfigureAgainDoes, ConfigureRaisesDoes,
       UninstallLockDoes, UninstallRefusedDoes, UninstallStopDoes, UninstallExportDoes,
       UninstallExportFailsDoes, UninstallResumeDoes, UninstallPurgeDoes,
       UninstallRaisesDoes DEF SetupStep
  <2>2. QED BY <1>5, <2>1
<1>9. QED BY <1>6, <1>7, <1>8

\* The steps that are taken with something held.
LEMMA TheCompanionsSteps ==
  ASSUME TypeOK, Placed, NEW p \in Procs, CodexStep(p)
  PROVE  proc[p].at \in ReconcileLabels \cup EnableLabels \cup {"disable"}
<1>1. proc[p].at \in ReconcileLabels \cup EnableLabels \cup {"disable"}
  <2>1. CASE Disable(p) \/ ReconcileKeeps(p) \/ ReconcileRepairs(p) \/ ReconcileRaises(p) \/
               StageAside(p) \/ StageInstall(p) \/ StageInstallFails(p) \/ StagePrepare(p)
    BY <2>1, DisableDoes, ReconcileKeepsDoes, ReconcileRepairsDoes, ReconcileRaisesDoes,
         StageAsideDoes, StageInstallDoes, StageInstallFailsDoes, StagePrepareDoes DEF
         ReconcileLabels, EnableLabels, Goes
  <2>2. CASE StagePrepareFails(p) \/ StageRaises(p) \/ StageFail(p) \/ FailOff(p) \/
               EnableStart(p) \/ EnableRefresh(p) \/ EnableReady(p) \/ EnableStatus(p)
    BY <2>2, StagePrepareFailsDoes, StageRaisesDoes, StageFailDoes, FailOffDoes,
         EnableStartDoes, EnableRefreshDoes, EnableReadyDoes, EnableStatusDoes DEF
         ReconcileLabels, EnableLabels, Goes
  <2>3. CASE EnableRaises(p) \/ EnableOff(p) \/ EnableBack(p) \/ EnableFail(p) \/
               RepairRestart(p) \/ RepairStatus(p) \/ RepairRaises(p) \/ RepairBack(p)
    BY <2>3, EnableRaisesDoes, EnableOffDoes, EnableBackDoes, EnableFailDoes,
         RepairRestartDoes, RepairStatusDoes, RepairRaisesDoes, RepairBackDoes DEF
         ReconcileLabels, EnableLabels, Goes
  <2>4. CASE RepairAgain(p) \/ RepairFail(p) \/ CodexRaises(p)
    BY <2>4, RepairAgainDoes, RepairFailDoes DEF ReconcileLabels, EnableLabels, Goes,
         CodexRaises, At
  <2>5. QED BY <2>1, <2>2, <2>3, <2>4 DEF CodexStep
<1>2. QED BY <1>1

\* The file records what is installed, apart from what the operation with the lock holds.
CompanionInv ==
  ~torn => IF lock = None THEN Recorded(codex) ELSE Told(proc[lock])

\* CompanionInv is inductive.
LEMMA StepCompanionInv ==
  ASSUME HostInv, CompanionInv, Foreseen, NEW p \in Procs, ~At(p, "idle"),
         Steps(p) \/ Dies(p)
  PROVE  CompanionInv'
<1> SUFFICES ASSUME ~torn' PROVE (IF lock = None THEN Recorded(codex) ELSE Told(proc[lock]))'
  BY DEF CompanionInv
<1>1. TypeOK /\ Placed /\ Single /\ Ready(p) BY DEF HostInv
<1>2. Moves(p) /\ Locks(p) /\ (torn => torn') BY <1>1, StepDoes DEF Serves, Typed
<1>3. IF lock = None THEN Recorded(codex) ELSE Told(proc[lock]) BY <1>2 DEF CompanionInv
<1>4. /\ lock \in Procs \cup {None} /\ None \notin Procs /\ proc[p].at # "idle"
      /\ \A q \in Procs \ {p} : proc'[q] = proc[q]
  BY <1>1, <1>2, HostAssumption DEF TypeOK, At, Moves, Framed
<1>5. Steps(p)
  <2>1. Dies(p) => torn' BY DEF Dies
  <2>2. QED BY <2>1
<1>6. "idle" \notin Detached /\ Resting.at = "idle" BY RestingIsPlaced DEF Detached
<1>7. CASE CodexStep(p)
  <2>1. ~Free(proc[p])
    BY <1>1, <1>7, TheCompanionsSteps DEF Free, ReconcileLabels, EnableLabels, MenuSteps
  <2>2. lock = p BY <1>1, <2>1 DEF Single
  <2>3. Told(proc[p])' BY <1>1, <1>3, <1>4, <1>7, <2>2, CodexStepTells
  <2>4. CASE Ends(p) BY <1>4, <1>6, <2>2, <2>3, <2>4 DEF Ends, Told
  <2>5. CASE lock' = p BY <1>4, <2>3, <2>5
  <2>6. QED BY <1>2, <1>4, <2>2, <2>4, <2>5 DEF Locks
<1>8. CASE ~CodexStep(p)
  <2>1. /\ Recorded(codex) => Recorded(codex')
        /\ codex' = codex \/ proc[p].at \in {"uninstall.disable", "uninstall.remove"}
        /\ proc[p].at \notin Detached /\ proc'[p].at \notin Detached
    BY <1>1, <1>5, <1>8, ActivateStepTells, UndoStepTells, RollbackStepTells,
       ReturnStepTells, DatabaseStepTells, SetupStepTells DEF Steps, ReleaseStep
  <2>2. CASE lock \in {p, None}
    <3>1. Recorded(codex) BY <1>3, <1>4, <2>1, <2>2 DEF Told
    <3>2. lock' \in {p, None} BY <1>2, <1>4, <2>2 DEF Locks, Ends
    <3>3. QED BY <1>4, <2>1, <3>1, <3>2 DEF Told, Recorded
  <2>3. CASE lock \notin {p, None}
    <3>1. lock' = lock BY <1>2, <2>3 DEF Locks, Ends
    <3>2. Told(proc[lock]) /\ proc'[lock] = proc[lock] BY <1>3, <1>4, <2>3
    <3>3. proc[p].at \notin {"uninstall.disable", "uninstall.remove"}
      BY <1>1, <2>3 DEF Single, Free, MenuSteps
    <3>4. codex' = codex BY <2>1, <3>3
    <3>5. QED BY <1>4, <2>3, <3>1, <3>2, <3>4 DEF Told, Apart, Recorded
  <2>4. QED BY <2>2, <2>3
<1>9. QED BY <1>7, <1>8

LEMMA BeginCompanionInv ==
  ASSUME HostInv, CompanionInv, NEW p \in Procs, At(p, "idle"), Begins(p)
  PROVE  CompanionInv'
<1>1. TypeOK /\ Placed /\ None \notin Procs BY HostAssumption DEF HostInv
<1>2. CASE Backup(p)
  BY <1>2 DEF Backup, CompanionInv, Told, Apart, Recorded
<1>3. CASE ~Backup(p)
  <2>1. PICK op \in Operations : Begun(p, op) BY <1>1, <1>3, BeginsDo
  <2>2. /\ UNCHANGED <<codex, torn>> /\ \A q \in Procs \ {p} : proc'[q] = proc[q]
        /\ proc'[p].at \notin Detached
        /\ (lock = None /\ lock' = p) \/ lock' = lock
    BY <1>1, <1>3, <2>1, BeginsDo DEF Begun, Framed, Beginnings, MenuSteps, Detached
  <2>3. lock # p /\ lock \in Procs \cup {None} BY <1>1 DEF TypeOK, At
  <2>4. QED BY <1>1, <2>2, <2>3 DEF CompanionInv, Told, Apart, Recorded
<1>4. QED BY <1>2, <1>3

\* The status file of the companion (codex-runtime.json of bridge_cli/codex_runtime.py), when it
\* says complete and enabled, names the runtime that is installed, with its link and its unit,
\* between any two operations and whoever uninstalls, provided that no uninstall removes with a
\* plan that is older than the companion (Foreseen).
THEOREM CompanionIsRecorded ==
  Spec /\ []Foreseen => []CompanionRecorded
<1>1. Init => CompanionInv
  BY DEF Init, CompanionInv, Recorded, NoCompanion
<1>2. HostInv /\ CompanionInv /\ Foreseen /\ [Next]_hostVars => CompanionInv'
  <2> SUFFICES ASSUME HostInv, CompanionInv, Foreseen, [Next]_hostVars PROVE CompanionInv'
    OBVIOUS
  <2>1. CASE UNCHANGED <<codex, lock, proc, torn>>
    BY <2>1 DEF CompanionInv, Told, Apart, Recorded
  <2>2. Stores \/ UNCHANGED hostVars => UNCHANGED <<codex, lock, proc, torn>>
    BY DEF Stores, ServiceWrites, hostVars, vars
  <2>3. ASSUME NEW p \in Procs, At(p, "idle"), Begins(p) PROVE CompanionInv'
    BY <2>3, BeginCompanionInv
  <2>4. ASSUME NEW p \in Procs, ~At(p, "idle"), Steps(p) \/ Dies(p) PROVE CompanionInv'
    BY <2>4, StepCompanionInv
  <2>5. QED BY <2>1, <2>2, <2>3, <2>4 DEF Next, Rests
<1>3. HostInv /\ CompanionInv => CompanionRecorded
  <2> SUFFICES ASSUME HostInv, CompanionInv, Resting0, ~torn PROVE Recorded(codex)
    BY DEF CompanionRecorded, Recorded
  <2>1. lock = None BY DEF HostInv, TypeOK, Resting0
  <2>2. QED BY <2>1 DEF CompanionInv
<1>4. QED BY <1>1, <1>2, <1>3, InitHostInv, NextHostInv, PTL DEF Spec

(***************************************************************************)
(* WholeInv: changes of the release, configurations and activations.       *)
(***************************************************************************)

\* The operations that change the release.
Changing == {"update", "deploy", "rollback"}

\* A database, the one in place or a copy, that is that of the beginning.
SameData(db, l) == db.schema = l.before.db.schema /\ l.before.db.rows \subseteq db.rows

\* The release, the installation file and the data as the operation found them, and below as it
\* wants them.
Kept(l) ==
  disk.link = l.before.link /\ disk.inst = l.before.inst /\ SameData(disk.db, l)

Done(l) ==
  /\ disk.link = l.target /\ disk.inst = l.new
  /\ disk.db.schema = Schema[l.target] /\ disk.dirs[l.target] = "ready"

\* The steps at which the link is still, or again, that of the beginning; at which it is the new
\* one; and so on for the installation file, the data and the copy.
OldLink ==
  {"unpack", "environment", "preflight", "stop", "save", "migrate", "switch", "undo.unlink",
   "undo.copy", "undo.start", "undo.publish", "undo.receipt", "rollback.save", "rollback.stop",
   "rollback.switch", "return.unlink", "return.copy", "return.start", "return.publish"}
NewLink ==
  {"start", "check", "publish", "receipt", "rollback.unlink", "rollback.copy",
   "rollback.start", "rollback.check", "rollback.publish", "rollback.receipt"} \cup ReconcileLabels
OldInst ==
  {"unpack", "environment", "preflight", "stop", "save", "migrate", "switch", "start", "check",
   "publish", "undo.receipt", "rollback.save", "rollback.stop", "rollback.switch",
   "rollback.unlink", "rollback.copy", "rollback.start", "rollback.check", "rollback.publish"}
NewInst == {"receipt", "rollback.receipt"} \cup ReconcileLabels
Undoing == {"undo.stop", "undo.switch", "undo.unlink", "undo.copy", "undo.start", "undo.publish"}
OldData ==
  {"unpack", "environment", "preflight", "stop", "save", "migrate", "undo.start",
   "undo.publish", "undo.receipt", "rollback.save", "rollback.stop", "rollback.switch",
   "rollback.unlink", "return.start", "return.publish"}
NewData == {"publish", "receipt", "rollback.publish", "rollback.receipt"} \cup ReconcileLabels
WithCopy ==
  {"migrate", "switch", "start", "check", "publish", "receipt", "undo.unlink", "undo.copy",
   "rollback.stop", "rollback.switch", "rollback.unlink", "rollback.copy", "rollback.start",
   "rollback.check", "rollback.publish", "rollback.receipt", "return.stop", "return.switch",
   "return.unlink", "return.copy"} \cup ReconcileLabels

\* The copy that the operation took is there and of the beginning.
GoodCopy(l) == l.copy \in disk.backups /\ SameData(l.copy, l)

\* How far it got.
Stage(l) ==
  /\ l.link = l.before.link /\ l.inst = l.before.inst
  /\ l.at \in OldLink => disk.link = l.before.link
  /\ l.at \in NewLink => disk.link = l.target
  /\ l.at \in OldInst => disk.inst = l.before.inst
  /\ l.at \in NewInst => disk.inst = l.new
  /\ l.at \in OldInst \ {"undo.receipt"} => ~l.published
  /\ l.at \in Undoing => disk.inst = IF l.published THEN l.new ELSE l.before.inst
  /\ l.at \in NewInst /\ l.op # "rollback" => l.published
  /\ l.at \in OldData => SameData(disk.db, l)
  /\ l.at \in {"undo.stop", "undo.switch"} => IF l.copied THEN GoodCopy(l)
         ELSE SameData(disk.db, l)
  /\ l.at \in WithCopy => GoodCopy(l)
  /\ l.at \in WithCopy /\ l.op # "rollback" => l.copied
  /\ l.at \in {"check", "rollback.check"} =>
       up = None \/ (disk.db.schema = Schema[l.target] /\ disk.dirs[l.target] = "ready")
  /\ l.at \in NewData => disk.db.schema = Schema[l.target] /\ disk.dirs[l.target] = "ready"
  /\ l.at = "return" => Kept(l) \/ Done(l)

\* What an operation that changes the release leaves.
Outcome(l) ==
  \/ /\ disk'.link = l.target /\ disk'.inst = l.new
     /\ disk'.db.schema = Schema[l.target] /\ disk'.dirs[l.target] = "ready"
  \/ /\ disk'.link = l.before.link /\ disk'.inst = l.before.inst /\ SameData(disk'.db, l)

\* Where the steps of a group are taken.
\* Where the steps of a group are taken, and by which operations.
LEMMA DatabaseStepAt ==
  ASSUME NEW p \in Procs, DatabaseStep(p)
  PROVE  /\ proc[p].at \in DatabaseLabels \cup {"mutate"}
         /\ proc[p].at = "replace.lock" => ReplaceLock(p) \/ ReplaceRefused(p)
<1>1. CASE ReplaceLock(p) \/ ReplaceRefused(p) \/ ReplaceStop(p) \/ ReplaceSave(p) \/
           ReplaceCut(p) \/ RuntimePrepare(p) \/ RuntimeStart(p) \/ RuntimeCheck(p)
  BY <1>1 DEF ReplaceLock, ReplaceRefused, ReplaceStop, ReplaceSave, ReplaceCut,
       RuntimePrepare, RuntimeStart, RuntimeCheck, Looks, Returns, Runs, Writes, At,
       DatabaseLabels
<1>2. CASE ReplaceRaises(p) \/ ReplaceResume(p) \/ RestoreStop(p) \/ RestoreCopy(p) \/
           RestorePrepare(p) \/ RestoreStart(p) \/ RestoreCheck(p) \/ RestoreRaises(p)
  BY <1>2 DEF ReplaceRaises, ReplaceResume, RestoreStop, RestoreCopy, RestorePrepare,
       RestoreStart, RestoreCheck, RestoreRaises, Escapes, Looks, Runs, Writes, At,
       DatabaseLabels
<1>3. CASE OptimizeStop(p) \/ OptimizeDirectory(p) \/ OptimizeSave(p) \/ StopRefused(p) \/
           MigrateStop(p) \/ MigrateSave(p) \/ MigrateRun(p) \/ MigrateFails(p)
  BY <1>3 DEF OptimizeStop, OptimizeDirectory, OptimizeSave, StopRefused, MigrateStop,
       MigrateSave, MigrateRun, MigrateFails, Looks, Returns, Runs, Writes, At, DatabaseLabels
<1>4. CASE BackupRaises(p) \/ Mutate(p)
  BY <1>4 DEF BackupRaises, Mutate, Escapes, Runs, At, DatabaseLabels
<1>5. QED BY <1>1, <1>2, <1>3, <1>4 DEF DatabaseStep

LEMMA CodexStepAt ==
  ASSUME NEW p \in Procs, CodexStep(p)
  PROVE  /\ proc[p].at \in ReconcileLabels \cup EnableLabels \cup {"disable"}
<1>1. CASE Disable(p) \/ ReconcileKeeps(p) \/ ReconcileRepairs(p) \/ ReconcileRaises(p) \/
           StageAside(p) \/ StageInstall(p) \/ StageInstallFails(p) \/ StagePrepare(p)
  BY <1>1 DEF Disable, ReconcileKeeps, ReconcileRepairs, ReconcileRaises, StageAside,
       StageInstall, StageInstallFails, StagePrepare, Changes, Looks, At, ReconcileLabels,
       EnableLabels
<1>2. CASE StagePrepareFails(p) \/ StageRaises(p) \/ StageFail(p) \/ FailOff(p) \/
           EnableStart(p) \/ EnableRefresh(p) \/ EnableReady(p) \/ EnableStatus(p)
  BY <1>2 DEF StagePrepareFails, StageRaises, StageFail, FailOff, EnableStart,
       EnableRefresh, EnableReady, EnableStatus, Changes, Looks, Runs, At, ReconcileLabels,
       EnableLabels
<1>3. CASE EnableRaises(p) \/ EnableOff(p) \/ EnableBack(p) \/ EnableFail(p) \/
           RepairRestart(p) \/ RepairStatus(p) \/ RepairRaises(p) \/ RepairBack(p)
  BY <1>3 DEF EnableRaises, EnableOff, EnableBack, EnableFail, RepairRestart, RepairStatus,
       RepairRaises, RepairBack, Changes, Looks, At, ReconcileLabels, EnableLabels
<1>4. CASE RepairAgain(p) \/ RepairFail(p) \/ CodexRaises(p)
  BY <1>4 DEF RepairAgain, RepairFail, CodexRaises, Changes, At, ReconcileLabels,
       EnableLabels
<1>5. QED BY <1>1, <1>2, <1>3, <1>4 DEF CodexStep

\* The steps of setup by the operation that takes them.
StagingStep(p) ==
  \/ StageRelease(p) \/ StageDatabase(p) \/ StageDomain(p) \/ StageService(p) \/ SetupRaises(p)

ActivationStep(p) ==
  \/ ActivateStage(p) \/ ActivateBackup(p) \/ ActivateSync(p) \/ ActivateStop(p)
  \/ ActivateRefresh(p) \/ ActivateLegacy(p) \/ ActivateSwitch(p) \/ ActivateFiles(p)
  \/ ActivateRestart(p) \/ ActivateCheck(p) \/ ActivatePublish(p) \/ ActivateReceipt(p)
  \/ ActivateRaises(p) \/ DeactivateStop(p) \/ DeactivateLink(p) \/ DeactivateFiles(p)
  \/ DeactivateStart(p) \/ DeactivateReceipt(p) \/ DeactivateRaises(p)

ConfigureStep(p) ==
  \/ ConfigureEnv(p) \/ ConfigureCaddy(p) \/ ConfigureRestart(p) \/ ConfigurePublish(p)
  \/ ConfigureFails(p) \/ ConfigureUndo(p) \/ ConfigureAgain(p) \/ ConfigureRaises(p)

UninstallStep(p) ==
  \/ UninstallLock(p) \/ UninstallRefused(p) \/ UninstallStop(p) \/ UninstallExport(p)
  \/ UninstallExportFails(p) \/ UninstallResume(p) \/ UninstallDisable(p) \/ UninstallRemove(p)
  \/ UninstallPurge(p) \/ UninstallRaises(p)

LEMMA SetupStepAt ==
  ASSUME NEW p \in Procs, SetupStep(p)
  PROVE  \/ StagingStep(p) /\ proc[p].at \in MenuSteps
         \/ ActivationStep(p) /\ proc[p].at \in ActivateLabels
         \/ ConfigureStep(p) /\ proc[p].at \in ConfigureLabels
         \/ UninstallStep(p) /\ proc[p].at \in UninstallLabels
<1>1. CASE \/ StageRelease(p) \/ StageDatabase(p) \/ StageDomain(p) \/ StageService(p)
           \/ SetupRaises(p)
  BY <1>1 DEF StagingStep, StageRelease, StageDatabase, StageDomain, StageService, SetupRaises,
     Returns, Escapes, Looks, Runs, Writes, At, MenuSteps
<1>2. CASE \/ ActivateStage(p) \/ ActivateBackup(p) \/ ActivateSync(p) \/ ActivateStop(p)
           \/ ActivateRefresh(p) \/ ActivateLegacy(p) \/ ActivateSwitch(p) \/ ActivateFiles(p)
  BY <1>2 DEF ActivationStep, ActivateStage, ActivateBackup, ActivateSync, ActivateStop,
     ActivateRefresh, ActivateLegacy, ActivateSwitch, ActivateFiles, Returns, Escapes, Looks,
     Runs, Writes, At, ActivateLabels
<1>3. CASE \/ ActivateRestart(p) \/ ActivateCheck(p) \/ ActivatePublish(p)
           \/ ActivateReceipt(p) \/ ActivateRaises(p) \/ DeactivateStop(p) \/ DeactivateLink(p)
           \/ DeactivateFiles(p)
  BY <1>3 DEF ActivationStep, ActivateRestart, ActivateCheck, ActivatePublish, ActivateReceipt,
     ActivateRaises, DeactivateStop, DeactivateLink, DeactivateFiles, Returns, Escapes,
     Looks, Runs, Writes, At, ActivateLabels
<1>4. CASE \/ DeactivateStart(p) \/ DeactivateReceipt(p) \/ DeactivateRaises(p)
  BY <1>4
     DEF ActivationStep, DeactivateStart, DeactivateReceipt, DeactivateRaises, Returns, Escapes,
     Looks, Runs, Writes, At, ActivateLabels
<1>5. CASE \/ ConfigureEnv(p) \/ ConfigureCaddy(p) \/ ConfigureRestart(p)
           \/ ConfigurePublish(p) \/ ConfigureFails(p) \/ ConfigureUndo(p) \/ ConfigureAgain(p)
           \/ ConfigureRaises(p)
  BY <1>5 DEF ConfigureStep, ConfigureEnv, ConfigureCaddy, ConfigureRestart, ConfigurePublish,
     ConfigureFails, ConfigureUndo, ConfigureAgain, ConfigureRaises, Returns, Escapes, Looks,
     Runs, Writes, At, ConfigureLabels
<1>6. CASE \/ UninstallLock(p) \/ UninstallRefused(p) \/ UninstallStop(p) \/ UninstallExport(p)
           \/ UninstallExportFails(p) \/ UninstallResume(p) \/ UninstallDisable(p)
           \/ UninstallRemove(p)
  BY <1>6 DEF UninstallStep, UninstallLock, UninstallRefused, UninstallStop, UninstallExport,
     UninstallExportFails, UninstallResume, UninstallDisable, UninstallRemove, Returns,
     Escapes, Looks, Runs, Writes, At, UninstallLabels
<1>7. CASE \/ UninstallPurge(p) \/ UninstallRaises(p)
  BY <1>7
     DEF UninstallStep, UninstallPurge, UninstallRaises, Returns, Escapes, Looks, Runs, Writes,
     At, UninstallLabels
<1>8. QED BY <1>1, <1>2, <1>3, <1>4, <1>5, <1>6, <1>7 DEF SetupStep

\* A step of release.py is taken on its legs, and what it takes at return is Return.
LEMMA ReleaseStepAt ==
  ASSUME NEW p \in Procs, ReleaseStep(p)
  PROVE  /\ proc[p].at \in UpdateLabels \cup RollbackLabels \cup {"return"}
         /\ proc[p].at = "return" => Return(p)
<1>1. CASE Unpack(p) \/ Environment(p) \/ EnvironmentFails(p) \/ Preflight(p) \/
           StopService(p) \/ SaveDatabase(p) \/ MigrateDatabase(p) \/ MigrationFails(p)
  BY <1>1 DEF Unpack, Environment, EnvironmentFails, Preflight, StopService, SaveDatabase,
       MigrateDatabase, MigrationFails, Writes, At, UpdateLabels, RollbackLabels, Looks
<1>2. CASE SwitchRelease(p) \/ StartService(p) \/ CheckService(p) \/ PublishInstallation(p) \/
           WriteReceipt(p) \/ Return(p) \/ BodyRaises(p) \/ UndoStop(p)
  BY <1>2 DEF SwitchRelease, StartService, CheckService, PublishInstallation, WriteReceipt,
       Return, BodyRaises, UndoStop, Guarded, Looks, Returns, Runs, Writes, At, UpdateLabels,
       RollbackLabels
<1>3. CASE UndoSwitch(p) \/ UndoUnlink(p) \/ UndoCopy(p) \/ UndoStart(p) \/
           UndoPublish(p) \/ UndoReceipt(p) \/ UndoRaises(p) \/ RollbackSave(p)
  BY <1>3 DEF UndoSwitch, UndoUnlink, UndoCopy, UndoStart, UndoPublish, UndoReceipt,
       UndoRaises, RollbackSave, Escapes, Runs, Writes, At, UpdateLabels, RollbackLabels,
       Looks
<1>4. CASE RollbackStop(p) \/ RollbackRefused(p) \/ RollbackSwitch(p) \/ RollbackUnlink(p) \/
           RollbackCopy(p) \/ RollbackStart(p) \/ RollbackCheck(p) \/ RollbackPublish(p)
  BY <1>4 DEF RollbackStop, RollbackRefused, RollbackSwitch, RollbackUnlink, RollbackCopy,
       RollbackStart, RollbackCheck, RollbackPublish, Looks, Returns, Runs, Writes, At,
       UpdateLabels, RollbackLabels
<1>5. CASE RollbackReceipt(p) \/ RollbackRaises(p) \/ ReturnStop(p) \/ ReturnSwitch(p) \/
           ReturnUnlink(p) \/ ReturnCopy(p) \/ ReturnStart(p) \/ ReturnPublish(p)
  BY <1>5 DEF RollbackReceipt, RollbackRaises, ReturnStop, ReturnSwitch, ReturnUnlink,
       ReturnCopy, ReturnStart, ReturnPublish, Looks, Runs, Writes, At, UpdateLabels,
       RollbackLabels
<1>6. CASE ReturnRaises(p)
  BY <1>6 DEF ReturnRaises, Escapes, At, UpdateLabels, RollbackLabels
<1>7. QED
  BY <1>1, <1>2, <1>3, <1>4, <1>5, <1>6 DEF ReleaseStep, ActivateStep, UndoStep,
     RollbackStep, ReturnStep

\* A step of the companion leaves the release, the files and the database alone.
LEMMA CodexStepGoes ==
  ASSUME TypeOK, Placed, NEW p \in Procs, CodexStep(p)
  PROVE  /\ disk' = disk
         /\ \/ Ends(p) /\ torn'
            \/ /\ \A f \in {"op", "link", "target", "inst", "new", "before", "published",
                            "copied",
                            "copy", "staged", "was"} : proc'[p][f] = proc[p][f]
               /\ \/ proc'[p].at \in ReconcileLabels \cup EnableLabels
                  \/ proc'[p].at = proc[p].ret
                  \/ proc'[p].at = "return" /\ proc[p].at \in EnableLabels \cup {"disable"}
<1>1. CASE Disable(p)
  BY <1>1, DisableDoes DEF Goes, Keeps, Fields, ReconcileLabels, EnableLabels
<1>2. CASE ReconcileKeeps(p)
  BY <1>2, ReconcileKeepsDoes DEF Goes, Keeps, Fields, ReconcileLabels, EnableLabels
<1>3. CASE ReconcileRepairs(p)
  BY <1>3, ReconcileRepairsDoes DEF Goes, Keeps, Fields, ReconcileLabels, EnableLabels
<1>4. CASE ReconcileRaises(p)
  BY <1>4, ReconcileRaisesDoes DEF Goes, Keeps, Fields, ReconcileLabels, EnableLabels
<1>5. CASE StageAside(p)
  BY <1>5, StageAsideDoes DEF Goes, Keeps, Fields, ReconcileLabels, EnableLabels
<1>6. CASE StageInstall(p)
  BY <1>6, StageInstallDoes DEF Goes, Keeps, Fields, ReconcileLabels, EnableLabels
<1>7. CASE StageInstallFails(p)
  BY <1>7, StageInstallFailsDoes DEF Goes, Keeps, Fields, ReconcileLabels, EnableLabels
<1>8. CASE StagePrepare(p)
  BY <1>8, StagePrepareDoes DEF Goes, Keeps, Fields, ReconcileLabels, EnableLabels
<1>9. CASE StagePrepareFails(p)
  BY <1>9, StagePrepareFailsDoes DEF Goes, Keeps, Fields, ReconcileLabels, EnableLabels
<1>10. CASE StageRaises(p)
  BY <1>10, StageRaisesDoes DEF Goes, Keeps, Fields, ReconcileLabels, EnableLabels
<1>11. CASE StageFail(p)
  BY <1>11, StageFailDoes DEF Goes, Keeps, Fields, ReconcileLabels, EnableLabels
<1>12. CASE FailOff(p)
  BY <1>12, FailOffDoes DEF Goes, Keeps, Fields, ReconcileLabels, EnableLabels
<1>13. CASE EnableStart(p)
  BY <1>13, EnableStartDoes DEF Goes, Keeps, Fields, ReconcileLabels, EnableLabels
<1>14. CASE EnableRefresh(p)
  BY <1>14, EnableRefreshDoes DEF Goes, Keeps, Fields, ReconcileLabels, EnableLabels
<1>15. CASE EnableReady(p)
  BY <1>15, EnableReadyDoes DEF Goes, Keeps, Fields, ReconcileLabels, EnableLabels
<1>16. CASE EnableStatus(p)
  BY <1>16, EnableStatusDoes DEF Goes, Keeps, Fields, ReconcileLabels, EnableLabels
<1>17. CASE EnableRaises(p)
  BY <1>17, EnableRaisesDoes DEF Goes, Keeps, Fields, ReconcileLabels, EnableLabels
<1>18. CASE EnableOff(p)
  BY <1>18, EnableOffDoes DEF Goes, Keeps, Fields, ReconcileLabels, EnableLabels
<1>19. CASE EnableBack(p)
  BY <1>19, EnableBackDoes DEF Goes, Keeps, Fields, ReconcileLabels, EnableLabels
<1>20. CASE EnableFail(p)
  BY <1>20, EnableFailDoes DEF Goes, Keeps, Fields, ReconcileLabels, EnableLabels
<1>21. CASE RepairRestart(p)
  BY <1>21, RepairRestartDoes DEF Goes, Keeps, Fields, ReconcileLabels, EnableLabels
<1>22. CASE RepairStatus(p)
  BY <1>22, RepairStatusDoes DEF Goes, Keeps, Fields, ReconcileLabels, EnableLabels
<1>23. CASE RepairRaises(p)
  BY <1>23, RepairRaisesDoes DEF Goes, Keeps, Fields, ReconcileLabels, EnableLabels
<1>24. CASE RepairBack(p)
  BY <1>24, RepairBackDoes DEF Goes, Keeps, Fields, ReconcileLabels, EnableLabels
<1>25. CASE RepairAgain(p)
  BY <1>25, RepairAgainDoes DEF Goes, Keeps, Fields, ReconcileLabels, EnableLabels
<1>26. CASE RepairFail(p)
  BY <1>26, RepairFailDoes DEF Goes, Keeps, Fields, ReconcileLabels, EnableLabels
<1>27. CASE CodexRaises(p) BY <1>27, CodexRaisesDoes DEF Goes, Keeps, Fields
<1>28. QED
  BY <1>1, <1>2, <1>3, <1>4, <1>5, <1>6, <1>7, <1>8, <1>9, <1>10, <1>11, <1>12, <1>13,
     <1>14, <1>15, <1>16, <1>17, <1>18, <1>19, <1>20, <1>21, <1>22, <1>23, <1>24, <1>25,
     <1>26, <1>27 DEF CodexStep

\* No step of an operation on the release takes a complete release away, the unit or a copy.
LEMMA ActivateStepStays ==
  ASSUME TypeOK, Placed, NEW p \in Procs, ActivateStep(p)
  PROVE  /\ \A r \in Releases : disk.dirs[r] = "ready" => disk'.dirs[r] = "ready"
         /\ disk'.unit = disk.unit /\ disk.backups \subseteq disk'.backups
<1>1. disk.dirs \in [Releases -> {"absent", "bare", "ready"}] BY DEF TypeOK, Disk
<1>2. CASE Unpack(p)
  <2>1. \A r \in Releases : disk.dirs[r] = "ready" => disk'.dirs[r] = "ready"
    BY <1>1, <1>2, TypesNow DEF Unpack, Disk
  <2>2. QED BY <1>2, <2>1, UnpackDoes DEF DiskKeeps, DiskFields
<1>3. CASE Environment(p) \/ EnvironmentFails(p)
  BY <1>1, <1>3, EnvironmentDoes, EnvironmentFailsDoes DEF DiskKeeps, DiskFields
<1>4. CASE Preflight(p) \/ StopService(p) \/ SaveDatabase(p) \/ MigrateDatabase(p) \/
             MigrationFails(p) \/ SwitchRelease(p) \/ StartService(p) \/ CheckService(p) \/
             PublishInstallation(p) \/ WriteReceipt(p) \/ Return(p) \/ BodyRaises(p)
  BY <1>4, PreflightDoes, StopServiceDoes, SaveDatabaseDoes, MigrateDatabaseDoes,
       MigrationFailsDoes, SwitchReleaseDoes, StartServiceDoes, CheckServiceDoes,
       PublishInstallationDoes, WriteReceiptDoes, ReturnDoes, BodyRaisesDoes DEF DiskKeeps,
       DiskFields
<1>5. QED BY <1>2, <1>3, <1>4 DEF ActivateStep

LEMMA UndoStepStays ==
  ASSUME TypeOK, Placed, NEW p \in Procs, UndoStep(p)
  PROVE  /\ disk'.dirs = disk.dirs /\ disk'.unit = disk.unit
         /\ disk.backups \subseteq disk'.backups
BY UndoStopDoes, UndoSwitchDoes, UndoUnlinkDoes, UndoCopyDoes, UndoStartDoes,
     UndoPublishDoes, UndoReceiptDoes, UndoRaisesDoes DEF DiskKeeps, DiskFields, UndoStep

LEMMA RollbackStepStays ==
  ASSUME TypeOK, Placed, NEW p \in Procs, RollbackStep(p)
  PROVE  /\ disk'.dirs = disk.dirs /\ disk'.unit = disk.unit
         /\ disk.backups \subseteq disk'.backups
BY RollbackSaveDoes, RollbackStopDoes, RollbackRefusedDoes, RollbackSwitchDoes,
     RollbackUnlinkDoes, RollbackCopyDoes, RollbackStartDoes, RollbackCheckDoes,
     RollbackPublishDoes, RollbackReceiptDoes, RollbackRaisesDoes DEF DiskKeeps, DiskFields,
     RollbackStep

LEMMA ReturnStepStays ==
  ASSUME TypeOK, Placed, NEW p \in Procs, ReturnStep(p)
  PROVE  /\ disk'.dirs = disk.dirs /\ disk'.unit = disk.unit
         /\ disk.backups \subseteq disk'.backups
BY ReturnStopDoes, ReturnSwitchDoes, ReturnUnlinkDoes, ReturnCopyDoes, ReturnStartDoes,
     ReturnPublishDoes, ReturnRaisesDoes DEF DiskKeeps, DiskFields, ReturnStep

\* The steps of an update or a deploy bring it one stage further, or end it with its outcome.
LEMMA ActivateStepStages ==
  ASSUME TypeOK, Placed, NEW p \in Procs, ActivateStep(p), Ready(p), Stage(proc[p])
  PROVE  (Ends(p) /\ (torn' \/ Outcome(proc[p]))) \/ (Stage(proc[p])' /\ ~Ends(p))
<1>0. /\ \A r \in Releases : disk.dirs[r] = "ready" => disk'.dirs[r] = "ready"
      /\ disk'.unit = disk.unit /\ disk.backups \subseteq disk'.backups
      /\ proc'[p] = Resting \/ Steady(p)
  BY ActivateStepStays, ActivateStepTyped DEF Moves
<1>1. CASE Unpack(p)
  <2>1. /\ proc[p].at = "unpack" /\ proc'[p].at = "environment" /\ proc'[p].op = proc[p].op
        /\ proc'[p].link = proc[p].link /\ proc'[p].target = proc[p].target
        /\ proc'[p].inst = proc[p].inst /\ proc'[p].new = proc[p].new
        /\ proc'[p].before = proc[p].before /\ proc'[p].published = proc[p].published
        /\ proc'[p].copy = proc[p].copy
        /\ proc'[p].copied = (disk.dirs[proc[p].target] = "absent") /\ disk'.link = disk.link
        /\ disk'.inst = disk.inst /\ disk'.db = disk.db /\ disk'.receipt = disk.receipt
        /\ disk'.backups = disk.backups /\ disk'.unit = disk.unit
    BY <1>1, UnpackDoes DEF DiskFields, DiskKeeps, Fields, Keeps
  <2>2. Stage(proc[p])'
    BY <2>1, <1>0, <1>1, UnpackDoes DEF Stage, OldLink, NewLink, OldInst, NewInst, Undoing,
       OldData, NewData, WithCopy, ReconcileLabels, SameData, GoodCopy
  <2>3. QED BY <2>1, <2>2, RestingIsPlaced DEF Ends
<1>2. CASE Environment(p)
  <2>1. /\ proc[p].at = "environment" /\ proc'[p].at = "preflight"
        /\ proc'[p].op = proc[p].op /\ proc'[p].link = proc[p].link
        /\ proc'[p].target = proc[p].target /\ proc'[p].inst = proc[p].inst
        /\ proc'[p].new = proc[p].new /\ proc'[p].before = proc[p].before
        /\ proc'[p].published = proc[p].published /\ proc'[p].copied = proc[p].copied
        /\ proc'[p].copy = proc[p].copy /\ disk'.link = disk.link /\ disk'.inst = disk.inst
        /\ disk'.db = disk.db /\ disk'.receipt = disk.receipt /\ disk'.backups = disk.backups
        /\ disk'.unit = disk.unit
        /\ disk'.dirs = [disk.dirs EXCEPT ![proc[p].target] = "ready"]
    BY <1>2, EnvironmentDoes DEF DiskFields, DiskKeeps, Fields, Goes, Keeps
  <2>2. \A r \in Releases : r = proc[p].target => disk'.dirs[r] = "ready"
    BY <2>1, TypesNow DEF TypeOK, Disk
  <2>3. Stage(proc[p])'
    BY <2>1, <1>0, <2>2 DEF Stage, OldLink, NewLink, OldInst, NewInst, Undoing, OldData,
       NewData, WithCopy, ReconcileLabels, SameData, GoodCopy
  <2>4. QED BY <2>1, <2>3, RestingIsPlaced DEF Ends
<1>3. CASE EnvironmentFails(p)
  <2>1. /\ Ends(p) /\ Kept(proc[p]) /\ disk'.link = disk.link /\ disk'.inst = disk.inst
        /\ disk'.db = disk.db /\ disk'.unit = disk.unit /\ disk'.receipt = disk.receipt
        /\ disk'.backups = disk.backups
    BY <1>3, EnvironmentFailsDoes DEF Stage, Kept, OldLink, OldInst, OldData, DiskKeeps,
       DiskFields
  <2>2. Outcome(proc[p]) BY <2>1 DEF Outcome, Kept, Done
  <2>3. QED BY <2>1, <2>2
<1>4. CASE Preflight(p)
  <2>1. /\ proc[p].at = "preflight" /\ proc'[p].at = "stop" /\ proc'[p].op = proc[p].op
        /\ proc'[p].link = proc[p].link /\ proc'[p].target = proc[p].target
        /\ proc'[p].inst = proc[p].inst /\ proc'[p].new = proc[p].new
        /\ proc'[p].before = proc[p].before /\ proc'[p].published = proc[p].published
        /\ proc'[p].copy = proc[p].copy /\ proc'[p].copied = FALSE /\ disk' = disk
    BY <1>4, PreflightDoes DEF Fields, Keeps
  <2>2. Stage(proc[p])'
    BY <2>1, <1>0, <1>4, PreflightDoes DEF Stage, OldLink, NewLink, OldInst, NewInst, Undoing,
       OldData, NewData, WithCopy, ReconcileLabels, SameData, GoodCopy
  <2>3. QED BY <2>1, <2>2, RestingIsPlaced DEF Ends
<1>5. CASE StopService(p)
  <2>1. /\ proc[p].at = "stop" /\ proc'[p].at = "save" /\ proc'[p].op = proc[p].op
        /\ proc'[p].link = proc[p].link /\ proc'[p].target = proc[p].target
        /\ proc'[p].inst = proc[p].inst /\ proc'[p].new = proc[p].new
        /\ proc'[p].before = proc[p].before /\ proc'[p].published = proc[p].published
        /\ proc'[p].copied = proc[p].copied /\ proc'[p].copy = proc[p].copy /\ disk' = disk
    BY <1>5, StopServiceDoes DEF Fields, Keeps
  <2>2. Stage(proc[p])'
    BY <2>1, <1>0, <1>5, StopServiceDoes DEF Stage, OldLink, NewLink, OldInst, NewInst,
       Undoing, OldData, NewData, WithCopy, ReconcileLabels, SameData, GoodCopy
  <2>3. QED BY <2>1, <2>2, RestingIsPlaced DEF Ends
<1>6. CASE SaveDatabase(p)
  <2>1. /\ proc[p].at = "save" /\ proc'[p].at = "migrate" /\ proc'[p].op = proc[p].op
        /\ proc'[p].link = proc[p].link /\ proc'[p].target = proc[p].target
        /\ proc'[p].inst = proc[p].inst /\ proc'[p].new = proc[p].new
        /\ proc'[p].before = proc[p].before /\ proc'[p].published = proc[p].published
        /\ proc'[p].copy = disk.db /\ proc'[p].copied = TRUE /\ disk'.link = disk.link
        /\ disk'.inst = disk.inst /\ disk'.db = disk.db /\ disk'.receipt = disk.receipt
        /\ disk'.dirs = disk.dirs /\ disk'.unit = disk.unit
        /\ disk'.backups = disk.backups \cup {disk.db}
    BY <1>6, SaveDatabaseDoes DEF DiskFields, DiskKeeps, Fields, Keeps
  <2>2. Stage(proc[p])'
    BY <2>1, <1>0, <1>6, SaveDatabaseDoes DEF Stage, OldLink, NewLink, OldInst, NewInst,
       Undoing, OldData, NewData, WithCopy, ReconcileLabels, SameData, GoodCopy
  <2>3. QED BY <2>1, <2>2, RestingIsPlaced DEF Ends
<1>7. CASE MigrateDatabase(p)
  <2>1. /\ proc[p].at = "migrate" /\ proc'[p].at = "switch" /\ proc'[p].op = proc[p].op
        /\ proc'[p].link = proc[p].link /\ proc'[p].target = proc[p].target
        /\ proc'[p].inst = proc[p].inst /\ proc'[p].new = proc[p].new
        /\ proc'[p].before = proc[p].before /\ proc'[p].published = proc[p].published
        /\ proc'[p].copied = proc[p].copied /\ proc'[p].copy = proc[p].copy
        /\ disk'.link = disk.link /\ disk'.inst = disk.inst /\ disk'.receipt = disk.receipt
        /\ disk'.backups = disk.backups /\ disk'.dirs = disk.dirs /\ disk'.unit = disk.unit
        /\ disk'.db = Migrated(disk.db, proc[p].target)
    BY <1>7, MigrateDatabaseDoes DEF DiskFields, DiskKeeps, Fields, Goes, Keeps
  <2>2. Stage(proc[p])'
    BY <2>1, <1>0 DEF Stage, OldLink, NewLink, OldInst, NewInst, Undoing, OldData, NewData,
       WithCopy, ReconcileLabels, SameData, GoodCopy
  <2>3. QED BY <2>1, <2>2, RestingIsPlaced DEF Ends
<1>8. CASE MigrationFails(p)
  <2>1. /\ proc[p].at = "migrate" /\ proc'[p].at = "undo.stop" /\ proc'[p].op = proc[p].op
        /\ proc'[p].link = proc[p].link /\ proc'[p].target = proc[p].target
        /\ proc'[p].inst = proc[p].inst /\ proc'[p].new = proc[p].new
        /\ proc'[p].before = proc[p].before /\ proc'[p].published = proc[p].published
        /\ proc'[p].copied = proc[p].copied /\ proc'[p].copy = proc[p].copy
        /\ disk'.link = disk.link /\ disk'.inst = disk.inst /\ disk'.receipt = disk.receipt
        /\ disk'.backups = disk.backups /\ disk'.dirs = disk.dirs /\ disk'.unit = disk.unit
        /\ disk'.db = Migrated(disk.db, proc[p].target)
    BY <1>8, MigrationFailsDoes DEF DiskFields, DiskKeeps, Fields, Goes, Keeps
  <2>2. proc[p].op # "rollback" BY <2>1 DEF Placed, Path, UpdateLabels
  <2>3. Stage(proc[p])'
    BY <2>1, <1>0, <2>2 DEF Stage, OldLink, NewLink, OldInst, NewInst, Undoing, OldData,
       NewData, WithCopy, ReconcileLabels, SameData, GoodCopy
  <2>4. QED BY <2>1, <2>3, RestingIsPlaced DEF Ends
<1>9. CASE SwitchRelease(p)
  <2>1. /\ proc[p].at = "switch" /\ proc'[p].at = "start" /\ proc'[p].op = proc[p].op
        /\ proc'[p].link = proc[p].link /\ proc'[p].target = proc[p].target
        /\ proc'[p].inst = proc[p].inst /\ proc'[p].new = proc[p].new
        /\ proc'[p].before = proc[p].before /\ proc'[p].published = proc[p].published
        /\ proc'[p].copied = proc[p].copied /\ proc'[p].copy = proc[p].copy
        /\ disk'.inst = disk.inst /\ disk'.db = disk.db /\ disk'.receipt = disk.receipt
        /\ disk'.backups = disk.backups /\ disk'.dirs = disk.dirs /\ disk'.unit = disk.unit
        /\ disk'.link = proc[p].target
    BY <1>9, SwitchReleaseDoes DEF DiskFields, DiskKeeps, Fields, Goes, Keeps
  <2>2. Stage(proc[p])'
    BY <2>1, <1>0 DEF Stage, OldLink, NewLink, OldInst, NewInst, Undoing, OldData, NewData,
       WithCopy, ReconcileLabels, SameData, GoodCopy
  <2>3. QED BY <2>1, <2>2, RestingIsPlaced DEF Ends
<1>10. CASE StartService(p)
  <2>1. /\ proc[p].at = "start" /\ proc'[p].at = "check" /\ proc'[p].op = proc[p].op
        /\ proc'[p].link = proc[p].link /\ proc'[p].target = proc[p].target
        /\ proc'[p].inst = proc[p].inst /\ proc'[p].new = proc[p].new
        /\ proc'[p].before = proc[p].before /\ proc'[p].published = proc[p].published
        /\ proc'[p].copied = proc[p].copied /\ proc'[p].copy = proc[p].copy /\ disk' = disk
    BY <1>10, StartServiceDoes DEF Fields, Goes, Keeps
  <2>2. Stage(proc[p])'
    BY <2>1, <1>0, <1>10, StartServiceDoes DEF Stage, OldLink, NewLink, OldInst, NewInst,
       Undoing, OldData, NewData, WithCopy, ReconcileLabels, SameData, GoodCopy,
       Starting, Fits
  <2>3. QED BY <2>1, <2>2, RestingIsPlaced DEF Ends
<1>11. CASE CheckService(p)
  <2>1. /\ proc[p].at = "check" /\ proc'[p].at = "publish" /\ proc'[p].op = proc[p].op
        /\ proc'[p].link = proc[p].link /\ proc'[p].target = proc[p].target
        /\ proc'[p].inst = proc[p].inst /\ proc'[p].new = proc[p].new
        /\ proc'[p].before = proc[p].before /\ proc'[p].published = proc[p].published
        /\ proc'[p].copied = proc[p].copied /\ proc'[p].copy = proc[p].copy /\ disk' = disk
    BY <1>11, CheckServiceDoes DEF Fields, Goes, Keeps
  <2>2. Stage(proc[p])'
    BY <2>1, <1>0, <1>11, CheckServiceDoes DEF Stage, OldLink, NewLink, OldInst, NewInst,
       Undoing, OldData, NewData, WithCopy, ReconcileLabels, SameData, GoodCopy
  <2>3. QED BY <2>1, <2>2, RestingIsPlaced DEF Ends
<1>12. CASE PublishInstallation(p)
  <2>1. /\ proc[p].at = "publish" /\ proc'[p].at = "codex.read" /\ proc'[p].op = proc[p].op
        /\ proc'[p].link = proc[p].link /\ proc'[p].target = proc[p].target
        /\ proc'[p].inst = proc[p].inst /\ proc'[p].new = proc[p].new
        /\ proc'[p].before = proc[p].before /\ proc'[p].copied = proc[p].copied
        /\ proc'[p].copy = proc[p].copy /\ proc'[p].published = TRUE
        /\ disk'.link = disk.link /\ disk'.db = disk.db /\ disk'.receipt = disk.receipt
        /\ disk'.backups = disk.backups /\ disk'.dirs = disk.dirs /\ disk'.unit = disk.unit
        /\ disk'.inst = proc[p].new
    <3>1. /\ proc'[p].op = proc[p].op /\ proc'[p].link = proc[p].link
          /\ proc'[p].target = proc[p].target /\ proc'[p].inst = proc[p].inst
          /\ proc'[p].new = proc[p].new /\ proc'[p].before = proc[p].before
          /\ proc'[p].copied = proc[p].copied /\ proc'[p].copy = proc[p].copy
      BY <1>12, PublishInstallationDoes DEF Fields, Keeps
    <3>2. /\ disk'.link = disk.link /\ disk'.db = disk.db /\ disk'.receipt = disk.receipt
          /\ disk'.backups = disk.backups /\ disk'.dirs = disk.dirs
          /\ disk'.unit = disk.unit
      BY <1>12, PublishInstallationDoes DEF DiskFields, DiskKeeps
    <3>3. QED BY <1>12, <3>1, <3>2, PublishInstallationDoes
  <2>2. Stage(proc[p])'
    BY <2>1, <1>0, <1>12, PublishInstallationDoes DEF Stage, OldLink, NewLink, OldInst,
       NewInst, Undoing, OldData, NewData, WithCopy, ReconcileLabels, SameData,
       GoodCopy
  <2>3. QED BY <2>1, <2>2, RestingIsPlaced DEF Ends
<1>13. CASE WriteReceipt(p)
  <2>1. /\ proc[p].at = "receipt" /\ proc'[p].at = "return" /\ proc'[p].op = proc[p].op
        /\ proc'[p].link = proc[p].link /\ proc'[p].target = proc[p].target
        /\ proc'[p].inst = proc[p].inst /\ proc'[p].new = proc[p].new
        /\ proc'[p].before = proc[p].before /\ proc'[p].published = proc[p].published
        /\ proc'[p].copied = proc[p].copied /\ proc'[p].copy = proc[p].copy
        /\ disk'.link = disk.link /\ disk'.inst = disk.inst /\ disk'.db = disk.db
        /\ disk'.backups = disk.backups /\ disk'.dirs = disk.dirs /\ disk'.unit = disk.unit
        /\ disk'.receipt = Completed(p)
    BY <1>13, WriteReceiptDoes DEF DiskFields, DiskKeeps, Fields, Goes, Keeps
  <2>2. Stage(proc[p])'
    BY <2>1, <1>0 DEF Stage, OldLink, NewLink, OldInst, NewInst, Undoing, OldData, NewData,
       WithCopy, ReconcileLabels, SameData, GoodCopy, Kept, Done
  <2>3. QED BY <2>1, <2>2, RestingIsPlaced DEF Ends
<1>14. CASE Return(p)
  <2>1. Ends(p) /\ disk' = disk /\ (Kept(proc[p]) \/ Done(proc[p]))
    BY <1>14, ReturnDoes DEF Stage, Kept, OldLink, OldInst, OldData, Done
  <2>2. Outcome(proc[p]) BY <2>1 DEF Outcome, Kept, Done
  <2>3. QED BY <2>1, <2>2
<1>15. CASE BodyRaises(p)
  <2>1. /\ \/ proc[p].at \in Guarded /\ proc'[p].at = "undo.stop"
           \/ proc[p].at \in {"preflight", "stop"} /\ proc'[p].at = "undo.receipt"
        /\ proc'[p].op = proc[p].op /\ proc'[p].link = proc[p].link
        /\ proc'[p].target = proc[p].target /\ proc'[p].inst = proc[p].inst
        /\ proc'[p].new = proc[p].new /\ proc'[p].before = proc[p].before
        /\ proc'[p].published = proc[p].published /\ proc'[p].copied = proc[p].copied
        /\ proc'[p].copy = proc[p].copy /\ disk' = disk
    BY <1>15, BodyRaisesDoes DEF Fields, Goes, Keeps
  <2>2. proc[p].op # "rollback" /\ (proc[p].at \in {"stop", "save"} => ~proc[p].copied)
    BY <2>1 DEF Placed, Path, UpdateLabels, Ready, Flags, Guarded
  <2>3. Stage(proc[p])'
    BY <2>1, <1>0, <2>2 DEF Stage, OldLink, NewLink, OldInst, NewInst, Undoing, OldData,
       NewData, WithCopy, ReconcileLabels, SameData, GoodCopy, Guarded
  <2>4. QED BY <2>1, <2>3, RestingIsPlaced DEF Ends
<1>16. QED
  BY <1>1, <1>2, <1>3, <1>4, <1>5, <1>6, <1>7, <1>8, <1>9, <1>10, <1>11, <1>12, <1>13,
     <1>14, <1>15 DEF ActivateStep

\* So do the steps of their way back.
LEMMA UndoStepStages ==
  ASSUME TypeOK, Placed, NEW p \in Procs, UndoStep(p), Ready(p), Stage(proc[p])
  PROVE  (Ends(p) /\ (torn' \/ Outcome(proc[p]))) \/ (Stage(proc[p])' /\ ~Ends(p))
<1>0. /\ \A r \in Releases : disk.dirs[r] = "ready" => disk'.dirs[r] = "ready"
      /\ disk'.unit = disk.unit /\ disk.backups \subseteq disk'.backups
      /\ proc'[p] = Resting \/ Steady(p)
  BY UndoStepStays, UndoStepTyped DEF Moves
<1>1. CASE UndoStop(p)
  <2>1. /\ proc[p].at = "undo.stop" /\ proc'[p].at = "undo.switch"
        /\ proc'[p].op = proc[p].op /\ proc'[p].link = proc[p].link
        /\ proc'[p].target = proc[p].target /\ proc'[p].inst = proc[p].inst
        /\ proc'[p].new = proc[p].new /\ proc'[p].before = proc[p].before
        /\ proc'[p].published = proc[p].published /\ proc'[p].copied = proc[p].copied
        /\ proc'[p].copy = proc[p].copy /\ disk' = disk
    BY <1>1, UndoStopDoes DEF Fields, Goes, Keeps
  <2>2. Stage(proc[p])'
    BY <2>1, <1>0 DEF Stage, OldLink, NewLink, OldInst, NewInst, Undoing, OldData, NewData,
       WithCopy, ReconcileLabels, SameData, GoodCopy
  <2>3. QED BY <2>1, <2>2, RestingIsPlaced DEF Ends
<1>2. CASE UndoSwitch(p)
  <2>1. /\ proc[p].at = "undo.switch"
        /\ proc'[p].at = IF proc[p].copied THEN "undo.unlink" ELSE "undo.start"
        /\ proc'[p].op = proc[p].op /\ proc'[p].link = proc[p].link
        /\ proc'[p].target = proc[p].target /\ proc'[p].inst = proc[p].inst
        /\ proc'[p].new = proc[p].new /\ proc'[p].before = proc[p].before
        /\ proc'[p].published = proc[p].published /\ proc'[p].copied = proc[p].copied
        /\ proc'[p].copy = proc[p].copy /\ disk'.inst = disk.inst /\ disk'.db = disk.db
        /\ disk'.receipt = disk.receipt /\ disk'.backups = disk.backups
        /\ disk'.dirs = disk.dirs /\ disk'.unit = disk.unit /\ disk'.link = proc[p].link
    BY <1>2, UndoSwitchDoes DEF DiskFields, DiskKeeps, Fields, Goes, Keeps
  <2>2. Stage(proc[p])'
    BY <2>1, <1>0 DEF Stage, OldLink, NewLink, OldInst, NewInst, Undoing, OldData, NewData,
       WithCopy, ReconcileLabels, SameData, GoodCopy
  <2>3. QED BY <2>1, <2>2, RestingIsPlaced DEF Ends
<1>3. CASE UndoUnlink(p)
  <2>1. /\ proc[p].at = "undo.unlink" /\ proc'[p].at = "undo.copy"
        /\ proc'[p].op = proc[p].op /\ proc'[p].link = proc[p].link
        /\ proc'[p].target = proc[p].target /\ proc'[p].inst = proc[p].inst
        /\ proc'[p].new = proc[p].new /\ proc'[p].before = proc[p].before
        /\ proc'[p].published = proc[p].published /\ proc'[p].copied = proc[p].copied
        /\ proc'[p].copy = proc[p].copy /\ disk'.link = disk.link /\ disk'.inst = disk.inst
        /\ disk'.receipt = disk.receipt /\ disk'.backups = disk.backups
        /\ disk'.dirs = disk.dirs /\ disk'.unit = disk.unit /\ disk'.db = NoDatabase
    BY <1>3, UndoUnlinkDoes DEF DiskFields, DiskKeeps, Fields, Goes, Keeps
  <2>2. Stage(proc[p])'
    BY <2>1, <1>0 DEF Stage, OldLink, NewLink, OldInst, NewInst, Undoing, OldData, NewData,
       WithCopy, ReconcileLabels, SameData, GoodCopy
  <2>3. QED BY <2>1, <2>2, RestingIsPlaced DEF Ends
<1>4. CASE UndoCopy(p)
  <2>1. /\ proc[p].at = "undo.copy" /\ proc'[p].at = "undo.start" /\ proc'[p].op = proc[p].op
        /\ proc'[p].link = proc[p].link /\ proc'[p].target = proc[p].target
        /\ proc'[p].inst = proc[p].inst /\ proc'[p].new = proc[p].new
        /\ proc'[p].before = proc[p].before /\ proc'[p].published = proc[p].published
        /\ proc'[p].copied = proc[p].copied /\ proc'[p].copy = proc[p].copy
        /\ disk'.link = disk.link /\ disk'.inst = disk.inst /\ disk'.receipt = disk.receipt
        /\ disk'.backups = disk.backups /\ disk'.dirs = disk.dirs /\ disk'.unit = disk.unit
        /\ disk'.db = proc[p].copy
    BY <1>4, UndoCopyDoes DEF DiskFields, DiskKeeps, Fields, Goes, Keeps
  <2>2. Stage(proc[p])'
    BY <2>1, <1>0 DEF Stage, OldLink, NewLink, OldInst, NewInst, Undoing, OldData, NewData,
       WithCopy, ReconcileLabels, SameData, GoodCopy
  <2>3. QED BY <2>1, <2>2, RestingIsPlaced DEF Ends
<1>5. CASE UndoStart(p)
  <2>1. /\ proc[p].at = "undo.start" /\ proc'[p].at = "undo.publish"
        /\ proc'[p].op = proc[p].op /\ proc'[p].link = proc[p].link
        /\ proc'[p].target = proc[p].target /\ proc'[p].inst = proc[p].inst
        /\ proc'[p].new = proc[p].new /\ proc'[p].before = proc[p].before
        /\ proc'[p].published = proc[p].published /\ proc'[p].copied = proc[p].copied
        /\ proc'[p].copy = proc[p].copy /\ disk' = disk
    BY <1>5, UndoStartDoes DEF Fields, Goes, Keeps
  <2>2. Stage(proc[p])'
    BY <2>1, <1>0, <1>5, UndoStartDoes DEF Stage, OldLink, NewLink, OldInst, NewInst, Undoing,
       OldData, NewData, WithCopy, ReconcileLabels, SameData, GoodCopy, Starting,
       Fits
  <2>3. QED BY <2>1, <2>2, RestingIsPlaced DEF Ends
<1>6. CASE UndoPublish(p)
  <2>1. /\ proc[p].at = "undo.publish" /\ proc'[p].at = "undo.receipt"
        /\ proc'[p].op = proc[p].op /\ proc'[p].link = proc[p].link
        /\ proc'[p].target = proc[p].target /\ proc'[p].inst = proc[p].inst
        /\ proc'[p].new = proc[p].new /\ proc'[p].before = proc[p].before
        /\ proc'[p].published = proc[p].published /\ proc'[p].copied = proc[p].copied
        /\ proc'[p].copy = proc[p].copy /\ disk'.link = disk.link /\ disk'.db = disk.db
        /\ disk'.receipt = disk.receipt /\ disk'.backups = disk.backups
        /\ disk'.dirs = disk.dirs /\ disk'.unit = disk.unit
        /\ disk'.inst = IF proc[p].published THEN proc[p].inst ELSE disk.inst
    BY <1>6, UndoPublishDoes DEF DiskFields, DiskKeeps, Fields, Goes, Keeps
  <2>2. Stage(proc[p])'
    BY <2>1, <1>0 DEF Stage, OldLink, NewLink, OldInst, NewInst, Undoing, OldData, NewData,
       WithCopy, ReconcileLabels, SameData, GoodCopy
  <2>3. QED BY <2>1, <2>2, RestingIsPlaced DEF Ends
<1>7. CASE UndoReceipt(p)
  <2>1. /\ proc[p].at = "undo.receipt" /\ proc'[p].at = "return" /\ proc'[p].op = proc[p].op
        /\ proc'[p].link = proc[p].link /\ proc'[p].target = proc[p].target
        /\ proc'[p].inst = proc[p].inst /\ proc'[p].new = proc[p].new
        /\ proc'[p].before = proc[p].before /\ proc'[p].published = proc[p].published
        /\ proc'[p].copied = proc[p].copied /\ proc'[p].copy = proc[p].copy
        /\ disk'.link = disk.link /\ disk'.inst = disk.inst /\ disk'.db = disk.db
        /\ disk'.backups = disk.backups /\ disk'.dirs = disk.dirs /\ disk'.unit = disk.unit
        /\ disk'.receipt.state \in {"failed", "failed_rolled_back"}
    BY <1>7, UndoReceiptDoes DEF DiskFields, DiskKeeps, Fields, Goes, Keeps
  <2>2. Stage(proc[p])'
    BY <2>1, <1>0 DEF Stage, OldLink, NewLink, OldInst, NewInst, Undoing, OldData, NewData,
       WithCopy, ReconcileLabels, SameData, GoodCopy, Kept
  <2>3. QED BY <2>1, <2>2, RestingIsPlaced DEF Ends
<1>8. CASE UndoRaises(p) BY <1>8, UndoRaisesDoes
<1>9. QED BY <1>1, <1>2, <1>3, <1>4, <1>5, <1>6, <1>7, <1>8 DEF UndoStep

\* So do the steps of a rollback.
LEMMA RollbackStepStages ==
  ASSUME TypeOK, Placed, NEW p \in Procs, RollbackStep(p), Ready(p), Stage(proc[p])
  PROVE  (Ends(p) /\ (torn' \/ Outcome(proc[p]))) \/ (Stage(proc[p])' /\ ~Ends(p))
<1>0. /\ \A r \in Releases : disk.dirs[r] = "ready" => disk'.dirs[r] = "ready"
      /\ disk'.unit = disk.unit /\ disk.backups \subseteq disk'.backups
      /\ proc'[p] = Resting \/ Steady(p)
  BY RollbackStepStays, RollbackStepTyped DEF Moves
<1>1. CASE RollbackSave(p)
  <2>1. /\ proc[p].at = "rollback.save" /\ proc'[p].at = "rollback.stop"
        /\ proc'[p].op = proc[p].op /\ proc'[p].link = proc[p].link
        /\ proc'[p].target = proc[p].target /\ proc'[p].inst = proc[p].inst
        /\ proc'[p].new = proc[p].new /\ proc'[p].before = proc[p].before
        /\ proc'[p].published = proc[p].published /\ proc'[p].copied = proc[p].copied
        /\ proc'[p].copy = disk.db /\ disk'.link = disk.link /\ disk'.inst = disk.inst
        /\ disk'.db = disk.db /\ disk'.receipt = disk.receipt /\ disk'.dirs = disk.dirs
        /\ disk'.unit = disk.unit /\ disk'.backups = disk.backups \cup {disk.db}
    BY <1>1, RollbackSaveDoes DEF DiskFields, DiskKeeps, Fields, Keeps
  <2>2. proc[p].op = "rollback" BY <2>1 DEF Placed, Path, RollbackLabels
  <2>3. Stage(proc[p])'
    BY <2>1, <1>0, <2>2, <1>1, RollbackSaveDoes DEF Stage, OldLink, NewLink, OldInst, NewInst,
       Undoing, OldData, NewData, WithCopy, ReconcileLabels, SameData, GoodCopy
  <2>4. QED BY <2>1, <2>3, RestingIsPlaced DEF Ends
<1>2. CASE RollbackStop(p)
  <2>1. /\ proc[p].at = "rollback.stop" /\ proc'[p].at = "rollback.switch"
        /\ proc'[p].op = proc[p].op /\ proc'[p].link = proc[p].link
        /\ proc'[p].target = proc[p].target /\ proc'[p].inst = proc[p].inst
        /\ proc'[p].new = proc[p].new /\ proc'[p].before = proc[p].before
        /\ proc'[p].published = proc[p].published /\ proc'[p].copied = proc[p].copied
        /\ proc'[p].copy = proc[p].copy /\ disk' = disk
    BY <1>2, RollbackStopDoes DEF Fields, Goes, Keeps
  <2>2. Stage(proc[p])'
    BY <2>1, <1>0 DEF Stage, OldLink, NewLink, OldInst, NewInst, Undoing, OldData, NewData,
       WithCopy, ReconcileLabels, SameData, GoodCopy
  <2>3. QED BY <2>1, <2>2, RestingIsPlaced DEF Ends
<1>3. CASE RollbackRefused(p)
  <2>1. Ends(p) /\ disk' = disk /\ (Kept(proc[p]) \/ Done(proc[p]))
    BY <1>3, RollbackRefusedDoes DEF Stage, Kept, OldLink, OldInst, OldData, Done
  <2>2. Outcome(proc[p]) BY <2>1 DEF Outcome, Kept, Done
  <2>3. QED BY <2>1, <2>2
<1>4. CASE RollbackSwitch(p)
  <2>1. /\ proc[p].at = "rollback.switch" /\ proc'[p].at = "rollback.unlink"
        /\ proc'[p].op = proc[p].op /\ proc'[p].link = proc[p].link
        /\ proc'[p].target = proc[p].target /\ proc'[p].inst = proc[p].inst
        /\ proc'[p].new = proc[p].new /\ proc'[p].before = proc[p].before
        /\ proc'[p].published = proc[p].published /\ proc'[p].copied = proc[p].copied
        /\ proc'[p].copy = proc[p].copy /\ disk'.inst = disk.inst /\ disk'.db = disk.db
        /\ disk'.receipt = disk.receipt /\ disk'.backups = disk.backups
        /\ disk'.dirs = disk.dirs /\ disk'.unit = disk.unit /\ disk'.link = proc[p].target
    BY <1>4, RollbackSwitchDoes DEF DiskFields, DiskKeeps, Fields, Goes, Keeps
  <2>2. Stage(proc[p])'
    BY <2>1, <1>0 DEF Stage, OldLink, NewLink, OldInst, NewInst, Undoing, OldData, NewData,
       WithCopy, ReconcileLabels, SameData, GoodCopy
  <2>3. QED BY <2>1, <2>2, RestingIsPlaced DEF Ends
<1>5. CASE RollbackUnlink(p)
  <2>1. /\ proc[p].at = "rollback.unlink" /\ proc'[p].at = "rollback.copy"
        /\ proc'[p].op = proc[p].op /\ proc'[p].link = proc[p].link
        /\ proc'[p].target = proc[p].target /\ proc'[p].inst = proc[p].inst
        /\ proc'[p].new = proc[p].new /\ proc'[p].before = proc[p].before
        /\ proc'[p].published = proc[p].published /\ proc'[p].copied = proc[p].copied
        /\ proc'[p].copy = proc[p].copy /\ disk'.link = disk.link /\ disk'.inst = disk.inst
        /\ disk'.receipt = disk.receipt /\ disk'.backups = disk.backups
        /\ disk'.dirs = disk.dirs /\ disk'.unit = disk.unit /\ disk'.db = NoDatabase
    BY <1>5, RollbackUnlinkDoes DEF DiskFields, DiskKeeps, Fields, Goes, Keeps
  <2>2. Stage(proc[p])'
    BY <2>1, <1>0 DEF Stage, OldLink, NewLink, OldInst, NewInst, Undoing, OldData, NewData,
       WithCopy, ReconcileLabels, SameData, GoodCopy
  <2>3. QED BY <2>1, <2>2, RestingIsPlaced DEF Ends
<1>6. CASE RollbackCopy(p)
  <2>1. /\ proc[p].at = "rollback.copy" /\ proc'[p].at = "rollback.start"
        /\ proc'[p].op = proc[p].op /\ proc'[p].link = proc[p].link
        /\ proc'[p].target = proc[p].target /\ proc'[p].inst = proc[p].inst
        /\ proc'[p].new = proc[p].new /\ proc'[p].before = proc[p].before
        /\ proc'[p].published = proc[p].published /\ proc'[p].copied = proc[p].copied
        /\ proc'[p].copy = proc[p].copy /\ disk'.link = disk.link /\ disk'.inst = disk.inst
        /\ disk'.receipt = disk.receipt /\ disk'.backups = disk.backups
        /\ disk'.dirs = disk.dirs /\ disk'.unit = disk.unit /\ disk'.db = proc[p].staged
    BY <1>6, RollbackCopyDoes DEF DiskFields, DiskKeeps, Fields, Goes, Keeps
  <2>2. Stage(proc[p])'
    BY <2>1, <1>0 DEF Stage, OldLink, NewLink, OldInst, NewInst, Undoing, OldData, NewData,
       WithCopy, ReconcileLabels, SameData, GoodCopy
  <2>3. QED BY <2>1, <2>2, RestingIsPlaced DEF Ends
<1>7. CASE RollbackStart(p)
  <2>1. /\ proc[p].at = "rollback.start" /\ proc'[p].at = "rollback.check"
        /\ proc'[p].op = proc[p].op /\ proc'[p].link = proc[p].link
        /\ proc'[p].target = proc[p].target /\ proc'[p].inst = proc[p].inst
        /\ proc'[p].new = proc[p].new /\ proc'[p].before = proc[p].before
        /\ proc'[p].published = proc[p].published /\ proc'[p].copied = proc[p].copied
        /\ proc'[p].copy = proc[p].copy /\ disk' = disk
    BY <1>7, RollbackStartDoes DEF Fields, Goes, Keeps
  <2>2. Stage(proc[p])'
    BY <2>1, <1>0, <1>7, RollbackStartDoes DEF Stage, OldLink, NewLink, OldInst, NewInst,
       Undoing, OldData, NewData, WithCopy, ReconcileLabels, SameData, GoodCopy,
       Starting, Fits
  <2>3. QED BY <2>1, <2>2, RestingIsPlaced DEF Ends
<1>8. CASE RollbackCheck(p)
  <2>1. /\ proc[p].at = "rollback.check" /\ proc'[p].at = "rollback.publish"
        /\ proc'[p].op = proc[p].op /\ proc'[p].link = proc[p].link
        /\ proc'[p].target = proc[p].target /\ proc'[p].inst = proc[p].inst
        /\ proc'[p].new = proc[p].new /\ proc'[p].before = proc[p].before
        /\ proc'[p].published = proc[p].published /\ proc'[p].copied = proc[p].copied
        /\ proc'[p].copy = proc[p].copy /\ disk' = disk
    BY <1>8, RollbackCheckDoes DEF Fields, Goes, Keeps
  <2>2. Stage(proc[p])'
    BY <2>1, <1>0, <1>8, RollbackCheckDoes DEF Stage, OldLink, NewLink, OldInst, NewInst,
       Undoing, OldData, NewData, WithCopy, ReconcileLabels, SameData, GoodCopy
  <2>3. QED BY <2>1, <2>2, RestingIsPlaced DEF Ends
<1>9. CASE RollbackPublish(p)
  <2>1. /\ proc[p].at = "rollback.publish" /\ proc'[p].at = "codex.read"
        /\ proc'[p].op = proc[p].op /\ proc'[p].link = proc[p].link
        /\ proc'[p].target = proc[p].target /\ proc'[p].inst = proc[p].inst
        /\ proc'[p].new = proc[p].new /\ proc'[p].before = proc[p].before
        /\ proc'[p].published = proc[p].published /\ proc'[p].copied = proc[p].copied
        /\ proc'[p].copy = proc[p].copy /\ disk'.link = disk.link /\ disk'.db = disk.db
        /\ disk'.receipt = disk.receipt /\ disk'.backups = disk.backups
        /\ disk'.dirs = disk.dirs /\ disk'.unit = disk.unit /\ disk'.inst = proc[p].new
    BY <1>9, RollbackPublishDoes DEF DiskFields, DiskKeeps, Fields, Keeps
  <2>2. proc[p].op = "rollback" BY <2>1 DEF Placed, Path, RollbackLabels
  <2>3. Stage(proc[p])'
    BY <2>1, <1>0, <2>2, <1>9, RollbackPublishDoes DEF Stage, OldLink, NewLink, OldInst,
       NewInst, Undoing, OldData, NewData, WithCopy, ReconcileLabels, SameData,
       GoodCopy
  <2>4. QED BY <2>1, <2>3, RestingIsPlaced DEF Ends
<1>10. CASE RollbackReceipt(p)
  <2>1. /\ proc[p].at = "rollback.receipt" /\ proc'[p].at = "return"
        /\ proc'[p].op = proc[p].op /\ proc'[p].link = proc[p].link
        /\ proc'[p].target = proc[p].target /\ proc'[p].inst = proc[p].inst
        /\ proc'[p].new = proc[p].new /\ proc'[p].before = proc[p].before
        /\ proc'[p].published = proc[p].published /\ proc'[p].copied = proc[p].copied
        /\ proc'[p].copy = proc[p].copy /\ disk'.link = disk.link /\ disk'.inst = disk.inst
        /\ disk'.db = disk.db /\ disk'.backups = disk.backups /\ disk'.dirs = disk.dirs
        /\ disk'.unit = disk.unit /\ disk'.receipt.op = "rollback"
    BY <1>10, RollbackReceiptDoes DEF DiskFields, DiskKeeps, Fields, Goes, Keeps
  <2>2. Stage(proc[p])'
    BY <2>1, <1>0 DEF Stage, OldLink, NewLink, OldInst, NewInst, Undoing, OldData, NewData,
       WithCopy, ReconcileLabels, SameData, GoodCopy, Kept, Done
  <2>3. QED BY <2>1, <2>2, RestingIsPlaced DEF Ends
<1>11. CASE RollbackRaises(p)
  <2>1. /\ proc[p].at \in {"rollback.switch", "rollback.unlink", "rollback.copy",
                           "rollback.start", "rollback.check", "rollback.publish",
                           "rollback.receipt"}
        /\ proc'[p].at = "return.stop" /\ proc'[p].op = proc[p].op
        /\ proc'[p].link = proc[p].link /\ proc'[p].target = proc[p].target
        /\ proc'[p].inst = proc[p].inst /\ proc'[p].new = proc[p].new
        /\ proc'[p].before = proc[p].before /\ proc'[p].published = proc[p].published
        /\ proc'[p].copied = proc[p].copied /\ proc'[p].copy = proc[p].copy /\ disk' = disk
    BY <1>11, RollbackRaisesDoes DEF Fields, Goes, Keeps
  <2>2. Stage(proc[p])'
    BY <2>1, <1>0 DEF Stage, OldLink, NewLink, OldInst, NewInst, Undoing, OldData, NewData,
       WithCopy, ReconcileLabels, SameData, GoodCopy
  <2>3. QED BY <2>1, <2>2, RestingIsPlaced DEF Ends
<1>12. QED
  BY <1>1, <1>2, <1>3, <1>4, <1>5, <1>6, <1>7, <1>8, <1>9, <1>10, <1>11 DEF RollbackStep

\* So do the steps of its way back.
LEMMA ReturnStepStages ==
  ASSUME TypeOK, Placed, NEW p \in Procs, ReturnStep(p), Ready(p), Stage(proc[p])
  PROVE  (Ends(p) /\ (torn' \/ Outcome(proc[p]))) \/ (Stage(proc[p])' /\ ~Ends(p))
<1>0. /\ \A r \in Releases : disk.dirs[r] = "ready" => disk'.dirs[r] = "ready"
      /\ disk'.unit = disk.unit /\ disk.backups \subseteq disk'.backups
      /\ proc'[p] = Resting \/ Steady(p)
  BY ReturnStepStays, ReturnStepTyped DEF Moves
<1>1. CASE ReturnStop(p)
  <2>1. /\ proc[p].at = "return.stop" /\ proc'[p].at = "return.switch"
        /\ proc'[p].op = proc[p].op /\ proc'[p].link = proc[p].link
        /\ proc'[p].target = proc[p].target /\ proc'[p].inst = proc[p].inst
        /\ proc'[p].new = proc[p].new /\ proc'[p].before = proc[p].before
        /\ proc'[p].published = proc[p].published /\ proc'[p].copied = proc[p].copied
        /\ proc'[p].copy = proc[p].copy /\ disk' = disk
    BY <1>1, ReturnStopDoes DEF Fields, Goes, Keeps
  <2>2. Stage(proc[p])'
    BY <2>1, <1>0 DEF Stage, OldLink, NewLink, OldInst, NewInst, Undoing, OldData, NewData,
       WithCopy, ReconcileLabels, SameData, GoodCopy
  <2>3. QED BY <2>1, <2>2, RestingIsPlaced DEF Ends
<1>2. CASE ReturnSwitch(p)
  <2>1. /\ proc[p].at = "return.switch" /\ proc'[p].at = "return.unlink"
        /\ proc'[p].op = proc[p].op /\ proc'[p].link = proc[p].link
        /\ proc'[p].target = proc[p].target /\ proc'[p].inst = proc[p].inst
        /\ proc'[p].new = proc[p].new /\ proc'[p].before = proc[p].before
        /\ proc'[p].published = proc[p].published /\ proc'[p].copied = proc[p].copied
        /\ proc'[p].copy = proc[p].copy /\ disk'.inst = disk.inst /\ disk'.db = disk.db
        /\ disk'.receipt = disk.receipt /\ disk'.backups = disk.backups
        /\ disk'.dirs = disk.dirs /\ disk'.unit = disk.unit /\ disk'.link = proc[p].link
    BY <1>2, ReturnSwitchDoes DEF DiskFields, DiskKeeps, Fields, Goes, Keeps
  <2>2. Stage(proc[p])'
    BY <2>1, <1>0 DEF Stage, OldLink, NewLink, OldInst, NewInst, Undoing, OldData, NewData,
       WithCopy, ReconcileLabels, SameData, GoodCopy
  <2>3. QED BY <2>1, <2>2, RestingIsPlaced DEF Ends
<1>3. CASE ReturnUnlink(p)
  <2>1. /\ proc[p].at = "return.unlink" /\ proc'[p].at = "return.copy"
        /\ proc'[p].op = proc[p].op /\ proc'[p].link = proc[p].link
        /\ proc'[p].target = proc[p].target /\ proc'[p].inst = proc[p].inst
        /\ proc'[p].new = proc[p].new /\ proc'[p].before = proc[p].before
        /\ proc'[p].published = proc[p].published /\ proc'[p].copied = proc[p].copied
        /\ proc'[p].copy = proc[p].copy /\ disk'.link = disk.link /\ disk'.inst = disk.inst
        /\ disk'.receipt = disk.receipt /\ disk'.backups = disk.backups
        /\ disk'.dirs = disk.dirs /\ disk'.unit = disk.unit /\ disk'.db = NoDatabase
    BY <1>3, ReturnUnlinkDoes DEF DiskFields, DiskKeeps, Fields, Goes, Keeps
  <2>2. Stage(proc[p])'
    BY <2>1, <1>0 DEF Stage, OldLink, NewLink, OldInst, NewInst, Undoing, OldData, NewData,
       WithCopy, ReconcileLabels, SameData, GoodCopy
  <2>3. QED BY <2>1, <2>2, RestingIsPlaced DEF Ends
<1>4. CASE ReturnCopy(p)
  <2>1. /\ proc[p].at = "return.copy" /\ proc'[p].at = "return.start"
        /\ proc'[p].op = proc[p].op /\ proc'[p].link = proc[p].link
        /\ proc'[p].target = proc[p].target /\ proc'[p].inst = proc[p].inst
        /\ proc'[p].new = proc[p].new /\ proc'[p].before = proc[p].before
        /\ proc'[p].published = proc[p].published /\ proc'[p].copied = proc[p].copied
        /\ proc'[p].copy = proc[p].copy /\ disk'.link = disk.link /\ disk'.inst = disk.inst
        /\ disk'.receipt = disk.receipt /\ disk'.backups = disk.backups
        /\ disk'.dirs = disk.dirs /\ disk'.unit = disk.unit /\ disk'.db = proc[p].copy
    BY <1>4, ReturnCopyDoes DEF DiskFields, DiskKeeps, Fields, Goes, Keeps
  <2>2. Stage(proc[p])'
    BY <2>1, <1>0 DEF Stage, OldLink, NewLink, OldInst, NewInst, Undoing, OldData, NewData,
       WithCopy, ReconcileLabels, SameData, GoodCopy
  <2>3. QED BY <2>1, <2>2, RestingIsPlaced DEF Ends
<1>5. CASE ReturnStart(p)
  <2>1. /\ proc[p].at = "return.start" /\ proc'[p].at = "return.publish"
        /\ proc'[p].op = proc[p].op /\ proc'[p].link = proc[p].link
        /\ proc'[p].target = proc[p].target /\ proc'[p].inst = proc[p].inst
        /\ proc'[p].new = proc[p].new /\ proc'[p].before = proc[p].before
        /\ proc'[p].published = proc[p].published /\ proc'[p].copied = proc[p].copied
        /\ proc'[p].copy = proc[p].copy /\ disk' = disk
    BY <1>5, ReturnStartDoes DEF Fields, Goes, Keeps
  <2>2. Stage(proc[p])'
    BY <2>1, <1>0, <1>5, ReturnStartDoes DEF Stage, OldLink, NewLink, OldInst, NewInst,
       Undoing, OldData, NewData, WithCopy, ReconcileLabels, SameData, GoodCopy,
       Starting, Fits
  <2>3. QED BY <2>1, <2>2, RestingIsPlaced DEF Ends
<1>6. CASE ReturnPublish(p)
  <2>1. /\ proc[p].at = "return.publish" /\ proc'[p].at = "return"
        /\ proc'[p].op = proc[p].op /\ proc'[p].link = proc[p].link
        /\ proc'[p].target = proc[p].target /\ proc'[p].inst = proc[p].inst
        /\ proc'[p].new = proc[p].new /\ proc'[p].before = proc[p].before
        /\ proc'[p].published = proc[p].published /\ proc'[p].copied = proc[p].copied
        /\ proc'[p].copy = proc[p].copy /\ disk'.link = disk.link /\ disk'.db = disk.db
        /\ disk'.receipt = disk.receipt /\ disk'.backups = disk.backups
        /\ disk'.dirs = disk.dirs /\ disk'.unit = disk.unit /\ disk'.inst = proc[p].inst
    BY <1>6, ReturnPublishDoes DEF DiskFields, DiskKeeps, Fields, Goes, Keeps
  <2>2. Stage(proc[p])'
    BY <2>1, <1>0 DEF Stage, OldLink, NewLink, OldInst, NewInst, Undoing, OldData, NewData,
       WithCopy, ReconcileLabels, SameData, GoodCopy, Kept
  <2>3. QED BY <2>1, <2>2, RestingIsPlaced DEF Ends
<1>7. CASE ReturnRaises(p) BY <1>7, ReturnRaisesDoes
<1>8. QED BY <1>1, <1>2, <1>3, <1>4, <1>5, <1>6, <1>7 DEF ReturnStep

\* So do those of the companion, which is repaired after the installation file was published and
\* may send the operation back.
LEMMA CodexStepStages ==
  ASSUME TypeOK, Placed, NEW p \in Procs, CodexStep(p), proc[p].op \in Changing, Stage(proc[p])
  PROVE  disk' = disk /\ ((Ends(p) /\ torn') \/ (Stage(proc[p])' /\ ~Ends(p)))
<1> SUFFICES ASSUME ~(Ends(p) /\ torn') PROVE disk' = disk /\ Stage(proc[p])' /\ ~Ends(p)
  BY CodexStepGoes
<1>1. /\ disk' = disk /\ proc'[p].op = proc[p].op /\ proc'[p].link = proc[p].link
      /\ proc'[p].target = proc[p].target /\ proc'[p].inst = proc[p].inst
      /\ proc'[p].new = proc[p].new /\ proc'[p].before = proc[p].before
      /\ proc'[p].published = proc[p].published /\ proc'[p].copied = proc[p].copied
      /\ proc'[p].copy = proc[p].copy
  BY CodexStepGoes
<1>2. /\ Path(proc[p]) /\ Path(proc'[p])
      /\ proc[p].at \in ReconcileLabels \cup EnableLabels \cup {"disable"}
      /\ \/ proc'[p].at \in ReconcileLabels \cup EnableLabels
         \/ proc'[p].at = proc[p].ret
         \/ proc'[p].at = "return" /\ proc[p].at \in EnableLabels \cup {"disable"}
  BY CodexStepGoes, CodexStepAt, CodexStepTyped DEF Placed, Moves
<1>3. proc[p].at \in ReconcileLabels BY <1>1, <1>2 DEF Path, Changing
<1>4. proc[p].ret = IF proc[p].op = "rollback" THEN "rollback.receipt" ELSE "receipt"
  BY <1>2, <1>3 DEF Path, Changing
<1>5. proc'[p].at \in ReconcileLabels \/ proc'[p].at = proc[p].ret
  <2>1. proc[p].at \notin EnableLabels \cup {"disable"}
    BY <1>3 DEF ReconcileLabels, EnableLabels
  <2>2. proc'[p].at \notin EnableLabels BY <1>1, <1>2 DEF Path, Changing
  <2>3. QED BY <1>2, <2>1, <2>2
<1>6. Stage(proc[p])'
  BY <1>1, <1>3, <1>4, <1>5 DEF Stage, OldLink, NewLink, OldInst, NewInst, Undoing, OldData,
     NewData, WithCopy, ReconcileLabels, SameData, GoodCopy
<1>7. ~Ends(p) BY <1>4, <1>5, RestingIsPlaced DEF ReconcileLabels, Ends
<1>8. QED BY <1>1, <1>6, <1>7

\* An operation ends by a step of its own, or dies.
LEMMA EndedSteps ==
  ASSUME HostInv, Next, NEW p \in Procs, Ended(p)
  PROVE  Steps(p) /\ mixed' = (mixed \/ Mixes(p))
<1>1. /\ TypeOK /\ Placed /\ proc[p].at # "idle" /\ proc'[p].at = "idle" /\ ~torn'
  BY DEF HostInv, Ended, Resting0, At
<1>2. CASE Stores BY <1>1, <1>2, StoredDisk
<1>3. CASE Rests BY <1>1, <1>3 DEF Rests, hostVars, vars
<1>4. ASSUME NEW q \in Procs, At(q, "idle"), Begins(q) PROVE FALSE
  <2>1. CASE Backup(q) BY <1>1, <2>1 DEF Backup
  <2>2. CASE ~Backup(q)
    <3>1. PICK op \in Operations : Begun(q, op) BY <1>1, <1>4, <2>2, BeginsDo
    <3>2. q # p BY <1>1, <1>4 DEF At
    <3>3. QED BY <1>1, <3>1, <3>2 DEF Begun, Framed
  <2>3. QED BY <2>1, <2>2
<1>5. ASSUME NEW q \in Procs, Steps(q) \/ Dies(q), mixed' = (mixed \/ Mixes(q))
      PROVE  Steps(p) /\ mixed' = (mixed \/ Mixes(p))
  <2>1. Moves(q) BY <1>1, <1>5, StepDoes DEF HostInv
  <2>2. q = p BY <1>1, <2>1 DEF Moves, Framed
  <2>3. ~Dies(q) BY <1>1 DEF Dies
  <2>4. QED BY <1>5, <2>2, <2>3
<1>6. QED BY <1>2, <1>3, <1>4, <1>5 DEF Next

\* The staging steps of a setup with answers on its command line, which take no lock, do not
\* run beside a change of the release, a configuration or an activation.
SetupAlone ==
  \A p, q \in Procs :
    proc[p].op = "setup" /\ proc[q].op \in Changing \cup {"configure", "activate"} =>
      proc[p].at = "idle" \/ proc[q].at = "idle"

\* What a configuration leaves when it did its work, and when it put everything back.
Domained(l) == disk.env = l.domain /\ disk.caddy = l.domain /\ disk.inst.domain = l.domain

Undomained(l) ==
  disk.env = l.before.env /\ disk.caddy = l.before.caddy /\ disk.inst = l.before.inst

\* How far configure got.
Configuring(l) ==
  /\ l.at \in ConfigureLabels => l.files.env = l.before.env /\ l.files.caddy = l.before.caddy
  /\ l.at \in ConfigureLabels => disk.inst = l.before.inst
  /\ l.at \in {"configure.env", "configure.again"} => disk.env = l.before.env
  /\ l.at \in {"configure.env", "configure.caddy", "configure.again"} =>
       disk.caddy = l.before.caddy
  /\ l.at \in {"configure.caddy", "configure.restart", "configure.publish"} =>
       disk.env = l.domain
  /\ l.at \in {"configure.restart", "configure.publish"} => disk.caddy = l.domain
  /\ l.at = "return" => Domained(l) \/ Undomained(l)

\* What an activation leaves when it did its work, and when it put everything back.
Activated(l) ==
  /\ disk.link = l.target /\ disk.dirs[l.target] = "ready" /\ disk.unit = "managed"
  /\ disk.db.schema = Schema[l.target] /\ disk.inst.version = Version[l.target]

Unactivated(l) ==
  /\ disk.link = l.before.link /\ disk.db.schema = l.before.db.schema
  /\ disk.env = l.before.env /\ disk.caddy = l.before.caddy /\ disk.unit = l.before.unit

\* What a failed activation puts back.
Captures(l) ==
  /\ l.link = l.before.link /\ l.copy.schema = l.before.db.schema
  /\ l.files.env = l.before.env /\ l.files.caddy = l.before.caddy
  /\ l.files.unit = l.before.unit

\* How far activate got.
Activating(l) ==
  /\ l.at \in ActivateLabels \ {"activate.stage", "activate.backup"} => Captures(l)
  /\ l.at \in {"activate.stage", "activate.backup", "deactivate.start", "deactivate.receipt"} =>
       Unactivated(l)
  /\ l.at \in {"activate.sync", "activate.stop", "activate.refresh"} =>
       disk.db.schema = l.before.db.schema
  /\ l.at = "deactivate.files" => disk.link = l.before.link
  /\ l.at \in {"activate.stop", "activate.refresh", "activate.legacy", "activate.switch",
               "activate.files", "activate.restart", "activate.check", "activate.publish",
               "activate.receipt"} => disk.dirs[l.target] = "ready"
  /\ l.at \in {"activate.files", "activate.restart", "activate.check", "activate.publish",
               "activate.receipt"} => disk.link = l.target
  /\ l.at \in {"activate.restart", "activate.check", "activate.publish", "activate.receipt"} =>
       disk.unit = "managed"
  /\ l.at = "activate.check" => up = None \/ disk.db.schema = Schema[l.target]
  /\ l.at \in {"activate.publish", "activate.receipt"} => disk.db.schema = Schema[l.target]
  /\ l.at = "activate.receipt" => disk.inst.version = Version[l.target]
  /\ l.at = "return" => Activated(l) \/ Unactivated(l)

\* How far the operation that holds the lock got, whichever it is.
Settling(l) ==
  /\ l.op \in Changing => Stage(l)
  /\ l.op = "configure" => Configuring(l)
  /\ l.op = "activate" => Activating(l)

\* The inductive invariant: whoever holds the lock can still finish, or put back what it found,
\* whoever worked or died before.
WholeInv == lock # None => Settling(proc[lock])

\* Whoever does not hold the lock leaves what the holder relies on alone.
LEMMA OthersSettle ==
  ASSUME TypeOK, WholeInv, lock' = lock, lock # None => proc'[lock] = proc[lock],
         disk'.link = disk.link, disk'.dirs = disk.dirs, disk'.inst = disk.inst,
         disk'.env = disk.env, disk'.caddy = disk.caddy, disk'.unit = disk.unit,
         disk'.db.schema = disk.db.schema, disk.db.rows \subseteq disk'.db.rows,
         disk.backups \subseteq disk'.backups, up' = up
  PROVE  WholeInv'
<1> SUFFICES ASSUME lock # None PROVE Settling(proc[lock])' BY DEF WholeInv
<1> DEFINE l == proc[lock]
<1>1. proc'[lock'] = l /\ Settling(l) BY DEF WholeInv
<1>2. Configuring(l) => Configuring(proc[lock])'
  BY <1>1 DEF Configuring, Domained, Undomained
<1>3. Activating(l) => Activating(proc[lock])'
  BY <1>1 DEF Activating, Activated, Unactivated, Captures
<1>4. Stage(l) => Stage(proc[lock])'
  <2>1. Kept(l) => Kept(proc[lock])' BY <1>1 DEF Kept, SameData
  <2>2. Done(l) => Done(proc[lock])' BY <1>1 DEF Done
  <2>3. GoodCopy(l) => GoodCopy(proc[lock])' BY <1>1 DEF GoodCopy, SameData
  <2>4. SameData(disk.db, l) => SameData(disk.db, proc[lock])' BY <1>1 DEF SameData
  <2>5. QED BY <1>1, <2>1, <2>2, <2>3, <2>4 DEF Stage
<1>5. QED BY <1>1, <1>2, <1>3, <1>4 DEF Settling

\* An operation that takes the lock begins with what it will put back.
LEMMA BeginSettles ==
  ASSUME TypeOK, Placed, NEW p \in Procs, Begins(p), ~Backup(p)
  PROVE  Settling(proc[p])'
<1>1. CASE BeginConfigure(p)
  <2>1. /\ proc'[p].op = "configure" /\ proc'[p].before = disk /\ disk' = disk
        /\ proc'[p].at = "configure.env"
        /\ proc'[p].files = [env |-> disk.env, caddy |-> disk.caddy, unit |-> disk.unit]
    BY <1>1, BeginConfigureDoes DEF Begun
  <2>2. Configuring(proc[p])' BY <2>1 DEF Configuring
  <2>3. QED BY <2>1, <2>2 DEF Settling, Changing
<1>2. CASE BeginActivate(p)
  <2>1. /\ proc'[p].op = "activate" /\ proc'[p].before = disk /\ disk' = disk
        /\ proc'[p].at = "activate.stage"
    BY <1>2, BeginActivateDoes DEF Begun
  <2>2. Activating(proc[p])' BY <2>1 DEF Activating, Unactivated
  <2>3. QED BY <2>1, <2>2 DEF Settling, Changing
<1>3. CASE BeginUpdate(p) \/ BeginDeploy(p)
  <2>1. PICK r \in Releases :
          /\ proc'[p].op \in {"update", "deploy"} /\ disk' = disk /\ proc'[p].before = disk
          /\ proc'[p].at = "unpack" /\ proc'[p].target = r /\ proc'[p].link = disk.link
          /\ proc'[p].inst = disk.inst /\ ~proc'[p].published
    BY <1>3, BeginUpdateDoes, BeginDeployDoes, HostAssumption DEF Begun
  <2>2. Stage(proc[p])'
    BY <2>1 DEF Stage, OldLink, NewLink, OldInst, NewInst, Undoing, OldData, NewData, WithCopy,
       ReconcileLabels, SameData
  <2>3. QED BY <2>1, <2>2 DEF Settling
<1>4. CASE BeginRollback(p)
  <2>1. /\ proc'[p].op = "rollback" /\ disk' = disk /\ proc'[p].before = disk
        /\ proc'[p].at = "rollback.save" /\ proc'[p].link = disk.link
        /\ proc'[p].inst = disk.inst /\ ~proc'[p].published
    BY <1>4, BeginRollbackDoes DEF Begun
  <2>2. Stage(proc[p])'
    BY <2>1 DEF Stage, OldLink, NewLink, OldInst, NewInst, Undoing, OldData, NewData, WithCopy,
       ReconcileLabels, SameData
  <2>3. QED BY <2>1, <2>2 DEF Settling
<1>5. CASE ~(BeginConfigure(p) \/ BeginActivate(p) \/ BeginUpdate(p) \/ BeginDeploy(p) \/
             BeginRollback(p))
  <2>1. proc'[p].op \notin Changing \cup {"configure", "activate"}
    <3>1. CASE BeginMigrate(p) BY <3>1, BeginMigrateDoes DEF Begun, Changing
    <3>2. CASE BeginEnable(p) \/ BeginRepair(p) \/ BeginDisable(p) \/ BeginService(p)
      BY <3>2, BeginEnableDoes, BeginRepairDoes, BeginDisableDoes, BeginServiceDoes
         DEF Begun, Changing
    <3>3. CASE BeginImport(p) \/ BeginReset(p) \/ BeginOptimize(p)
      BY <3>3, BeginImportDoes, BeginResetDoes, BeginOptimizeDoes DEF Begun, Changing
    <3>4. CASE BeginSetup(p) \/ BeginMenu(p) \/ BeginUninstall(p)
      BY <3>4, BeginSetupDoes, BeginMenuDoes, BeginUninstallDoes DEF Begun, Changing
    <3>5. QED
      BY <1>5, <3>1, <3>2, <3>3, <3>4 DEF Begins, ReleaseBegins, CodexBegins,
         DatabaseBegins, SetupBegins
  <2>2. QED BY <2>1 DEF Settling
<1>6. QED BY <1>1, <1>2, <1>3, <1>4, <1>5

\* Which step a configuration or an activation takes.
LEMMA ConfigureTakes ==
  ASSUME Placed, NEW p \in Procs, Steps(p), proc[p].op \in {"configure", "activate"}
  PROVE  \/ Return(p)
         \/ proc[p].op = "configure" /\ ConfigureStep(p)
         \/ proc[p].op = "activate" /\ ActivationStep(p)
<1>1. Path(proc[p]) BY DEF Placed
<1>2. ~DatabaseStep(p) /\ ~CodexStep(p)
  BY <1>1, DatabaseStepAt, CodexStepAt DEF Path
<1>3. CASE ReleaseStep(p) BY <1>1, <1>3, ReleaseStepAt DEF Path
<1>4. CASE SetupStep(p) BY <1>1, <1>4, SetupStepAt DEF Path
<1>5. QED BY <1>2, <1>3, <1>4 DEF Steps

\* What configure leaves when it ends.
Configured(l) ==
  \/ disk'.env = l.domain /\ disk'.caddy = l.domain /\ disk'.inst.domain = l.domain
  \/ disk'.env = l.before.env /\ disk'.caddy = l.before.caddy /\ disk'.inst = l.before.inst

\* The steps of a configuration bring it one stage further, or end it.
LEMMA ConfigureSettles ==
  ASSUME TypeOK, Placed, NEW p \in Procs, Steps(p), proc[p].op = "configure",
         Configuring(proc[p])
  PROVE  (Ends(p) /\ (torn' \/ Configured(proc[p]))) \/ (Configuring(proc[p])' /\ ~Ends(p))
<1> USE DEF Goes, Keeps, Fields, DiskKeeps, DiskFields
<1>0. ConfigureLabels = {"configure.env", "configure.caddy", "configure.restart",
         "configure.publish", "configure.undo", "configure.again"}
  BY DEF ConfigureLabels
<1>1. CASE ConfigureEnv(p)
  BY <1>1, ConfigureEnvDoes, RestingIsPlaced DEF Configuring, Ends, ConfigureLabels
<1>2. CASE ConfigureCaddy(p)
  BY <1>2, ConfigureCaddyDoes, RestingIsPlaced DEF Configuring, Ends, ConfigureLabels
<1>3. CASE ConfigureRestart(p) \/ ConfigureFails(p)
  BY <1>3, ConfigureRestartDoes, ConfigureFailsDoes, RestingIsPlaced
     DEF Configuring, Ends, ConfigureLabels
<1>4. CASE ConfigurePublish(p)
  BY <1>4, ConfigurePublishDoes, RestingIsPlaced DEF Configuring, Domained, Ends, ConfigureLabels
<1>5. CASE ConfigureUndo(p)
  BY <1>5, ConfigureUndoDoes, RestingIsPlaced DEF Configuring, Undomained, Ends, ConfigureLabels
<1>6. CASE ConfigureAgain(p)
  BY <1>6, ConfigureAgainDoes, RestingIsPlaced DEF Configuring, Undomained, Ends, ConfigureLabels
<1>7. CASE ConfigureRaises(p)
  BY <1>7, ConfigureRaisesDoes DEF Configuring, Configured, ConfigureLabels
<1>8. CASE Return(p)
  BY <1>8, ReturnDoes DEF Configuring, Configured, Domained, Undomained
<1>9. QED BY <1>1, <1>2, <1>3, <1>4, <1>5, <1>6, <1>7, <1>8, ConfigureTakes DEF ConfigureStep

\* What activate leaves when it ends.
Settled(l) ==
  \/ /\ disk'.link = l.target /\ disk'.dirs[l.target] = "ready" /\ disk'.unit = "managed"
     /\ disk'.db.schema = Schema[l.target] /\ disk'.inst.version = Version[l.target]
  \/ /\ disk'.link = l.before.link /\ disk'.db.schema = l.before.db.schema
     /\ disk'.env = l.before.env /\ disk'.caddy = l.before.caddy /\ disk'.unit = l.before.unit

\* The steps of an activation bring it one stage further, or end it.
LEMMA ActivateSettles ==
  ASSUME TypeOK, Placed, NEW p \in Procs, Steps(p), proc[p].op = "activate",
         Activating(proc[p])
  PROVE  (Ends(p) /\ (torn' \/ Settled(proc[p]))) \/ (Activating(proc[p])' /\ ~Ends(p))
<1> USE DEF Goes, Keeps, Fields, DiskKeeps, DiskFields
<1>0. proc[p].target \in Releases /\ disk \in Disk
  BY DEF Placed, Path, Aimed, TypeOK
<1>1. CASE ActivateStage(p)
  BY <1>1, ActivateStageDoes, RestingIsPlaced DEF Activating, Unactivated, Ends, ActivateLabels
<1>2. CASE ActivateBackup(p)
  BY <1>2, ActivateBackupDoes, RestingIsPlaced DEF Activating, Unactivated, Captures, Ends,
     ActivateLabels
<1>3. CASE ActivateSync(p)
  <2>1. disk.dirs \in [Releases -> {"absent", "bare", "ready"}] BY <1>0 DEF Disk
  <2>2. disk'.dirs = [disk.dirs EXCEPT ![proc[p].target] = "ready"] BY <1>3, ActivateSyncDoes
  <2>3. disk'.dirs[proc[p].target] = "ready" BY <1>0, <2>1, <2>2
  <2>4. /\ Goes(p, {"activate.sync"}, "activate.stop") /\ disk'.db = disk.db
        /\ disk'.link = disk.link
    BY <1>3, ActivateSyncDoes
  <2>5. QED BY <2>3, <2>4, RestingIsPlaced DEF Activating, Captures, Ends, ActivateLabels
<1>4. CASE ActivateStop(p)
  BY <1>4, ActivateStopDoes, RestingIsPlaced DEF Activating, Captures, Ends, ActivateLabels
<1>5. CASE ActivateRefresh(p)
  BY <1>5, ActivateRefreshDoes, RestingIsPlaced DEF Activating, Captures, Ends, ActivateLabels
<1>6. CASE ActivateLegacy(p)
  BY <1>6, ActivateLegacyDoes, RestingIsPlaced DEF Activating, Captures, Ends, ActivateLabels
<1>7. CASE ActivateSwitch(p)
  BY <1>7, ActivateSwitchDoes, RestingIsPlaced DEF Activating, Captures, Ends, ActivateLabels
<1>8. CASE ActivateFiles(p)
  BY <1>8, ActivateFilesDoes, RestingIsPlaced DEF Activating, Captures, Ends, ActivateLabels
<1>9. CASE ActivateRestart(p)
  BY <1>9, ActivateRestartDoes, RestingIsPlaced DEF Activating, Captures, Ends, ActivateLabels,
     Starting, Fits
<1>10. CASE ActivateCheck(p)
  BY <1>10, ActivateCheckDoes, RestingIsPlaced DEF Activating, Captures, Ends, ActivateLabels
<1>11. CASE ActivatePublish(p)
  BY <1>11, ActivatePublishDoes, RestingIsPlaced DEF Activating, Captures, Ends, ActivateLabels
<1>12. CASE ActivateReceipt(p)
  BY <1>12, ActivateReceiptDoes, RestingIsPlaced DEF Activating, Activated, Ends, ActivateLabels
<1>13. CASE ActivateRaises(p)
  <2>1. CASE proc[p].at \in {"activate.stage", "activate.backup"} /\ Ends(p)
    BY <1>13, <2>1, ActivateRaisesDoes DEF Activating, Unactivated, Settled
  <2>2. CASE proc[p].at \in {"activate.publish", "activate.receipt"} /\ Ends(p)
    BY <1>13, <2>2, ActivateRaisesDoes
  <2>3. CASE Goes(p, {"activate.sync", "activate.stop", "activate.refresh", "activate.legacy",
                      "activate.switch", "activate.files", "activate.restart",
                      "activate.check"}, "deactivate.stop")
    <3>1. disk' = disk BY <1>13, ActivateRaisesDoes
    <3>2. QED BY <2>3, <3>1, RestingIsPlaced DEF Activating, Captures, Ends, ActivateLabels
  <2>4. QED BY <1>13, <2>1, <2>2, <2>3, ActivateRaisesDoes
<1>14. CASE DeactivateStop(p)
  BY <1>14, DeactivateStopDoes, RestingIsPlaced DEF Activating, Captures, Ends, ActivateLabels
<1>15. CASE DeactivateLink(p)
  BY <1>15, DeactivateLinkDoes, RestingIsPlaced DEF Activating, Captures, Ends, ActivateLabels
<1>16. CASE DeactivateFiles(p)
  BY <1>16, DeactivateFilesDoes, RestingIsPlaced DEF Activating, Captures, Unactivated, Ends,
     ActivateLabels
<1>17. CASE DeactivateStart(p) \/ DeactivateReceipt(p)
  BY <1>17, DeactivateStartDoes, DeactivateReceiptDoes, RestingIsPlaced
     DEF Activating, Captures, Unactivated, Ends, ActivateLabels
<1>18. CASE DeactivateRaises(p) BY <1>18, DeactivateRaisesDoes
<1>19. CASE Return(p)
  BY <1>19, ReturnDoes DEF Activating, Settled, Activated, Unactivated
<1>20. QED
  BY <1>1, <1>2, <1>3, <1>4, <1>5, <1>6, <1>7, <1>8, <1>9, <1>10, <1>11, <1>12, <1>13, <1>14,
     <1>15, <1>16, <1>17, <1>18, <1>19, ConfigureTakes DEF ActivationStep

\* A change of the release takes its own steps and those of the companion.
LEMMA ChangingSettles ==
  ASSUME TypeOK, Placed, NEW p \in Procs, Steps(p), Ready(p), proc[p].op \in Changing,
         Stage(proc[p])
  PROVE  (Ends(p) /\ (torn' \/ Outcome(proc[p]))) \/ (Stage(proc[p])' /\ ~Ends(p))
<1>1. Path(proc[p]) BY DEF Placed
<1>2. proc[p].at \notin DatabaseLabels \cup {"mutate"} BY <1>1 DEF Path, Changing
<1>3. ~DatabaseStep(p) BY <1>2, DatabaseStepAt
<1>4. ~SetupStep(p)
  <2>1. proc[p].at \notin MenuSteps \cup ActivateLabels \cup ConfigureLabels \cup UninstallLabels
    BY <1>1 DEF Path, Changing
  <2>2. QED BY <2>1, SetupStepAt
<1>5. CASE CodexStep(p) BY <1>5, CodexStepStages
<1>6. CASE ReleaseStep(p)
  BY <1>6, ActivateStepStages, UndoStepStages, RollbackStepStages, ReturnStepStages
     DEF ReleaseStep
<1>7. QED BY <1>3, <1>4, <1>5, <1>6 DEF Steps

\* A step of an operation keeps WholeInv.
LEMMA SettlesStay ==
  ASSUME HostInv, WholeInv, SetupAlone, NEW p \in Procs, ~At(p, "idle"), Steps(p) \/ Dies(p)
  PROVE  WholeInv'
<1>1. /\ TypeOK /\ Placed /\ Single /\ Ready(p) /\ Path(proc[p]) /\ proc[p].at # "idle"
      /\ None \notin Procs /\ p # None
  BY HostAssumption DEF HostInv, Placed, At
<1>2. Moves(p) /\ Typed(p) /\ Serves(p) BY <1>1, StepDoes
<1>3. Ends(p) => lock' = IF lock = p THEN None ELSE lock BY DEF Ends
<1>4. CASE Ends(p) /\ lock = p BY <1>1, <1>3, <1>4 DEF WholeInv
<1>5. CASE ~Ends(p) /\ lock = p
  <2>1. Steps(p) BY <1>5, LeaveRests, <1>1 DEF Dies, Leave, Ends
  <2>2. proc'[p].op = proc[p].op /\ lock' = p
    BY <1>1, <1>2, <1>5, RestingIsPlaced DEF Serves, Locks, Moves, Steady
  <2>3. Settling(proc[p]) BY <1>1, <1>5 DEF WholeInv
  <2>4. proc[p].op = "configure" => Configuring(proc[p])'
    BY <1>1, <1>5, <2>1, <2>3, ConfigureSettles DEF Settling
  <2>5. proc[p].op = "activate" => Activating(proc[p])'
    BY <1>1, <1>5, <2>1, <2>3, ActivateSettles DEF Settling
  <2>8. proc[p].op \in Changing => Stage(proc[p])'
    BY <1>1, <1>5, <2>1, <2>3, ChangingSettles DEF Settling
  <2>6. Settling(proc[p])' BY <2>2, <2>4, <2>5, <2>8 DEF Settling
  <2>7. QED BY <2>2, <2>6 DEF WholeInv
<1>6. CASE lock # p /\ proc[p].op = "setup"
  <2>1. CASE Ends(p) \/ lock' = lock
    <3>1. lock' = lock BY <1>3, <1>6, <2>1
    <3>2. lock # None =>
            /\ proc'[lock] = proc[lock]
            /\ proc[lock].op \notin Changing \cup {"configure", "activate"}
      BY <1>1, <1>2, <1>6 DEF TypeOK, At, Moves, Framed, SetupAlone
    <3>3. QED BY <3>1, <3>2 DEF WholeInv, Settling
  <2>2. CASE ~Ends(p) /\ lock' = p
    <3>1. proc'[p].op = "setup"
      BY <1>1, <1>2, <1>6, <2>2, RestingIsPlaced DEF Serves, Locks, Moves, Steady
    <3>2. QED BY <2>2, <3>1 DEF WholeInv, Settling, Changing
  <2>3. QED BY <1>2, <2>1, <2>2 DEF Serves, Locks
<1>7. CASE lock # p /\ proc[p].op # "setup"
  <2>1. Free(proc[p]) BY <1>1, <1>7 DEF Single
  <2>2. proc[p].at \in {"replace.lock", "uninstall.lock"} BY <1>1, <1>7, <2>1 DEF Free
  <2>3. CASE Dies(p)
    <3>1. Ends(p) /\ UNCHANGED <<disk, up>> BY <1>1, <2>3, LeaveRests DEF Dies, Leave, Ends
    <3>2. lock' = lock /\ (lock # None => proc'[lock] = proc[lock])
      BY <1>1, <1>2, <1>3, <1>7, <3>1 DEF TypeOK, Moves, Framed
    <3>3. QED BY <1>1, <3>1, <3>2, OthersSettle
  <2>4. CASE Steps(p)
    <3>1. \/ ReplaceLock(p) \/ ReplaceRefused(p)
          \/ UninstallLock(p)
          \/ Ends(p) /\ UNCHANGED <<disk, up>>
      <4>1. ~CodexStep(p)
        BY <2>2, CodexStepAt DEF ReconcileLabels, EnableLabels
      <4>2. ~ReleaseStep(p) BY <2>2, ReleaseStepAt DEF UpdateLabels, RollbackLabels
      <4>3. CASE DatabaseStep(p) BY <2>2, <4>3, DatabaseStepAt DEF DatabaseLabels
      <4>4. CASE SetupStep(p)
        <5>1. UninstallStep(p) /\ proc[p].at = "uninstall.lock"
          BY <2>2, <4>4, SetupStepAt
             DEF MenuSteps, ActivateLabels, ConfigureLabels, UninstallLabels
        <5>2. UninstallLock(p) \/ UninstallRefused(p)
          BY <5>1 DEF UninstallStep, UninstallStop, UninstallExport, UninstallExportFails,
             UninstallResume, UninstallDisable, UninstallRemove, UninstallPurge,
             UninstallRaises, Escapes, Looks, Runs, Writes, At
        <5>3. QED BY <1>1, <5>2, UninstallRefusedDoes
      <4>5. QED BY <2>4, <4>1, <4>2, <4>3, <4>4 DEF Steps
    <3>2. CASE ReplaceLock(p) \/ UninstallLock(p)
      <4>1. /\ lock' = p /\ proc'[p].op = proc[p].op
            /\ proc[p].op \notin Changing \cup {"configure", "activate"}
        BY <1>1, <2>2, <3>2, ReplaceLockDoes, UninstallLockDoes, RestingIsPlaced
           DEF Moves, Steady, Path, DatabaseLabels, UninstallLabels, Changing
      <4>2. QED BY <4>1 DEF WholeInv, Settling
    <3>3. CASE Ends(p) /\ UNCHANGED <<disk, up>>
      <4>1. lock' = lock /\ (lock # None => proc'[lock] = proc[lock])
        BY <1>1, <1>2, <1>3, <1>7, <3>3 DEF TypeOK, Moves, Framed
      <4>2. QED BY <1>1, <3>3, <4>1, OthersSettle
    <3>4. QED BY <1>1, <3>1, <3>2, <3>3, ReplaceRefusedDoes
  <2>5. QED BY <2>3, <2>4
<1>8. QED BY <1>4, <1>5, <1>6, <1>7

\* WholeInv is inductive.
LEMMA NextWholeInv ==
  ASSUME HostInv, WholeInv, SetupAlone, [Next]_hostVars
  PROVE  WholeInv'
<1>1. TypeOK /\ Placed /\ disk \in Disk BY DEF HostInv, TypeOK
<1>2. CASE Stores
  <2>1. /\ disk' = [disk EXCEPT !.db.rows = @ \cup {writes + 1}]
        /\ UNCHANGED <<up, lock, proc>> /\ disk'.db.schema = disk.db.schema
    BY <1>1, <1>2, StoredDisk DEF Stores, ServiceWrites
  <2>2. /\ disk'.link = disk.link /\ disk'.dirs = disk.dirs /\ disk'.inst = disk.inst
        /\ disk'.env = disk.env /\ disk'.caddy = disk.caddy /\ disk'.unit = disk.unit
        /\ disk'.backups = disk.backups /\ disk.db.rows \subseteq disk'.db.rows
    BY <1>1, <2>1 DEF Disk, Database
  <2>3. QED BY <1>1, <2>1, <2>2, OthersSettle
<1>3. CASE UNCHANGED hostVars
  BY <1>1, <1>3, OthersSettle DEF hostVars, vars
<1>4. ASSUME NEW p \in Procs, At(p, "idle"), Begins(p)
      PROVE  WholeInv'
  <2>1. lock # None => lock \in Procs \ {p} BY <1>1, <1>4 DEF TypeOK, At
  <2>2. CASE Backup(p)
    <3>1. disk' = Saved /\ UNCHANGED <<up, lock, proc>> BY <2>2 DEF Backup
    <3>2. /\ disk'.link = disk.link /\ disk'.dirs = disk.dirs /\ disk'.inst = disk.inst
          /\ disk'.env = disk.env /\ disk'.caddy = disk.caddy /\ disk'.unit = disk.unit
          /\ disk'.db = disk.db /\ disk.backups \subseteq disk'.backups
      BY <1>1, <3>1 DEF Saved, Disk
    <3>3. QED BY <1>1, <3>1, <3>2, OthersSettle
  <2>3. CASE ~Backup(p)
    <3>1. PICK op \in Operations : Begun(p, op) BY <1>1, <1>4, <2>3, BeginsDo
    <3>2. UNCHANGED <<disk, up>> /\ \A q \in Procs \ {p} : proc'[q] = proc[q]
      BY <3>1 DEF Begun, Framed
    <3>3. CASE lock' = lock BY <1>1, <2>1, <3>2, <3>3, OthersSettle
    <3>4. CASE lock' = p BY <1>1, <1>4, <2>3, <3>4, BeginSettles DEF WholeInv
    <3>5. QED BY <1>1, <1>4, <2>3, <3>3, <3>4, BeginsDo
  <2>4. QED BY <2>2, <2>3
<1>5. ASSUME NEW p \in Procs, ~At(p, "idle"), Steps(p) \/ Dies(p)
      PROVE  WholeInv'
  BY <1>5, SettlesStay
<1>6. QED BY <1>2, <1>3, <1>4, <1>5 DEF Next, Rests

\* The operation that ends has settled what it began.
LEMMA EndSettles ==
  ASSUME HostInv, WholeInv, Next, NEW p \in Procs, Ended(p)
  PROVE  /\ proc[p].op = "configure" => Configured(proc[p])
         /\ proc[p].op = "activate" => Settled(proc[p])
         /\ proc[p].op \in Changing => Outcome(proc[p])
<1> SUFFICES ASSUME proc[p].op \in Changing \cup {"configure", "activate"}
             PROVE  /\ proc[p].op = "configure" => Configured(proc[p])
                    /\ proc[p].op = "activate" => Settled(proc[p])
                    /\ proc[p].op \in Changing => Outcome(proc[p])
  OBVIOUS
<1>1. /\ TypeOK /\ Placed /\ Single /\ Path(proc[p]) /\ proc[p].at # "idle" /\ None \notin Procs
      /\ proc'[p].at = "idle" /\ ~torn' /\ Ready(p)
  BY HostAssumption DEF HostInv, Placed, Ended, Resting0, At
<1>2. lock = p
  <2>1. ~Free(proc[p]) BY <1>1 DEF Free, Path, DatabaseLabels, UninstallLabels, Changing
  <2>2. QED BY <1>1, <2>1 DEF Single
<1>3. Steps(p) BY <1>1, EndedSteps
<1>4. Settling(proc[p]) /\ p # None BY <1>1, <1>2 DEF WholeInv
<1>5. Ends(p) BY <1>1, <1>3, StepDoes DEF Serves, Locks, HostInv
<1>6. QED
  BY <1>1, <1>3, <1>4, <1>5, ConfigureSettles, ActivateSettles, ChangingSettles
     DEF Settling, Changing

\* A configuration of a new domain (_configure of bridge_cli/__main__.py) reaches the environment,
\* the Caddy file and the installation file, or none of them, whatever ran or died before it and
\* whatever else is at work under the lock: provided that no setup stages beside it, which would
\* write the installation file without the lock.
THEOREM ConfigurationsAreWhole == Spec /\ []SetupAlone => ConfiguresAll
<1>1. ASSUME HostInv, WholeInv, [Next]_hostVars
      PROVE  [\A p \in Procs :
                Ended(p) /\ proc[p].op = "configure" =>
                  \/ {disk'.env, disk'.caddy, disk'.inst.domain} = {proc[p].domain}
                  \/ /\ disk'.env = proc[p].before.env
                     /\ disk'.caddy = proc[p].before.caddy
                     /\ disk'.inst = proc[p].before.inst]_hostVars
  BY <1>1, EndSettles DEF Configured
<1>2. Init => WholeInv BY DEF Init, WholeInv
<1>3. QED
  BY <1>1, <1>2, InitHostInv, NextHostInv, NextWholeInv, PTL DEF Spec, ConfiguresAll

\* An activation (activate of bridge_cli/install.py) leaves the link, the unit, the installation
\* file and the database of the release that it activates, or the link, the schema and the files
\* that it found, under the same proviso.
THEOREM ActivationsAreWhole == Spec /\ []SetupAlone => ActivatesAll
<1>1. ASSUME HostInv, WholeInv, [Next]_hostVars
      PROVE  [\A p \in Procs :
                Ended(p) /\ proc[p].op = "activate" =>
                  \/ /\ disk'.link = proc[p].target
                     /\ disk'.unit = "managed"
                     /\ disk'.inst.version = Version[proc[p].target]
                     /\ Fits(disk.link)'
                  \/ /\ disk'.link = proc[p].before.link
                     /\ disk'.db.schema = proc[p].before.db.schema
                     /\ <<disk'.env, disk'.caddy, disk'.unit>> =
                        <<proc[p].before.env, proc[p].before.caddy, proc[p].before.unit>>]_hostVars
  <2>1. ASSUME NEW p \in Procs, Ended(p), proc[p].op = "activate", Next
        PROVE  Settled(proc[p]) /\ proc[p].target \in Releases /\ None \notin Releases
    BY <1>1, <2>1, EndSettles, HostAssumption DEF HostInv, Placed, Path, Aimed
  <2>2. QED BY <1>1, <2>1 DEF Settled, Fits
<1>2. Init => WholeInv BY DEF Init, WholeInv
<1>3. QED
  BY <1>1, <1>2, InitHostInv, NextHostInv, NextWholeInv, PTL DEF Spec, ActivatesAll

\* An update, a deploy or a rollback (bridge_cli/release.py) happens altogether or not at all: the
\* link, the installation file and a database that the release accepts, or the ones of the
\* beginning with every row; whatever ran or died before it on whichever host, under the same
\* proviso.
THEOREM ChangesAreWhole == Spec /\ []SetupAlone => AllOrNothing
<1>1. ASSUME HostInv, WholeInv, [Next]_hostVars
      PROVE  [\A p \in Procs :
                Ended(p) /\ proc[p].op \in {"update", "deploy", "rollback"} =>
                  \/ /\ disk'.link = proc[p].target
                     /\ disk'.inst = proc[p].new
                     /\ Fits(disk.link)'
                  \/ /\ disk'.link = proc[p].before.link
                     /\ disk'.inst = proc[p].before.inst
                     /\ disk'.db.schema = proc[p].before.db.schema
                     /\ proc[p].before.db.rows \subseteq disk'.db.rows]_hostVars
  <2>1. ASSUME NEW p \in Procs, Ended(p), proc[p].op \in Changing, Next
        PROVE  Outcome(proc[p]) /\ proc[p].target \in Releases /\ None \notin Releases
    BY <1>1, <2>1, EndSettles, HostAssumption DEF HostInv, Placed, Path, Aimed, Changing
  <2>2. QED BY <1>1, <2>1 DEF Outcome, Fits, SameData, Changing
<1>2. Init => WholeInv BY DEF Init, WholeInv
<1>3. QED
  BY <1>1, <1>2, InitHostInv, NextHostInv, NextWholeInv, PTL DEF Spec, AllOrNothing

(***************************************************************************)
(* ServedFromLink and BackInv: the service.                                *)
(***************************************************************************)

\* The service is left as it is, stopped, or started from a complete release the link points to.
ServesLink ==
  up' # None =>
    /\ disk'.link = disk.link
    /\ up' = up \/ (up' = disk.link /\ disk.dirs[disk.link] = "ready")

\* The release the link points to stays on the disk.
LinkedStays == disk.link # None /\ disk.dirs[disk.link] = "ready" => disk'.dirs[disk.link] = "ready"

\* systemctl start runs the release the link points to, if it is complete.
LEMMA StartingServes ==
  ASSUME up' \in Starting, disk' = disk
  PROVE  ServesLink
BY DEF Starting, Fits, ServesLink

\* The groups of steps, one by one: none moves the link while the service runs.
LEMMA ReleaseServesLink ==
  ASSUME TypeOK, Placed, NEW p \in Procs, ReleaseStep(p), Ready(p)
  PROVE  ServesLink
<1>1. CASE ActivateStep(p)
  BY <1>1, UnpackDoes, EnvironmentDoes, EnvironmentFailsDoes, PreflightDoes, StopServiceDoes,
     SaveDatabaseDoes, MigrateDatabaseDoes, MigrationFailsDoes, SwitchReleaseDoes,
     StartServiceDoes, CheckServiceDoes, PublishInstallationDoes, WriteReceiptDoes, ReturnDoes,
     BodyRaisesDoes, StartingServes DEF ActivateStep, ServesLink, DiskKeeps, DiskFields, Goes,
     Ready, NoService
<1>2. CASE UndoStep(p)
  BY <1>2, UndoStopDoes, UndoSwitchDoes, UndoUnlinkDoes, UndoCopyDoes, UndoStartDoes,
     UndoPublishDoes, UndoReceiptDoes, UndoRaisesDoes, StartingServes
     DEF UndoStep, ServesLink, DiskKeeps, DiskFields, Goes, Ready, NoService
<1>3. CASE RollbackStep(p)
  BY <1>3, RollbackSaveDoes, RollbackStopDoes, RollbackRefusedDoes, RollbackSwitchDoes,
     RollbackUnlinkDoes, RollbackCopyDoes, RollbackStartDoes, RollbackCheckDoes,
     RollbackPublishDoes, RollbackReceiptDoes, RollbackRaisesDoes, StartingServes
     DEF RollbackStep, ServesLink, DiskKeeps, DiskFields, Goes, Ready, NoService
<1>4. CASE ReturnStep(p)
  BY <1>4, ReturnStopDoes, ReturnSwitchDoes, ReturnUnlinkDoes, ReturnCopyDoes, ReturnStartDoes,
     ReturnPublishDoes, ReturnRaisesDoes, StartingServes
     DEF ReturnStep, ServesLink, DiskKeeps, DiskFields, Goes, Ready, NoService
<1>5. QED BY <1>1, <1>2, <1>3, <1>4 DEF ReleaseStep

LEMMA CodexServesLink ==
  ASSUME TypeOK, Placed, NEW p \in Procs, CodexStep(p)
  PROVE  ServesLink
<1>1. disk' = disk BY CodexStepGoes
<1>2. up' = up \/ up' \in Starting
  <2>1. CASE Disable(p) \/ ReconcileKeeps(p) \/ ReconcileRepairs(p) \/ ReconcileRaises(p) \/
             StageAside(p) \/ StageInstall(p) \/ StageInstallFails(p) \/ StagePrepare(p)
    BY <2>1, DisableDoes, ReconcileKeepsDoes, ReconcileRepairsDoes, ReconcileRaisesDoes,
       StageAsideDoes, StageInstallDoes, StageInstallFailsDoes, StagePrepareDoes
  <2>2. CASE StagePrepareFails(p) \/ StageRaises(p) \/ StageFail(p) \/ FailOff(p) \/
             EnableStart(p) \/ EnableRefresh(p) \/ EnableReady(p) \/ EnableStatus(p)
    BY <2>2, StagePrepareFailsDoes, StageRaisesDoes, StageFailDoes, FailOffDoes,
       EnableStartDoes, EnableRefreshDoes, EnableReadyDoes, EnableStatusDoes
  <2>3. CASE EnableRaises(p) \/ EnableOff(p) \/ EnableBack(p) \/ EnableFail(p) \/
             RepairRestart(p) \/ RepairStatus(p) \/ RepairRaises(p) \/ RepairBack(p)
    BY <2>3, EnableRaisesDoes, EnableOffDoes, EnableBackDoes, EnableFailDoes,
       RepairRestartDoes, RepairStatusDoes, RepairRaisesDoes, RepairBackDoes
  <2>4. CASE RepairAgain(p) \/ RepairFail(p) \/ CodexRaises(p)
    BY <2>4, RepairAgainDoes, RepairFailDoes, CodexRaisesDoes
  <2>5. QED BY <2>1, <2>2, <2>3, <2>4 DEF CodexStep
<1>3. QED BY <1>1, <1>2, StartingServes DEF ServesLink

LEMMA DatabaseServesLink ==
  ASSUME TypeOK, Placed, NEW p \in Procs, DatabaseStep(p)
  PROVE  ServesLink /\ disk'.link = disk.link
<1>1. CASE ReplaceLock(p) \/ ReplaceRefused(p) \/ ReplaceStop(p) \/ ReplaceSave(p) \/
           ReplaceCut(p) \/ RuntimePrepare(p) \/ RuntimeStart(p) \/ RuntimeCheck(p)
  BY <1>1, ReplaceLockDoes, ReplaceRefusedDoes, ReplaceStopDoes, ReplaceSaveDoes,
     ReplaceCutDoes, RuntimePrepareDoes, RuntimeStartDoes, RuntimeCheckDoes, StartingServes
     DEF ServesLink, DiskKeeps, DiskFields
<1>2. CASE ReplaceRaises(p) \/ ReplaceResume(p) \/ RestoreStop(p) \/ RestoreCopy(p) \/
           RestorePrepare(p) \/ RestoreStart(p) \/ RestoreCheck(p) \/ RestoreRaises(p)
  BY <1>2, ReplaceRaisesDoes, ReplaceResumeDoes, RestoreStopDoes, RestoreCopyDoes,
     RestorePrepareDoes, RestoreStartDoes, RestoreCheckDoes, RestoreRaisesDoes, StartingServes
     DEF ServesLink, DiskKeeps, DiskFields
<1>3. CASE OptimizeStop(p) \/ OptimizeDirectory(p) \/ OptimizeSave(p) \/ StopRefused(p) \/
           MigrateStop(p) \/ MigrateSave(p) \/ MigrateRun(p) \/ MigrateFails(p)
  BY <1>3, OptimizeStopDoes, OptimizeDirectoryDoes, OptimizeSaveDoes, StopRefusedDoes,
     MigrateStopDoes, MigrateSaveDoes, MigrateRunDoes, MigrateFailsDoes
     DEF ServesLink, DiskKeeps, DiskFields
<1>4. CASE BackupRaises(p) BY <1>4, BackupRaisesDoes DEF ServesLink
<1>5. CASE Mutate(p) BY <1>5, MutateDoes, StartingServes DEF ServesLink, Stopping
<1>6. QED BY <1>1, <1>2, <1>3, <1>4, <1>5 DEF DatabaseStep

LEMMA SetupServesLink ==
  ASSUME TypeOK, Placed, NEW p \in Procs, SetupStep(p), Ready(p)
  PROVE  ServesLink
<1>1. CASE \/ StageRelease(p) \/ StageDatabase(p) \/ StageDomain(p) \/ StageService(p)
           \/ SetupRaises(p) \/ ActivateStage(p) \/ ActivateBackup(p) \/ ActivateSync(p)
  BY <1>1, StageReleaseDoes, StageDatabaseDoes, StageDomainDoes, StageServiceDoes,
     SetupRaisesDoes, ActivateStageDoes, ActivateBackupDoes, ActivateSyncDoes
     DEF ServesLink, DiskKeeps, DiskFields
<1>2. CASE \/ ActivateStop(p) \/ ActivateRefresh(p) \/ ActivateLegacy(p) \/ ActivateSwitch(p)
           \/ ActivateFiles(p) \/ ActivateRestart(p) \/ ActivateCheck(p)
  BY <1>2, ActivateStopDoes, ActivateRefreshDoes, ActivateLegacyDoes, ActivateSwitchDoes,
     ActivateFilesDoes, ActivateRestartDoes, ActivateCheckDoes, StartingServes
     DEF ServesLink, DiskKeeps, DiskFields, Goes, Ready, NoService
<1>3. CASE \/ ActivatePublish(p) \/ ActivateReceipt(p) \/ ActivateRaises(p) \/ DeactivateStop(p)
           \/ DeactivateLink(p) \/ DeactivateFiles(p) \/ DeactivateStart(p)
           \/ DeactivateReceipt(p) \/ DeactivateRaises(p)
  BY <1>3, ActivatePublishDoes, ActivateReceiptDoes, ActivateRaisesDoes, DeactivateStopDoes,
     DeactivateLinkDoes, DeactivateFilesDoes, DeactivateStartDoes, DeactivateReceiptDoes,
     DeactivateRaisesDoes, StartingServes
     DEF ServesLink, DiskKeeps, DiskFields, Goes, Ready, NoService, Stopping
<1>4. CASE \/ ConfigureEnv(p) \/ ConfigureCaddy(p) \/ ConfigureRestart(p)
           \/ ConfigurePublish(p) \/ ConfigureFails(p) \/ ConfigureUndo(p)
           \/ ConfigureAgain(p) \/ ConfigureRaises(p)
  BY <1>4, ConfigureEnvDoes, ConfigureCaddyDoes, ConfigureRestartDoes, ConfigurePublishDoes,
     ConfigureFailsDoes, ConfigureUndoDoes, ConfigureAgainDoes, ConfigureRaisesDoes,
     StartingServes DEF ServesLink, DiskKeeps, DiskFields
<1>5. CASE \/ UninstallLock(p) \/ UninstallRefused(p) \/ UninstallStop(p) \/ UninstallExport(p)
           \/ UninstallExportFails(p) \/ UninstallResume(p) \/ UninstallDisable(p)
  BY <1>5, UninstallLockDoes, UninstallRefusedDoes, UninstallStopDoes, UninstallExportDoes,
     UninstallExportFailsDoes, UninstallResumeDoes, UninstallDisableDoes, StartingServes
     DEF ServesLink, DiskKeeps, DiskFields
<1>6. CASE UninstallRemove(p) \/ UninstallPurge(p) \/ UninstallRaises(p)
  BY <1>6, UninstallRemoveDoes, UninstallPurgeDoes, UninstallRaisesDoes
     DEF ServesLink, DiskKeeps, DiskFields, Goes, Ready, NoService
<1>7. QED BY <1>1, <1>2, <1>3, <1>4, <1>5, <1>6 DEF SetupStep

\* The release that the link points to is not unpacked again when it is there.
LEMMA StagedKeeps ==
  ASSUME TypeOK, NEW r \in Releases, disk' = Staged(r)
  PROVE  LinkedStays
<1>1. disk.dirs \in [Releases -> {"absent", "bare", "ready"}] /\ disk \in Disk
      /\ disk.link \in Releases \cup {None}
  BY DEF TypeOK, Disk
<1>2. disk'.dirs = [disk.dirs EXCEPT ![r] = IF @ # "absent" /\ disk.link = r THEN @ ELSE "bare"]
  BY <1>1 DEF Staged, Disk
<1>3. QED BY <1>1, <1>2 DEF LinkedStays

\* Only setup takes releases away: one that it downloads again, or all of them.
LEMMA SetupStepKeepsReady ==
  ASSUME TypeOK, Placed, NEW p \in Procs, SetupStep(p),
         ~StageRelease(p), ~ActivateStage(p), ~UninstallRemove(p)
  PROVE  \A r \in Releases : disk.dirs[r] = "ready" => disk'.dirs[r] = "ready"
<1>0. disk.dirs \in [Releases -> {"absent", "bare", "ready"}] BY DEF TypeOK, Disk
<1>1. CASE ActivateSync(p)
  BY <1>0, <1>1, ActivateSyncDoes
<1>2. CASE \/ StageDatabase(p) \/ StageDomain(p) \/ StageService(p)
           \/ SetupRaises(p) \/ ActivateBackup(p)
  BY <1>2, StageDatabaseDoes, StageDomainDoes, StageServiceDoes,
     SetupRaisesDoes, ActivateBackupDoes
     DEF DiskKeeps, DiskFields
<1>3. CASE \/ ActivateStop(p) \/ ActivateRefresh(p) \/ ActivateLegacy(p) \/ ActivateSwitch(p)
           \/ ActivateFiles(p) \/ ActivateRestart(p) \/ ActivateCheck(p)
  BY <1>3, ActivateStopDoes, ActivateRefreshDoes, ActivateLegacyDoes, ActivateSwitchDoes,
     ActivateFilesDoes, ActivateRestartDoes, ActivateCheckDoes
     DEF DiskKeeps, DiskFields
<1>4. CASE \/ ActivatePublish(p) \/ ActivateReceipt(p) \/ ActivateRaises(p) \/ DeactivateStop(p)
           \/ DeactivateLink(p) \/ DeactivateFiles(p) \/ DeactivateStart(p)
           \/ DeactivateReceipt(p) \/ DeactivateRaises(p)
  BY <1>4, ActivatePublishDoes, ActivateReceiptDoes, ActivateRaisesDoes, DeactivateStopDoes,
     DeactivateLinkDoes, DeactivateFilesDoes, DeactivateStartDoes, DeactivateReceiptDoes,
     DeactivateRaisesDoes DEF DiskKeeps, DiskFields
<1>5. CASE \/ ConfigureEnv(p) \/ ConfigureCaddy(p) \/ ConfigureRestart(p)
           \/ ConfigurePublish(p) \/ ConfigureFails(p) \/ ConfigureUndo(p)
           \/ ConfigureAgain(p) \/ ConfigureRaises(p)
  BY <1>5, ConfigureEnvDoes, ConfigureCaddyDoes, ConfigureRestartDoes, ConfigurePublishDoes,
     ConfigureFailsDoes, ConfigureUndoDoes, ConfigureAgainDoes, ConfigureRaisesDoes
     DEF DiskKeeps, DiskFields
<1>6. CASE \/ UninstallLock(p) \/ UninstallRefused(p) \/ UninstallStop(p) \/ UninstallExport(p)
           \/ UninstallExportFails(p) \/ UninstallResume(p) \/ UninstallDisable(p)
  BY <1>6, UninstallLockDoes, UninstallRefusedDoes, UninstallStopDoes, UninstallExportDoes,
     UninstallExportFailsDoes, UninstallResumeDoes, UninstallDisableDoes
     DEF DiskKeeps, DiskFields
<1>7. CASE UninstallRemove(p) \/ UninstallPurge(p) \/ UninstallRaises(p)
  BY <1>7, UninstallRemoveDoes, UninstallPurgeDoes, UninstallRaisesDoes
     DEF DiskKeeps, DiskFields, Goes
<1>8. QED
  BY <1>1, <1>2, <1>3, <1>4, <1>5, <1>6, <1>7 DEF SetupStep

\* So the staging steps of setup and activate keep it.
LEMMA SetupStepKeepsLinked ==
  ASSUME TypeOK, Placed, NEW p \in Procs, SetupStep(p), ~UninstallRemove(p)
  PROVE  LinkedStays
<1>0. Path(proc[p]) /\ disk.link \in Releases \cup {None} BY DEF Placed, TypeOK, Disk
<1>1. CASE StageRelease(p)
  <2>1. proc[p].target \in Releases
    BY <1>0, <1>1 DEF StageRelease, Writes, At, Path, Aimed, MenuSteps
  <2>2. QED BY <1>1, <2>1, StagedKeeps DEF StageRelease, Writes, At
<1>2. CASE ActivateStage(p)
  <2>1. proc[p].target \in Releases
    BY <1>0, <1>2 DEF ActivateStage, Writes, At, Path, Aimed, ActivateLabels
  <2>2. QED BY <1>2, <2>1, StagedKeeps DEF ActivateStage, Writes, At
<1>3. CASE ~(StageRelease(p) \/ ActivateStage(p))
  BY <1>0, <1>3, SetupStepKeepsReady DEF LinkedStays
<1>4. QED BY <1>1, <1>2, <1>3

LEMMA DatabaseStepStays ==
  ASSUME TypeOK, Placed, NEW p \in Procs, DatabaseStep(p)
  PROVE  /\ disk'.dirs = disk.dirs /\ disk'.unit = disk.unit
         /\ disk.backups \subseteq disk'.backups
BY ReplaceLockDoes, ReplaceRefusedDoes, ReplaceStopDoes, ReplaceSaveDoes, ReplaceCutDoes,
     RuntimePrepareDoes, RuntimeStartDoes, RuntimeCheckDoes, ReplaceRaisesDoes,
     ReplaceResumeDoes, RestoreStopDoes, RestoreCopyDoes, RestorePrepareDoes,
     RestoreStartDoes, RestoreCheckDoes, RestoreRaisesDoes, OptimizeStopDoes,
     OptimizeDirectoryDoes, OptimizeSaveDoes, StopRefusedDoes, MigrateStopDoes,
     MigrateSaveDoes, MigrateRunDoes, MigrateFailsDoes, BackupRaisesDoes, MutateDoes DEF
     DiskKeeps, DiskFields, DatabaseStep

\* The other groups keep every release that is complete.
LEMMA ReleaseStepKeepsReady ==
  ASSUME TypeOK, Placed, NEW p \in Procs, ReleaseStep(p)
  PROVE  \A r \in Releases : disk.dirs[r] = "ready" => disk'.dirs[r] = "ready"
BY ActivateStepStays, UndoStepStays, RollbackStepStays, ReturnStepStays DEF ReleaseStep

\* A step of an operation keeps ServedFromLink.
LEMMA StepServesLink ==
  ASSUME TypeOK, Placed, NEW p \in Procs, Steps(p), Ready(p), ServedFromLink
  PROVE  ServedFromLink'
<1>1. ServesLink
  BY ReleaseServesLink, CodexServesLink, DatabaseServesLink, SetupServesLink DEF Steps
<1>2. disk.link \in Releases \cup {None} BY DEF TypeOK, Disk
<1>3. SUFFICES ASSUME up' # None PROVE disk'.dirs[disk.link] = "ready"
  BY <1>1 DEF ServesLink, ServedFromLink
<1>4. disk.link \in Releases /\ disk.link # None /\ disk.dirs[disk.link] = "ready"
  BY <1>1, <1>2, <1>3 DEF ServesLink, ServedFromLink
<1>5. ~UninstallRemove(p)
  BY <1>3, UninstallRemoveDoes DEF Ready, NoService, Goes
<1>6. CASE ReleaseStep(p) BY <1>4, <1>6, ReleaseStepKeepsReady
<1>7. CASE CodexStep(p) BY <1>4, <1>7, CodexStepGoes
<1>8. CASE DatabaseStep(p) BY <1>4, <1>8, DatabaseStepStays
<1>9. CASE SetupStep(p) BY <1>4, <1>5, <1>9, SetupStepKeepsLinked DEF LinkedStays
<1>10. QED BY <1>6, <1>7, <1>8, <1>9 DEF Steps
\* The beginning of an operation, its death, and a row leave the link and the releases.
LEMMA NextServesLink ==
  ASSUME HostInv, ServedFromLink, [Next]_hostVars
  PROVE  ServedFromLink'
<1>1. TypeOK /\ Placed /\ disk \in Disk BY DEF HostInv, TypeOK
<1>2. CASE disk'.link = disk.link /\ disk'.dirs = disk.dirs /\ up' = up
  BY <1>2 DEF ServedFromLink
<1>3. CASE Stores
  <2>1. disk' = [disk EXCEPT !.db.rows = @ \cup {writes + 1}] /\ UNCHANGED up
    BY <1>1, <1>3, StoredDisk DEF Stores, ServiceWrites
  <2>2. QED BY <1>1, <1>2, <2>1 DEF Disk
<1>4. CASE UNCHANGED hostVars BY <1>2, <1>4 DEF hostVars, vars
<1>5. ASSUME NEW p \in Procs, At(p, "idle"), Begins(p) PROVE ServedFromLink'
  <2>1. CASE Backup(p)
    <3>1. disk' = Saved /\ UNCHANGED up BY <2>1 DEF Backup
    <3>2. QED BY <1>1, <1>2, <3>1 DEF Saved, Disk
  <2>2. CASE ~Backup(p)
    <3>1. PICK op \in Operations : Begun(p, op) BY <1>1, <1>5, <2>2, BeginsDo
    <3>2. QED BY <1>2, <3>1 DEF Begun
  <2>3. QED BY <2>1, <2>2
<1>6. ASSUME NEW p \in Procs, Steps(p) \/ Dies(p) PROVE ServedFromLink'
  <2>1. CASE Dies(p) BY <1>2, <2>1 DEF Dies
  <2>2. CASE Steps(p) BY <1>1, <2>2, StepServesLink DEF HostInv
  <2>3. QED BY <1>6, <2>1, <2>2
<1>7. QED BY <1>3, <1>4, <1>5, <1>6 DEF Next, Rests

\* At every step, whoever works and wherever he dies, the service that runs was started from the
\* release that the link points to, and that release is complete: no operation of bridge_cli
\* switches the link, stages or removes a release under a running service.
THEOREM AlwaysServedFromLink == Spec => []ServedFromLink
<1>1. Init => ServedFromLink
  <2>1. SUFFICES ASSUME Init PROVE ServedFromLink OBVIOUS
  <2>2. CASE Untouched BY <2>2 DEF Untouched, ServedFromLink
  <2>3. CASE \E r \in Releases \ Checkouts : Installed(r)
    <3>1. PICK r \in Releases : Installed(r) BY <2>3
    <3>2. up = r /\ disk.link = r /\ disk.dirs = [x \in Releases |-> IF x = r THEN "ready"
           ELSE "absent"]
      BY <3>1 DEF Installed
    <3>3. QED BY <3>2 DEF ServedFromLink
  <2>4. QED BY <2>1, <2>2, <2>3 DEF Init
<1>2. QED BY <1>1, InitHostInv, NextHostInv, NextServesLink, PTL DEF Spec

\* Nobody else is at work while a setup with answers on its command line stages, or while a
\* staged database waits for the lock.
StagedAlone ==
  \A p, q \in Procs :
    p # q /\ (proc[p].op = "setup" \/ proc[p].at = "replace.lock") => proc[q].at = "idle"

\* An operation found a service running from files that fit.
Found(l) == l.was /\ l.before.db.schema = Schema[l.before.link]

\* The operations that need not leave one.
Ending == {"stop", "uninstall", "setup", "menu"}

\* The steps between the copy of the database and the last that may put it back.
Replacing ==
  {"replace.cut", "runtime.prepare", "runtime.start", "runtime.check", "restore.stop",
   "restore.copy", "migrate.run"}

\* The link and the schema of the beginning.
Same(l) == disk.link = l.before.link /\ disk.db.schema = l.before.db.schema

\* The databases that may still be put in place have that schema.
Staying(l) ==
  /\ Same(l)
  /\ l.at \in {"migrate.stop", "migrate.save", "migrate.run"} => l.target = disk.link
  /\ l.at \in {"replace.lock", "replace.stop", "replace.save", "replace.cut"} =>
       l.staged.schema = l.before.db.schema
  /\ l.at \in Replacing => l.copied /\ l.copy.schema = l.before.db.schema

\* An operation that found the service running and has to leave one: its link, its schema and its
\* release are those of the beginning if it does not change them, and the release of the beginning
\* is complete in any case.
Serving(l) ==
  Found(l) /\ l.op \notin Ending =>
    /\ l.before.link \in Releases /\ disk.dirs[l.before.link] = "ready"
    /\ l.op \notin Changing \cup {"activate"} => Staying(l)

\* The inductive invariant, of the operation with the lock and of those that wait for it with a
\* staged database. WholeInv says how far a change, a configuration or an activation got; this
\* says it of the other operations.
BackInv == \A p \in Procs : lock = p \/ proc[p].at = "replace.lock" => Serving(proc[p])

\* The service and the files that it runs from stay while another operation waits.
LEMMA OthersServe ==
  ASSUME TypeOK, BackInv, NEW p \in Procs, lock = p \/ proc[p].at = "replace.lock",
         proc'[p] = proc[p], disk'.link = disk.link, disk'.dirs = disk.dirs,
         disk'.db.schema = disk.db.schema
  PROVE  Serving(proc[p])'
<1>1. Serving(proc[p]) BY DEF BackInv
<1>2. QED BY <1>1 DEF Serving, Found, Staying, Same

\* The beginning of an operation makes it true.
LEMMA BeginServes ==
  ASSUME TypeOK, Placed, ServedFromLink, NEW p \in Procs, Begins(p), ~Backup(p)
  PROVE  Serving(proc[p])'
<1> SUFFICES ASSUME Found(proc'[p]), proc'[p].op \notin Ending
             PROVE  /\ proc'[p].before.link \in Releases
                    /\ disk'.dirs[proc'[p].before.link] = "ready"
                    /\ proc'[p].op \notin Changing \cup {"activate"} => Staying(proc[p])'
  BY DEF Serving, Found
<1>1. /\ disk.link \in Releases \cup {None} /\ up \in Releases \cup {None}
      /\ None \notin Releases
  BY HostAssumption DEF TypeOK, Disk
<1>2. PICK op \in Operations : Begun(p, op) BY BeginsDo, Zenon
<1>3. /\ proc'[p].before = disk /\ disk' = disk /\ up # None /\ disk.db.schema = Schema[disk.link]
  BY <1>2 DEF Begun, Found
<1>4. disk.link \in Releases /\ disk.dirs[disk.link] = "ready"
  BY <1>1, <1>3 DEF ServedFromLink
<1>5. ASSUME proc'[p].op \notin Changing \cup {"activate"} PROVE Staying(proc[p])'
  <2>1. CASE BeginUpdate(p) \/ BeginDeploy(p) \/ BeginRollback(p) \/ BeginActivate(p)
    BY <1>5, <2>1, BeginUpdateDoes, BeginDeployDoes, BeginRollbackDoes, BeginActivateDoes
       DEF Begun, Changing
  <2>2. CASE BeginEnable(p) \/ BeginRepair(p) \/ BeginDisable(p) \/ BeginService(p) \/
             BeginConfigure(p)
    BY <1>3, <2>2, BeginEnableDoes, BeginRepairDoes, BeginDisableDoes, BeginServiceDoes,
       BeginConfigureDoes DEF Staying, Same, Replacing
  <2>3. CASE BeginSetup(p) \/ BeginMenu(p) \/ BeginUninstall(p)
    BY <2>3, BeginSetupDoes, BeginMenuDoes, BeginUninstallDoes DEF Begun, Ending
  <2>4. CASE BeginOptimize(p) \/ BeginMigrate(p)
    BY <1>3, <2>4, BeginOptimizeDoes, BeginMigrateDoes DEF Staying, Same, Replacing
  <2>5. CASE BeginImport(p) \/ BeginReset(p)
    <3>1. /\ proc'[p].at = "replace.lock"
          /\ \E rows \in SUBSET {Foreign} :
               proc'[p].staged = Raised([schema |-> 0, rows |-> rows], disk.link)
      BY <2>5, BeginImportDoes, BeginResetDoes
    <3>2. proc'[p].staged.schema = Schema[disk.link] BY <1>4, <3>1, FreshRaised
    <3>3. QED BY <1>3, <3>1, <3>2 DEF Staying, Same, Replacing
  <2>6. QED
    BY <2>1, <2>2, <2>3, <2>4, <2>5 DEF Begins, ReleaseBegins, CodexBegins, DatabaseBegins,
       SetupBegins
<1>6. QED BY <1>3, <1>4, <1>5

-----------------------------------------------------------------------------
\* The steps of the operations that keep the release and the schema.

\* After such a step the link and the schema are those of the beginning, and so are the
\* databases that may still be put in place.
Stayed(p) ==
  /\ disk'.link = proc[p].before.link /\ disk'.db.schema = proc[p].before.db.schema
  /\ Ends(p) \/ Staying(proc[p])'

\* The steps of the groups that such operations take.
LEMMA DatabaseStepStaying ==
  ASSUME TypeOK, Placed, NEW p \in Procs, DatabaseStep(p), Staying(proc[p]), Found(proc[p]),
         proc[p].before.link \in Releases
  PROVE  Stayed(p)
<1> DEFINE l == proc[p]
<1> USE DEF Stayed, Staying, Same, Replacing, Goes, Keeps, Fields, DiskKeeps, DiskFields
<1>0. Same(l) /\ Schema[l.before.link] # 0 /\ l.before.db.schema = Schema[l.before.link]
  BY HostAssumption DEF Found
<1>1. CASE ReplaceLock(p) BY <1>0, <1>1, ReplaceLockDoes
<1>2. CASE ReplaceRefused(p) BY <1>0, <1>2, ReplaceRefusedDoes
<1>3. CASE ReplaceStop(p) BY <1>0, <1>3, ReplaceStopDoes
<1>4. CASE ReplaceSave(p)
  <2>1. disk.db.schema # 0 => proc'[p].copied BY <1>4, ReplaceSaveDoes
  <2>2. QED BY <1>0, <1>4, <2>1, ReplaceSaveDoes
<1>5. CASE ReplaceCut(p)
  <2>1. /\ proc[p].at = "replace.cut" /\ proc'[p].at = "runtime.prepare"
        /\ disk'.link = disk.link /\ disk'.db = l.staged
    BY <1>5, ReplaceCutDoes DEF Goes
  <2>2. /\ proc'[p].copied = l.copied /\ proc'[p].copy = l.copy
        /\ proc'[p].before = l.before
    BY <1>5, ReplaceCutDoes
  <2>3. QED BY <1>0, <2>1, <2>2
<1>6. CASE RuntimePrepare(p) BY <1>0, <1>6, RuntimePrepareDoes
<1>7. CASE RuntimeStart(p) BY <1>0, <1>7, RuntimeStartDoes
<1>8. CASE RuntimeCheck(p) BY <1>0, <1>8, RuntimeCheckDoes
<1>9. CASE ReplaceRaises(p) BY <1>0, <1>9, ReplaceRaisesDoes
<1>10. CASE ReplaceResume(p) BY <1>0, <1>10, ReplaceResumeDoes
<1>11. CASE RestoreStop(p) BY <1>0, <1>11, RestoreStopDoes
<1>12. CASE RestoreCopy(p) BY <1>0, <1>12, RestoreCopyDoes
<1>13. CASE RestorePrepare(p) BY <1>0, <1>13, RestorePrepareDoes
<1>14. CASE RestoreStart(p) BY <1>0, <1>14, RestoreStartDoes
<1>15. CASE RestoreCheck(p) BY <1>0, <1>15, RestoreCheckDoes
<1>16. CASE RestoreRaises(p) BY <1>0, <1>16, RestoreRaisesDoes
<1>17. CASE OptimizeStop(p) BY <1>0, <1>17, OptimizeStopDoes
<1>18. CASE OptimizeDirectory(p) BY <1>0, <1>18, OptimizeDirectoryDoes
<1>19. CASE OptimizeSave(p)
  <2>1. /\ disk'.link = disk.link /\ disk'.db = disk.db /\ proc'[p].at = "replace.cut"
        /\ proc'[p].copied = TRUE /\ proc'[p].copy = disk.db /\ proc'[p].staged = disk.db
    BY <1>19, OptimizeSaveDoes
  <2>2. proc'[p].before = l.before BY <1>19, OptimizeSaveDoes
  <2>3. QED BY <1>0, <2>1, <2>2
<1>20. CASE StopRefused(p) BY <1>0, <1>20, StopRefusedDoes
<1>21. CASE MigrateStop(p) BY <1>0, <1>21, MigrateStopDoes
<1>22. CASE MigrateSave(p)
  <2>1. /\ disk'.link = disk.link /\ disk'.db = disk.db /\ proc'[p].at = "migrate.run"
        /\ l.at = "migrate.save" /\ proc'[p].copied = TRUE /\ proc'[p].copy = disk.db
    BY <1>22, MigrateSaveDoes
  <2>2. proc'[p].before = l.before /\ proc'[p].target = l.target BY <1>22, MigrateSaveDoes
  <2>3. QED BY <1>0, <2>1, <2>2
<1>23. CASE MigrateRun(p) \/ MigrateFails(p)
  <2>1. /\ disk'.db = Raised(disk.db, l.target) /\ l.target = disk.link
        /\ disk'.link = disk.link
    BY <1>23, MigrateRunDoes, MigrateFailsDoes
  <2>2. disk.db \in Database /\ Schema[l.target] \in Nat
    BY <1>0, <2>1, HostAssumption DEF TypeOK, Disk
  <2>3. disk'.db.schema = disk.db.schema BY <1>0, <2>1, <2>2 DEF Raised, Database
  <2>4. QED BY <1>0, <1>23, <2>1, <2>3, MigrateRunDoes, MigrateFailsDoes
<1>24. CASE BackupRaises(p) BY <1>0, <1>24, BackupRaisesDoes
<1>25. CASE Mutate(p) BY <1>0, <1>25, MutateDoes
<1>26. QED
  BY <1>1, <1>2, <1>3, <1>4, <1>5, <1>6, <1>7, <1>8, <1>9, <1>10, <1>11, <1>12, <1>13, <1>14,
     <1>15, <1>16, <1>17, <1>18, <1>19, <1>20, <1>21, <1>22, <1>23, <1>24, <1>25
     DEF DatabaseStep

\* An operation without the lock takes no step of the companion.
LEMMA CodexStepAway ==
  ASSUME NEW p \in Procs, CodexStep(p), ~Disable(p), ~CodexRaises(p)
  PROVE  proc[p].at \in ReconcileLabels \cup EnableLabels
<1>1. CASE ReconcileKeeps(p) \/ ReconcileRepairs(p) \/ ReconcileRaises(p) \/ StageAside(p) \/
           StageInstall(p) \/ StageInstallFails(p) \/ StagePrepare(p)
  BY <1>1 DEF ReconcileKeeps, ReconcileRepairs, ReconcileRaises, StageAside,
       StageInstall, StageInstallFails, StagePrepare, Changes, Looks, At, ReconcileLabels
<1>2. CASE StagePrepareFails(p) \/ StageRaises(p) \/ StageFail(p) \/ FailOff(p) \/
           EnableStart(p) \/ EnableRefresh(p) \/ EnableReady(p) \/ EnableStatus(p)
  BY <1>2 DEF StagePrepareFails, StageRaises, StageFail, FailOff, EnableStart,
       EnableRefresh, EnableReady, EnableStatus, Changes, Looks, Runs, At, ReconcileLabels,
       EnableLabels
<1>3. CASE EnableRaises(p) \/ EnableOff(p) \/ EnableBack(p) \/ EnableFail(p) \/
           RepairRestart(p) \/ RepairStatus(p) \/ RepairRaises(p) \/ RepairBack(p)
  BY <1>3 DEF EnableRaises, EnableOff, EnableBack, EnableFail, RepairRestart, RepairStatus,
       RepairRaises, RepairBack, Changes, Looks, At, ReconcileLabels, EnableLabels
<1>4. CASE RepairAgain(p) \/ RepairFail(p)
  BY <1>4 DEF RepairAgain, RepairFail, Changes, At, ReconcileLabels
<1>5. QED BY <1>1, <1>2, <1>3, <1>4 DEF CodexStep

LEMMA CodexStepStaying ==
  ASSUME TypeOK, Placed, NEW p \in Procs, CodexStep(p), Staying(proc[p])
  PROVE  Stayed(p)
<1>1. /\ disk' = disk
      /\ \/ Ends(p) /\ torn'
         \/ /\ \A f \in {"op", "link", "target", "inst", "new", "before", "published", "copied",
                         "copy", "staged", "was"} : proc'[p][f] = proc[p][f]
            /\ \/ proc'[p].at \in ReconcileLabels \cup EnableLabels
               \/ proc'[p].at = proc[p].ret
               \/ proc'[p].at = "return"
  BY CodexStepGoes
<1>2. CASE Disable(p)
  BY <1>2, DisableDoes DEF Stayed, Staying, Same, Replacing, Goes, Keeps, Fields
<1>3. CASE ~Disable(p) /\ ~Ends(p)
  <2>1. Path(proc[p]) /\ proc[p].at \in ReconcileLabels \cup EnableLabels
    <3>1. CASE CodexRaises(p) BY <1>3, <3>1, CodexRaisesDoes DEF Goes, Placed
    <3>2. CASE ~CodexRaises(p) BY <1>3, <3>2, CodexStepAway DEF Placed
    <3>3. QED BY <3>1, <3>2
  <2>2. proc[p].ret \in {"return", "receipt", "rollback.receipt"} BY <2>1 DEF Path
  <2>3. Staying(proc[p])'
    BY <1>1, <1>3, <2>2 DEF Staying, Same, Replacing, ReconcileLabels, EnableLabels
  <2>4. QED BY <1>1, <2>3 DEF Stayed, Staying, Same
<1>4. CASE Ends(p) BY <1>1, <1>4 DEF Stayed, Staying, Same
<1>5. QED BY <1>2, <1>3, <1>4

\* A configuration does not touch the link or the database.
LEMMA ConfigureStepStaying ==
  ASSUME TypeOK, Placed, NEW p \in Procs, ConfigureStep(p), Staying(proc[p])
  PROVE  Stayed(p)
<1> USE DEF Stayed, Staying, Same, Replacing, Goes, Keeps, Fields, DiskKeeps, DiskFields
<1>1. CASE ConfigureEnv(p) BY <1>1, ConfigureEnvDoes
<1>2. CASE ConfigureCaddy(p) BY <1>2, ConfigureCaddyDoes
<1>3. CASE ConfigureRestart(p) BY <1>3, ConfigureRestartDoes
<1>4. CASE ConfigurePublish(p) BY <1>4, ConfigurePublishDoes
<1>5. CASE ConfigureFails(p) BY <1>5, ConfigureFailsDoes
<1>6. CASE ConfigureUndo(p) BY <1>6, ConfigureUndoDoes
<1>7. CASE ConfigureAgain(p) BY <1>7, ConfigureAgainDoes
<1>8. CASE ConfigureRaises(p) BY <1>8, ConfigureRaisesDoes
<1>9. QED
  BY <1>1, <1>2, <1>3, <1>4, <1>5, <1>6, <1>7, <1>8 DEF ConfigureStep

\* So do all the steps of such an operation, and the release stays complete.
LEMMA StepStays ==
  ASSUME TypeOK, Placed, NEW p \in Procs, Steps(p), Staying(proc[p]), Found(proc[p]),
         proc[p].before.link \in Releases, disk.dirs[proc[p].before.link] = "ready",
         proc[p].op \notin Ending \cup Changing \cup {"activate"}
  PROVE  Stayed(p) /\ disk'.dirs[proc[p].before.link] = "ready"
<1>1. Path(proc[p]) BY DEF Placed
<1>2. CASE ReleaseStep(p)
  <2>1. Return(p) BY <1>1, <1>2, ReleaseStepAt DEF Path, Changing
  <2>2. QED BY <2>1, ReturnDoes DEF Stayed, Staying, Same
<1>3. CASE CodexStep(p) BY <1>3, CodexStepStaying, CodexStepGoes
<1>4. CASE DatabaseStep(p) BY <1>4, DatabaseStepStaying, DatabaseStepStays
<1>5. CASE SetupStep(p)
  <2>1. ConfigureStep(p) /\ proc[p].at \in ConfigureLabels
    BY <1>1, <1>5, SetupStepAt DEF Path, Ending
  <2>2. ~StageRelease(p) /\ ~ActivateStage(p) /\ ~UninstallRemove(p)
    BY <2>1 DEF StageRelease, ActivateStage, UninstallRemove, Writes, Runs, At, ConfigureLabels
  <2>3. QED BY <1>5, <2>1, <2>2, ConfigureStepStaying, SetupStepKeepsReady
<1>6. QED BY <1>2, <1>3, <1>4, <1>5 DEF Steps

\* The release of the beginning stays complete, whatever a change or an activation does.
LEMMA StepKeepsBefore ==
  ASSUME HostInv, NEW p \in Procs, Steps(p), Settling(proc[p]),
         proc[p].before.link \in Releases, disk.dirs[proc[p].before.link] = "ready",
         proc[p].op \in Changing \cup {"activate"}
  PROVE  disk'.dirs[proc[p].before.link] = "ready"
<1>1. TypeOK /\ Placed /\ Path(proc[p]) BY DEF HostInv, Placed
<1>2. CASE proc[p].op \in Changing
  <2>1. proc[p].at \notin DatabaseLabels \cup {"mutate"} \cup MenuSteps \cup ActivateLabels
                         \cup ConfigureLabels \cup UninstallLabels
    BY <1>1, <1>2 DEF Path, Changing
  <2>2. ~DatabaseStep(p) /\ ~SetupStep(p) BY <2>1, DatabaseStepAt, SetupStepAt
  <2>3. QED BY <1>1, <2>2, ReleaseStepKeepsReady, CodexStepGoes DEF Steps
<1>3. CASE proc[p].op = "activate"
  <2>1. CASE Return(p) BY <1>1, <2>1, ReturnDoes
  <2>2. CASE ActivationStep(p)
    <3>1. SetupStep(p) /\ proc[p].at \notin MenuSteps \cup UninstallLabels
      BY <1>1, <1>3, <2>2 DEF ActivationStep, SetupStep, Path
    <3>2. ~StageRelease(p) /\ ~UninstallRemove(p)
      BY <3>1 DEF StageRelease, UninstallRemove, Writes, Runs, At, MenuSteps, UninstallLabels
    <3>3. CASE ActivateStage(p)
      <4>1. disk.link = proc[p].before.link
        BY <1>1, <1>3, <3>3, ActivateStageDoes DEF Settling, Activating, Unactivated, Goes
      <4>2. disk.link # None BY <4>1, HostAssumption
      <4>3. QED BY <1>1, <3>1, <3>2, <4>1, <4>2, SetupStepKeepsLinked DEF LinkedStays
    <3>4. CASE ~ActivateStage(p) BY <1>1, <3>1, <3>2, <3>4, SetupStepKeepsReady
    <3>5. QED BY <3>3, <3>4
  <2>3. QED BY <1>1, <1>3, <2>1, <2>2, ConfigureTakes
<1>4. QED BY <1>2, <1>3

\* An operation that may have to leave a service is at work with the lock, or waits with a
\* staged database.
LEMMA AtWork ==
  ASSUME HostInv, BackInv, NEW p \in Procs, proc[p].at # "idle", proc[p].op \notin Ending
  PROVE  /\ Serving(proc[p]) /\ (lock = p \/ proc[p].at = "replace.lock")
         /\ proc[p].op \in Changing \cup {"activate"} => lock = p
<1>1. Path(proc[p]) /\ (Free(proc[p]) \/ lock = p) BY DEF HostInv, Placed, Single
<1>2. lock = p \/ proc[p].at = "replace.lock"
  BY <1>1 DEF Free, Path, Ending, UninstallLabels
<1>3. proc[p].at = "replace.lock" => proc[p].op \notin Changing \cup {"activate"}
  BY <1>1 DEF Path, DatabaseLabels, Changing
<1>4. QED BY <1>2, <1>3 DEF BackInv

\* An operation that goes on.
LEMMA StepServes ==
  ASSUME HostInv, WholeInv, BackInv, NEW p \in Procs, proc[p].at # "idle", Steps(p), ~Ends(p)
  PROVE  Serving(proc[p])'
<1> DEFINE l == proc[p]
<1>1. /\ TypeOK /\ Placed /\ Ready(p) /\ None \notin Procs
  BY HostAssumption DEF HostInv
<1>2. Moves(p) /\ Serves(p) BY <1>1, StepDoes
<1>3. proc'[p].op = l.op /\ proc'[p].was = l.was /\ proc'[p].before = l.before
  BY <1>2, RestingIsPlaced DEF Serves, Locks, Moves, Steady
<1> SUFFICES ASSUME Found(l), l.op \notin Ending
             PROVE  /\ l.before.link \in Releases /\ disk'.dirs[l.before.link] = "ready"
                    /\ l.op \notin Changing \cup {"activate"} => Staying(proc[p])'
  BY <1>3 DEF Serving, Found
<1>4. /\ Serving(l) /\ (l.op \in Changing \cup {"activate"} => lock = p)
      /\ l.before.link \in Releases /\ disk.dirs[l.before.link] = "ready"
  BY AtWork DEF Serving
<1>5. CASE l.op \in Changing \cup {"activate"}
  BY <1>1, <1>4, <1>5, StepKeepsBefore DEF WholeInv
<1>6. CASE l.op \notin Changing \cup {"activate"}
  BY <1>1, <1>4, <1>6, StepStays DEF Serving, Stayed
<1>7. QED BY <1>4, <1>5, <1>6

\* A step of p while q holds the lock or waits with a staged database.
LEMMA OtherSteps ==
  ASSUME HostInv, StagedAlone, NEW p \in Procs, NEW q \in Procs \ {p}, proc[p].at # "idle",
         Steps(p) \/ Dies(p), lock = q \/ proc[q].at = "replace.lock"
  PROVE  UNCHANGED disk
<1>1. /\ TypeOK /\ Placed /\ Single /\ Ready(p) /\ None \notin Procs
  BY HostAssumption DEF HostInv
<1>2. proc[q].at # "idle"
  BY <1>1 DEF TypeOK, At
<1>3. lock = q /\ proc[p].op # "setup" /\ proc[p].at # "replace.lock"
  BY <1>2 DEF StagedAlone
<1>4. proc[p].at = "uninstall.lock" BY <1>1, <1>3 DEF Single, Free
<1>5. CASE Dies(p) BY <1>5 DEF Dies
<1>6. CASE Steps(p)
  <2>1. ~CodexStep(p) BY <1>4, CodexStepAt DEF ReconcileLabels, EnableLabels
  <2>2. ~ReleaseStep(p) BY <1>4, ReleaseStepAt DEF UpdateLabels, RollbackLabels
  <2>3. ~DatabaseStep(p) BY <1>4, DatabaseStepAt DEF DatabaseLabels
  <2>4. UninstallStep(p)
    BY <1>4, <1>6, <2>1, <2>2, <2>3, SetupStepAt
       DEF Steps, MenuSteps, ActivateLabels, ConfigureLabels
  <2>5. UninstallLock(p) \/ UninstallRefused(p)
    BY <1>4, <2>4 DEF UninstallStep, UninstallStop, UninstallExport, UninstallExportFails,
       UninstallResume, UninstallDisable, UninstallRemove, UninstallPurge,
       UninstallRaises, Escapes, Looks, Runs, Writes, At
  <2>6. QED BY <1>1, <2>5, UninstallLockDoes, UninstallRefusedDoes
<1>7. QED BY <1>5, <1>6

\* BackInv is inductive.
LEMMA NextBackInv ==
  ASSUME HostInv, WholeInv, ServedFromLink, BackInv, StagedAlone, [Next]_hostVars
  PROVE  BackInv'
<1>1. /\ TypeOK /\ Placed /\ disk \in Disk /\ None \notin Procs
      /\ lock # None => proc[lock].at # "idle"
  BY HostAssumption DEF HostInv, TypeOK, At
<1>2. ASSUME proc' = proc, lock' = lock, disk'.link = disk.link, disk'.dirs = disk.dirs,
             disk'.db.schema = disk.db.schema
      PROVE  BackInv'
  BY <1>1, <1>2, OthersServe DEF BackInv
<1>3. CASE Stores
  <2>1. disk' = [disk EXCEPT !.db.rows = @ \cup {writes + 1}] /\ UNCHANGED <<lock, proc>>
    BY <1>1, <1>3, StoredDisk DEF Stores, ServiceWrites
  <2>2. disk'.link = disk.link /\ disk'.dirs = disk.dirs /\ disk'.db.schema = disk.db.schema
    BY <1>1, <1>3, <2>1, StoredDisk DEF Disk
  <2>3. QED BY <1>2, <2>1, <2>2
<1>4. CASE UNCHANGED hostVars BY <1>2, <1>4 DEF hostVars, vars
<1>5. ASSUME NEW p \in Procs, At(p, "idle"), Begins(p) PROVE BackInv'
  <2>1. CASE Backup(p)
    <3>1. disk' = Saved /\ UNCHANGED <<lock, proc>> BY <2>1 DEF Backup
    <3>2. disk'.link = disk.link /\ disk'.dirs = disk.dirs /\ disk'.db = disk.db
      BY <1>1, <3>1 DEF Saved, Disk
    <3>3. QED BY <1>2, <3>1, <3>2
  <2>2. CASE ~Backup(p)
    <3>1. PICK op \in Operations : Begun(p, op) BY <1>1, <1>5, <2>2, BeginsDo
    <3>2. disk' = disk /\ \A q \in Procs \ {p} : proc'[q] = proc[q]
      BY <3>1 DEF Begun, Framed
    <3>3. proc'[p].at # "idle" /\ (lock' = lock \/ lock' = p)
      BY <1>1, <1>5, <2>2, BeginsDo DEF Beginnings, MenuSteps
    <3>4. Serving(proc[p])' BY <1>1, <1>5, <2>2, BeginServes
    <3>5. ASSUME NEW q \in Procs \ {p}, lock' = q \/ proc'[q].at = "replace.lock"
          PROVE  Serving(proc[q])'
      <4>1. lock = q \/ proc[q].at = "replace.lock" BY <3>2, <3>3, <3>5
      <4>2. QED BY <1>1, <3>2, <3>5, <4>1, OthersServe
    <3>6. QED BY <3>2, <3>3, <3>4, <3>5 DEF BackInv
  <2>3. QED BY <2>1, <2>2
<1>6. ASSUME NEW p \in Procs, ~At(p, "idle"), Steps(p) \/ Dies(p) PROVE BackInv'
  <2>1. Moves(p) /\ Serves(p) /\ proc[p].at # "idle"
    BY <1>1, <1>6, StepDoes DEF HostInv, At
  <2>2. \/ Ends(p)
        \/ proc'[p].at # "idle" /\ (lock' = lock \/ lock' = p)
    BY <2>1 DEF Serves, Locks
  <2>3. Dies(p) => Ends(p) BY <1>1, LeaveRests DEF Dies, Leave, Ends
  <2>4. lock' = p \/ proc'[p].at = "replace.lock" => Serving(proc[p])'
    <3>1. CASE Ends(p) BY <1>1, <3>1, RestingIsPlaced DEF Ends
    <3>2. CASE ~Ends(p) BY <1>6, <2>1, <2>3, <3>2, StepServes
    <3>3. QED BY <3>1, <3>2
  <2>6. \A q \in Procs \ {p} : proc'[q] = proc[q] BY <2>1 DEF Moves, Framed
  <2>7. ASSUME NEW q \in Procs \ {p}, lock' = q \/ proc'[q].at = "replace.lock"
        PROVE  Serving(proc[q])'
    <3>1. lock' = q => lock = q BY <1>1, <2>2, <2>7 DEF Ends
    <3>2. lock = q \/ proc[q].at = "replace.lock" BY <2>6, <2>7, <3>1
    <3>3. UNCHANGED disk BY <1>6, <2>1, <3>2, OtherSteps
    <3>4. QED BY <1>1, <2>6, <3>2, <3>3, OthersServe
  <2>8. QED BY <2>4, <2>6, <2>7 DEF BackInv
<1>7. QED BY <1>3, <1>4, <1>5, <1>6 DEF Next, Rests

\* An operation that ends.
LEMMA EndServes ==
  ASSUME HostInv, WholeInv, BackInv, Next, NEW p \in Procs, Ended(p), Found(proc[p]),
         proc[p].op \notin Ending
  PROVE  Fits(disk.link)'
<1> DEFINE l == proc[p]
<1>1. TypeOK /\ Placed /\ l.at # "idle" /\ proc'[p].at = "idle" /\ ~torn' /\ None \notin Releases
      /\ Ready(p)
  BY HostAssumption DEF HostInv, Ended, Resting0, At
<1>2. Steps(p) BY EndedSteps
<1>3. /\ Serving(l) /\ (l.op \in Changing \cup {"activate"} => lock = p)
      /\ l.before.link \in Releases /\ disk.dirs[l.before.link] = "ready"
      /\ l.before.db.schema = Schema[l.before.link]
  BY <1>1, AtWork DEF Serving, Found
<1>4. CASE l.op \in Changing \cup {"activate"}
  <2>1. Settling(l) /\ l.target \in Releases
    <3>1. p # None BY HostAssumption
    <3>2. Path(l) BY <1>1 DEF Placed
    <3>3. QED BY <1>3, <1>4, <3>1, <3>2 DEF WholeInv, Path, Aimed, Changing
  <2>2. disk'.dirs[l.before.link] = "ready" BY <1>2, <1>3, <1>4, <2>1, StepKeepsBefore
  <2>3. CASE l.op \in Changing
    BY <1>1, <1>3, <2>1, <2>2, <2>3, EndSettles DEF Outcome, SameData, Fits
  <2>4. CASE l.op = "activate"
    BY <1>1, <1>3, <2>1, <2>2, <2>4, EndSettles DEF Settled, Fits
  <2>5. QED BY <1>4, <2>3, <2>4
<1>5. CASE l.op \notin Changing \cup {"activate"}
  <2>1. Stayed(p) /\ disk'.dirs[l.before.link] = "ready"
    BY <1>1, <1>2, <1>3, <1>5, StepStays DEF Serving
  <2>2. QED BY <1>1, <1>3, <2>1 DEF Stayed, Fits
<1>6. QED BY <1>4, <1>5

\* An operation that found a service running from files that fit leaves files that fit, whether it
\* succeeded, was refused or went back, for every operation but stop, uninstall and the staging of
\* setup, on whichever host and whatever died before: provided that no setup stages beside it and
\* that nobody works between the staging of a database and its cut-over (StagedAlone).
THEOREM EveryServiceComesBack == Spec /\ []StagedAlone => ServiceBack
<1>1. ASSUME HostInv, WholeInv, BackInv, [Next]_hostVars
      PROVE  [\A p \in Procs :
                /\ Ended(p)
                /\ proc[p].was
                /\ proc[p].before.db.schema = Schema[proc[p].before.link]
                /\ proc[p].op \notin {"stop", "uninstall", "setup", "menu"}
                /\ ~mixed'
                => Fits(disk.link)']_hostVars
  BY <1>1, EndServes DEF Found, Ending
<1>2. Init => WholeInv /\ BackInv
  <2> SUFFICES ASSUME Init PROVE WholeInv /\ BackInv OBVIOUS
  <2>2. lock = None /\ proc = [p \in Procs |-> Resting] BY DEF Init
  <2>3. QED
    BY <2>2, RestingIsPlaced, HostAssumption DEF WholeInv, BackInv
<1>3. ASSUME HostInv, WholeInv, BackInv, ServedFromLink, StagedAlone, [Next]_hostVars
      PROVE  WholeInv' /\ BackInv'
  <2>1. SetupAlone BY <1>3 DEF SetupAlone, StagedAlone, Changing
  <2>2. QED BY <1>3, <2>1, NextWholeInv, NextBackInv
<1>4. QED
  BY <1>1, <1>2, <1>3, InitHostInv, NextHostInv, AlwaysServedFromLink, PTL DEF Spec, ServiceBack

(***************************************************************************)
(* UpkeepInv: a host that is set up and then used.                         *)
(***************************************************************************)

\* The operations that an installed host is used with.
Upkeep ==
  {"update", "deploy", "rollback", "enable", "repair", "disable", "import", "reset", "optimize",
   "migrate", "backup", "start", "stop", "restart"}

\* Nobody stages, activates or configures; nobody died on the way.
OnlyUpkeep == \A p \in Procs : proc[p].at # "idle" => proc[p].op \in Upkeep

Managed == disk.link \in Releases /\ disk.inst.mode = "managed" /\ disk.unit = "managed"

\* The link, the installation file and the database belong together.
Agreed ==
  /\ disk.dirs[disk.link] = "ready"
  /\ disk.inst.version = Version[disk.link]
  /\ ~mixed => disk.db.schema = Schema[disk.link]

\* What a rollback relies on.
ReceiptOK ==
  LET receipt == disk.receipt IN
  receipt.op \in {"update", "deploy"} /\ receipt.state = "complete" =>
    /\ receipt.link \in Releases /\ disk.dirs[receipt.link] = "ready"
    /\ receipt.version = Version[receipt.link]
    /\ receipt.copy \in disk.backups
    /\ ~mixed => receipt.copy.schema = Schema[receipt.link]

\* What an operation on the release began with and aims at.
Aims(l) ==
  /\ l.before \in Disk /\ l.before.link \in Releases
  /\ disk.dirs[l.before.link] = "ready"
  /\ l.before.inst.version = Version[l.before.link] /\ l.before.inst.mode = "managed"
  /\ ~mixed => l.before.db.schema = Schema[l.before.link]
  /\ l.target \in Releases /\ l.new.version = Version[l.target] /\ l.new.mode = "managed"

\* What an operation on the database puts back.
Backed(l) ==
  /\ l.at \in {"migrate.stop", "migrate.save", "migrate.run"} => l.target = disk.link
  /\ l.at \in {"replace.cut", "migrate.run", "runtime.prepare", "runtime.start",
               "runtime.check", "restore.stop", "restore.copy"} /\ ~mixed =>
       l.copied /\ l.copy.schema = Schema[disk.link]

\* Whoever holds the lock is on its way; with the lock free everything fits.
Worked(l) == IF l.op \in Changing THEN Aims(l) ELSE Agreed /\ Backed(l)

\* The inductive invariant of a host that is set up and then used: what LinkInstAgree and
\* RollbackReady say needs that no staging of setup came in between, of which a later update knows
\* nothing.
UpkeepInv ==
  ~torn => Managed /\ ReceiptOK /\ (IF lock = None THEN Agreed ELSE Worked(proc[lock]))

\* A step that keeps what the operation began with keeps its aim.
LEMMA AimsStay ==
  ASSUME NEW p \in Procs, Aims(proc[p]), Steady(p),
         \A r \in Releases : disk.dirs[r] = "ready" => disk'.dirs[r] = "ready",
         mixed' = mixed
  PROVE  Aims(proc[p])'
BY DEF Aims, Steady

\* What an operation on the release writes: the link and the installation file that it found
\* or wants, and receipts, of which a rollback reads the completed ones of update and deploy.
LEMMA ReleaseStepWrites ==
  ASSUME TypeOK, Placed, NEW p \in Procs, ReleaseStep(p)
  PROVE  /\ disk'.link \in {disk.link, proc[p].link, proc[p].target}
         /\ disk'.inst \in {disk.inst, proc[p].inst, proc[p].new}
         /\ disk'.unit = disk.unit /\ disk.backups \subseteq disk'.backups
         /\ \/ disk'.receipt = disk.receipt
            \/ proc[p].at = "receipt" /\ disk'.receipt = Completed(p)
            \/ disk'.receipt.op = "rollback" \/ disk'.receipt.state # "complete"
<1>0. disk'.unit = disk.unit /\ disk.backups \subseteq disk'.backups
  BY ActivateStepStays, UndoStepStays, RollbackStepStays, ReturnStepStays DEF ReleaseStep
<1> USE DEF DiskKeeps, DiskFields
<1>1. CASE ActivateStep(p)
  <2>1. CASE Unpack(p) \/ Environment(p) \/ EnvironmentFails(p) \/ Preflight(p) \/ StopService(p) \/
             SaveDatabase(p) \/ MigrateDatabase(p) \/ MigrationFails(p)
    BY <1>0, <2>1, UnpackDoes, EnvironmentDoes, EnvironmentFailsDoes, PreflightDoes,
       StopServiceDoes,
       SaveDatabaseDoes, MigrateDatabaseDoes, MigrationFailsDoes
  <2>2. CASE SwitchRelease(p) \/ StartService(p) \/ CheckService(p) \/ PublishInstallation(p) \/
             Return(p) \/ BodyRaises(p)
    BY <1>0, <2>2, SwitchReleaseDoes, StartServiceDoes, CheckServiceDoes, PublishInstallationDoes,
       ReturnDoes, BodyRaisesDoes
  <2>3. CASE WriteReceipt(p) BY <1>0, <2>3, WriteReceiptDoes DEF Goes
  <2>4. QED BY <1>1, <2>1, <2>2, <2>3 DEF ActivateStep
<1>2. CASE UndoStep(p)
  BY <1>0, <1>2, UndoStopDoes, UndoSwitchDoes, UndoUnlinkDoes, UndoCopyDoes, UndoStartDoes,
     UndoPublishDoes, UndoReceiptDoes, UndoRaisesDoes DEF UndoStep
<1>3. CASE RollbackStep(p)
  BY <1>0, <1>3, RollbackSaveDoes, RollbackStopDoes, RollbackRefusedDoes, RollbackSwitchDoes,
     RollbackUnlinkDoes, RollbackCopyDoes, RollbackStartDoes, RollbackCheckDoes,
     RollbackPublishDoes, RollbackReceiptDoes, RollbackRaisesDoes DEF RollbackStep
<1>4. CASE ReturnStep(p)
  BY <1>0, <1>4, ReturnStopDoes, ReturnSwitchDoes, ReturnUnlinkDoes, ReturnCopyDoes,
     ReturnStartDoes,
     ReturnPublishDoes, ReturnRaisesDoes DEF ReturnStep
<1>5. QED BY <1>1, <1>2, <1>3, <1>4 DEF ReleaseStep

\* A command on the database leaves one that fits, or puts back the one it found.
LEMMA DatabaseStepUpkeep ==
  ASSUME TypeOK, Placed, NEW p \in Procs, DatabaseStep(p), mixed' = (mixed \/ Mixes(p)), ~torn',
         Managed, ReceiptOK, Agreed, Backed(proc[p])
  PROVE  /\ Managed' /\ ReceiptOK' /\ Agreed'
         /\ Ends(p) \/ Backed(proc[p])'
<1>0. /\ disk'.dirs = disk.dirs /\ disk'.unit = disk.unit /\ disk.backups \subseteq disk'.backups
      /\ (~mixed' => ~mixed) /\ Schema[disk.link] # 0
  BY DatabaseStepStays, HostAssumption DEF Managed
<1>1. CASE ReplaceLock(p)
  <2>1. /\ proc[p].at = "replace.lock" /\ proc'[p].at = "replace.stop"
        /\ proc'[p].op = proc[p].op /\ proc'[p].target = proc[p].target
        /\ proc'[p].copied = proc[p].copied /\ proc'[p].copy = proc[p].copy /\ disk' = disk
    BY <1>1, ReplaceLockDoes DEF Fields, Keeps
  <2>2. Managed' /\ ReceiptOK' BY <2>1, <1>0 DEF Managed, ReceiptOK
  <2>3. Agreed' BY <2>1, <1>0 DEF Agreed, Backed
  <2>4. Backed(proc[p])' BY <2>1, <1>0 DEF Backed, Agreed
  <2>6. QED BY <2>2, <2>3, <2>4
<1>2. CASE ReplaceRefused(p)
  <2>1. Ends(p) /\ disk' = disk BY <1>2, ReplaceRefusedDoes
  <2>2. QED BY <2>1, <1>0 DEF Managed, ReceiptOK, Agreed
<1>3. CASE ReplaceStop(p)
  <2>1. /\ proc[p].at = "replace.stop" /\ proc'[p].at = "replace.save"
        /\ proc'[p].op = proc[p].op /\ proc'[p].target = proc[p].target
        /\ proc'[p].copied = proc[p].copied /\ proc'[p].copy = proc[p].copy /\ disk' = disk
    BY <1>3, ReplaceStopDoes DEF Fields, Keeps
  <2>2. Managed' /\ ReceiptOK' BY <2>1, <1>0 DEF Managed, ReceiptOK
  <2>3. Agreed' BY <2>1, <1>0 DEF Agreed, Backed
  <2>4. Backed(proc[p])' BY <2>1, <1>0 DEF Backed, Agreed
  <2>6. QED BY <2>2, <2>3, <2>4
<1>4. CASE ReplaceSave(p)
  <2>1. /\ proc[p].at = "replace.save" /\ proc'[p].at = "replace.cut"
        /\ proc'[p].op = proc[p].op /\ proc'[p].target = proc[p].target
        /\ proc'[p].copy = disk.db /\ disk'.link = disk.link /\ disk'.inst = disk.inst
        /\ disk'.db = disk.db /\ disk'.receipt = disk.receipt
        /\ (disk.db.schema # 0 => proc'[p].copied)
    BY <1>4, ReplaceSaveDoes DEF DiskFields, DiskKeeps, Fields, Keeps
  <2>2. Managed' /\ ReceiptOK' BY <2>1, <1>0 DEF Managed, ReceiptOK
  <2>3. Agreed' BY <2>1, <1>0 DEF Agreed, Backed
  <2>4. Backed(proc[p])' BY <2>1, <1>0 DEF Backed, Agreed
  <2>6. QED BY <2>2, <2>3, <2>4
<1>5. CASE ReplaceCut(p)
  <2>1. /\ proc[p].at = "replace.cut" /\ proc'[p].at = "runtime.prepare"
        /\ proc'[p].op = proc[p].op /\ proc'[p].target = proc[p].target
        /\ proc'[p].copied = proc[p].copied /\ proc'[p].copy = proc[p].copy
        /\ disk'.link = disk.link /\ disk'.inst = disk.inst /\ disk'.receipt = disk.receipt
        /\ disk'.backups = disk.backups /\ disk'.db = proc[p].staged
    BY <1>5, ReplaceCutDoes DEF DiskFields, DiskKeeps, Fields, Goes, Keeps
  <2>5. ~mixed' => disk'.db.schema = Schema[disk.link]
    BY <2>1, <1>5, ReplaceCutDoes, HostAssumption DEF Mixes, At, Managed
  <2>2. Managed' /\ ReceiptOK' BY <2>1, <1>0 DEF Managed, ReceiptOK
  <2>3. Agreed' BY <2>1, <1>0, <2>5 DEF Agreed, Backed
  <2>4. Backed(proc[p])' BY <2>1, <1>0 DEF Backed, Agreed
  <2>6. QED BY <2>2, <2>3, <2>4
<1>6. CASE RuntimePrepare(p)
  <2>1. /\ proc[p].at \in {"runtime.prepare"} /\ proc'[p].at \in {"runtime.start", "return"}
        /\ proc'[p].op = proc[p].op /\ proc'[p].target = proc[p].target
        /\ proc'[p].copied = proc[p].copied /\ proc'[p].copy = proc[p].copy /\ disk' = disk
    BY <1>6, RuntimePrepareDoes DEF Fields, Goes, Keeps
  <2>2. Managed' /\ ReceiptOK' BY <2>1, <1>0 DEF Managed, ReceiptOK
  <2>3. Agreed' BY <2>1, <1>0 DEF Agreed, Backed
  <2>4. Backed(proc[p])' BY <2>1, <1>0 DEF Backed, Agreed
  <2>6. QED BY <2>2, <2>3, <2>4
<1>7. CASE RuntimeStart(p)
  <2>1. /\ proc[p].at = "runtime.start" /\ proc'[p].at = "runtime.check"
        /\ proc'[p].op = proc[p].op /\ proc'[p].target = proc[p].target
        /\ proc'[p].copied = proc[p].copied /\ proc'[p].copy = proc[p].copy /\ disk' = disk
    BY <1>7, RuntimeStartDoes DEF Fields, Goes, Keeps
  <2>2. Managed' /\ ReceiptOK' BY <2>1, <1>0 DEF Managed, ReceiptOK
  <2>3. Agreed' BY <2>1, <1>0 DEF Agreed, Backed
  <2>4. Backed(proc[p])' BY <2>1, <1>0 DEF Backed, Agreed
  <2>6. QED BY <2>2, <2>3, <2>4
<1>8. CASE RuntimeCheck(p)
  <2>1. /\ proc[p].at = "runtime.check" /\ proc'[p].at = "return" /\ proc'[p].op = proc[p].op
        /\ proc'[p].target = proc[p].target /\ proc'[p].copied = proc[p].copied
        /\ proc'[p].copy = proc[p].copy /\ disk' = disk
    BY <1>8, RuntimeCheckDoes DEF Fields, Goes, Keeps
  <2>2. Managed' /\ ReceiptOK' BY <2>1, <1>0 DEF Managed, ReceiptOK
  <2>3. Agreed' BY <2>1, <1>0 DEF Agreed, Backed
  <2>4. Backed(proc[p])' BY <2>1, <1>0 DEF Backed, Agreed
  <2>6. QED BY <2>2, <2>3, <2>4
<1>9. CASE ReplaceRaises(p)
  <2>1. /\ \/ /\ proc[p].at \in {"replace.stop", "replace.save", "replace.cut", "optimize.save"}
              /\ proc'[p].at \in {"replace.resume", "return"}
           \/ /\ proc[p].at \in {"replace.cut", "runtime.prepare", "runtime.start", "runtime.check"}
              /\ proc'[p].at \in {"restore.stop", "restore.copy"}
        /\ proc'[p].op = proc[p].op /\ proc'[p].target = proc[p].target
        /\ proc'[p].copied = proc[p].copied /\ proc'[p].copy = proc[p].copy /\ disk' = disk
    BY <1>9, ReplaceRaisesDoes DEF Fields, Goes, Keeps
  <2>2. Managed' /\ ReceiptOK' BY <2>1, <1>0 DEF Managed, ReceiptOK
  <2>3. Agreed' BY <2>1, <1>0 DEF Agreed, Backed
  <2>4. Backed(proc[p])' BY <2>1, <1>0 DEF Backed, Agreed
  <2>6. QED BY <2>2, <2>3, <2>4
<1>10. CASE ReplaceResume(p)
  <2>1. /\ proc[p].at = "replace.resume" /\ proc'[p].at = "return"
        /\ proc'[p].op = proc[p].op /\ proc'[p].target = proc[p].target
        /\ proc'[p].copied = proc[p].copied /\ proc'[p].copy = proc[p].copy /\ disk' = disk
    BY <1>10, ReplaceResumeDoes DEF Fields, Goes, Keeps
  <2>2. Managed' /\ ReceiptOK' BY <2>1, <1>0 DEF Managed, ReceiptOK
  <2>3. Agreed' BY <2>1, <1>0 DEF Agreed, Backed
  <2>4. Backed(proc[p])' BY <2>1, <1>0 DEF Backed, Agreed
  <2>6. QED BY <2>2, <2>3, <2>4
<1>11. CASE RestoreStop(p)
  <2>1. /\ proc[p].at = "restore.stop" /\ proc'[p].at = "restore.copy"
        /\ proc'[p].op = proc[p].op /\ proc'[p].target = proc[p].target
        /\ proc'[p].copied = proc[p].copied /\ proc'[p].copy = proc[p].copy /\ disk' = disk
    BY <1>11, RestoreStopDoes DEF Fields, Goes, Keeps
  <2>2. Managed' /\ ReceiptOK' BY <2>1, <1>0 DEF Managed, ReceiptOK
  <2>3. Agreed' BY <2>1, <1>0 DEF Agreed, Backed
  <2>4. Backed(proc[p])' BY <2>1, <1>0 DEF Backed, Agreed
  <2>6. QED BY <2>2, <2>3, <2>4
<1>12. CASE RestoreCopy(p)
  <2>1. /\ proc[p].at = "restore.copy" /\ proc'[p].at = "restore.prepare"
        /\ proc'[p].op = proc[p].op /\ proc'[p].target = proc[p].target
        /\ proc'[p].copied = proc[p].copied /\ proc'[p].copy = proc[p].copy
        /\ disk'.link = disk.link /\ disk'.inst = disk.inst /\ disk'.receipt = disk.receipt
        /\ disk'.backups = disk.backups
        /\ disk'.db = IF proc[p].copied THEN proc[p].copy ELSE NoDatabase
    BY <1>12, RestoreCopyDoes DEF DiskFields, DiskKeeps, Fields, Goes, Keeps
  <2>2. Managed' /\ ReceiptOK' BY <2>1, <1>0 DEF Managed, ReceiptOK
  <2>3. Agreed' BY <2>1, <1>0 DEF Agreed, Backed
  <2>4. Backed(proc[p])' BY <2>1, <1>0 DEF Backed, Agreed
  <2>6. QED BY <2>2, <2>3, <2>4
<1>13. CASE RestorePrepare(p)
  <2>1. /\ proc[p].at \in {"restore.prepare"} /\ proc'[p].at \in {"restore.start", "return"}
        /\ proc'[p].op = proc[p].op /\ proc'[p].target = proc[p].target
        /\ proc'[p].copied = proc[p].copied /\ proc'[p].copy = proc[p].copy /\ disk' = disk
    BY <1>13, RestorePrepareDoes DEF Fields, Goes, Keeps
  <2>2. Managed' /\ ReceiptOK' BY <2>1, <1>0 DEF Managed, ReceiptOK
  <2>3. Agreed' BY <2>1, <1>0 DEF Agreed, Backed
  <2>4. Backed(proc[p])' BY <2>1, <1>0 DEF Backed, Agreed
  <2>6. QED BY <2>2, <2>3, <2>4
<1>14. CASE RestoreStart(p)
  <2>1. /\ proc[p].at \in {"restore.start"} /\ proc'[p].at \in {"return", "restore.check"}
        /\ proc'[p].op = proc[p].op /\ proc'[p].target = proc[p].target
        /\ proc'[p].copied = proc[p].copied /\ proc'[p].copy = proc[p].copy /\ disk' = disk
    BY <1>14, RestoreStartDoes DEF Fields, Goes, Keeps
  <2>2. Managed' /\ ReceiptOK' BY <2>1, <1>0 DEF Managed, ReceiptOK
  <2>3. Agreed' BY <2>1, <1>0 DEF Agreed, Backed
  <2>4. Backed(proc[p])' BY <2>1, <1>0 DEF Backed, Agreed
  <2>6. QED BY <2>2, <2>3, <2>4
<1>15. CASE RestoreCheck(p)
  <2>1. /\ proc[p].at = "restore.check" /\ proc'[p].at = "return" /\ proc'[p].op = proc[p].op
        /\ proc'[p].target = proc[p].target /\ proc'[p].copied = proc[p].copied
        /\ proc'[p].copy = proc[p].copy /\ disk' = disk
    BY <1>15, RestoreCheckDoes DEF Fields, Goes, Keeps
  <2>2. Managed' /\ ReceiptOK' BY <2>1, <1>0 DEF Managed, ReceiptOK
  <2>3. Agreed' BY <2>1, <1>0 DEF Agreed, Backed
  <2>4. Backed(proc[p])' BY <2>1, <1>0 DEF Backed, Agreed
  <2>6. QED BY <2>2, <2>3, <2>4
<1>16. CASE RestoreRaises(p) BY <1>16, RestoreRaisesDoes
<1>17. CASE OptimizeStop(p)
  <2>1. /\ proc[p].at = "optimize.stop" /\ proc'[p].at = "optimize.directory"
        /\ proc'[p].op = proc[p].op /\ proc'[p].target = proc[p].target
        /\ proc'[p].copied = proc[p].copied /\ proc'[p].copy = proc[p].copy /\ disk' = disk
    BY <1>17, OptimizeStopDoes DEF Fields, Keeps
  <2>2. Managed' /\ ReceiptOK' BY <2>1, <1>0 DEF Managed, ReceiptOK
  <2>3. Agreed' BY <2>1, <1>0 DEF Agreed, Backed
  <2>4. Backed(proc[p])' BY <2>1, <1>0 DEF Backed, Agreed
  <2>6. QED BY <2>2, <2>3, <2>4
<1>18. CASE OptimizeDirectory(p)
  <2>1. /\ proc[p].at = "optimize.directory" /\ proc'[p].at = "optimize.save"
        /\ proc'[p].op = proc[p].op /\ proc'[p].target = proc[p].target
        /\ proc'[p].copied = proc[p].copied /\ proc'[p].copy = proc[p].copy /\ disk' = disk
    BY <1>18, OptimizeDirectoryDoes DEF Fields, Goes, Keeps
  <2>2. Managed' /\ ReceiptOK' BY <2>1, <1>0 DEF Managed, ReceiptOK
  <2>3. Agreed' BY <2>1, <1>0 DEF Agreed, Backed
  <2>4. Backed(proc[p])' BY <2>1, <1>0 DEF Backed, Agreed
  <2>6. QED BY <2>2, <2>3, <2>4
<1>19. CASE OptimizeSave(p)
  <2>1. /\ proc[p].at = "optimize.save" /\ proc'[p].at = "replace.cut"
        /\ proc'[p].op = proc[p].op /\ proc'[p].target = proc[p].target /\ proc'[p].copied
        /\ proc'[p].copy = disk.db /\ disk'.link = disk.link /\ disk'.inst = disk.inst
        /\ disk'.db = disk.db /\ disk'.receipt = disk.receipt
        /\ disk'.backups = disk.backups \cup {disk.db}
    BY <1>19, OptimizeSaveDoes DEF DiskFields, DiskKeeps, Fields, Keeps
  <2>2. Managed' /\ ReceiptOK' BY <2>1, <1>0 DEF Managed, ReceiptOK
  <2>3. Agreed' BY <2>1, <1>0 DEF Agreed, Backed
  <2>4. Backed(proc[p])' BY <2>1, <1>0 DEF Backed, Agreed
  <2>6. QED BY <2>2, <2>3, <2>4
<1>20. CASE StopRefused(p)
  <2>1. Ends(p) /\ disk' = disk BY <1>20, StopRefusedDoes
  <2>2. QED BY <2>1, <1>0 DEF Managed, ReceiptOK, Agreed
<1>21. CASE MigrateStop(p)
  <2>1. /\ proc[p].at = "migrate.stop" /\ proc'[p].at = "migrate.save"
        /\ proc'[p].op = proc[p].op /\ proc'[p].target = proc[p].target
        /\ proc'[p].copied = proc[p].copied /\ proc'[p].copy = proc[p].copy /\ disk' = disk
    BY <1>21, MigrateStopDoes DEF Fields, Goes, Keeps
  <2>2. Managed' /\ ReceiptOK' BY <2>1, <1>0 DEF Managed, ReceiptOK
  <2>3. Agreed' BY <2>1, <1>0 DEF Agreed, Backed
  <2>4. Backed(proc[p])' BY <2>1, <1>0 DEF Backed, Agreed
  <2>6. QED BY <2>2, <2>3, <2>4
<1>22. CASE MigrateSave(p)
  <2>1. /\ proc[p].at = "migrate.save" /\ proc'[p].at = "migrate.run"
        /\ proc'[p].op = proc[p].op /\ proc'[p].target = proc[p].target /\ proc'[p].copied
        /\ proc'[p].copy = disk.db /\ disk'.link = disk.link /\ disk'.inst = disk.inst
        /\ disk'.db = disk.db /\ disk'.receipt = disk.receipt
        /\ disk'.backups = disk.backups \cup {disk.db}
    BY <1>22, MigrateSaveDoes DEF DiskFields, DiskKeeps, Fields, Keeps
  <2>2. Managed' /\ ReceiptOK' BY <2>1, <1>0 DEF Managed, ReceiptOK
  <2>3. Agreed' BY <2>1, <1>0 DEF Agreed, Backed
  <2>4. Backed(proc[p])' BY <2>1, <1>0 DEF Backed, Agreed
  <2>6. QED BY <2>2, <2>3, <2>4
<1>23. CASE MigrateRun(p)
  <2>1. /\ proc[p].at = "migrate.run" /\ proc'[p].at = "runtime.prepare"
        /\ proc'[p].op = proc[p].op /\ proc'[p].target = proc[p].target
        /\ proc'[p].copied = proc[p].copied /\ proc'[p].copy = proc[p].copy
        /\ disk'.link = disk.link /\ disk'.inst = disk.inst /\ disk'.receipt = disk.receipt
        /\ disk'.backups = disk.backups /\ disk'.db = Raised(disk.db, proc[p].target)
    BY <1>23, MigrateRunDoes DEF DiskFields, DiskKeeps, Fields, Goes, Keeps
  <2>5. /\ proc[p].target = disk.link
        /\ ~mixed => Raised(disk.db, proc[p].target).schema = Schema[disk.link]
    BY <2>1, TypesNow DEF Raised, Agreed, Backed, Database, Managed
  <2>2. Managed' /\ ReceiptOK' BY <2>1, <1>0 DEF Managed, ReceiptOK
  <2>3. Agreed' BY <2>1, <1>0, <2>5 DEF Agreed, Backed
  <2>4. Backed(proc[p])' BY <2>1, <1>0 DEF Backed, Agreed
  <2>6. QED BY <2>2, <2>3, <2>4
<1>24. CASE MigrateFails(p)
  <2>1. /\ proc[p].at \in {"migrate.run"} /\ proc'[p].at \in {"restore.stop", "restore.copy"}
        /\ proc'[p].op = proc[p].op /\ proc'[p].target = proc[p].target
        /\ proc'[p].copied = proc[p].copied /\ proc'[p].copy = proc[p].copy
        /\ disk'.link = disk.link /\ disk'.inst = disk.inst /\ disk'.receipt = disk.receipt
        /\ disk'.backups = disk.backups /\ disk'.db = Raised(disk.db, proc[p].target)
    BY <1>24, MigrateFailsDoes DEF DiskFields, DiskKeeps, Fields, Goes, Keeps
  <2>5. /\ proc[p].target = disk.link
        /\ ~mixed => Raised(disk.db, proc[p].target).schema = Schema[disk.link]
    BY <2>1, TypesNow DEF Raised, Agreed, Backed, Database, Managed
  <2>2. Managed' /\ ReceiptOK' BY <2>1, <1>0 DEF Managed, ReceiptOK
  <2>3. Agreed' BY <2>1, <1>0, <2>5 DEF Agreed, Backed
  <2>4. Backed(proc[p])' BY <2>1, <1>0 DEF Backed, Agreed
  <2>6. QED BY <2>2, <2>3, <2>4
<1>25. CASE BackupRaises(p) BY <1>25, BackupRaisesDoes
<1>26. CASE Mutate(p)
  <2>1. /\ proc[p].at = "mutate" /\ proc'[p].at = "return" /\ proc'[p].op = proc[p].op
        /\ proc'[p].target = proc[p].target /\ proc'[p].copied = proc[p].copied
        /\ proc'[p].copy = proc[p].copy /\ disk' = disk
    BY <1>26, MutateDoes DEF Fields, Goes, Keeps
  <2>2. Managed' /\ ReceiptOK' BY <2>1, <1>0 DEF Managed, ReceiptOK
  <2>3. Agreed' BY <2>1, <1>0 DEF Agreed, Backed
  <2>4. Backed(proc[p])' BY <2>1, <1>0 DEF Backed, Agreed
  <2>6. QED BY <2>2, <2>3, <2>4
<1>27. QED
  BY <1>1, <1>2, <1>3, <1>4, <1>5, <1>6, <1>7, <1>8, <1>9, <1>10, <1>11, <1>12, <1>13,
     <1>14, <1>15, <1>16, <1>17, <1>18, <1>19, <1>20, <1>21, <1>22, <1>23, <1>24, <1>25,
     <1>26 DEF DatabaseStep

\* Whoever works is not disturbed by those who do not hold the lock, nor by the rows that
\* the service stores.
LEMMA OthersStay ==
  ASSUME TypeOK, UpkeepInv, lock' = lock, lock # None => proc'[lock] = proc[lock],
         disk'.link = disk.link, disk'.dirs = disk.dirs, disk'.inst = disk.inst,
         disk'.receipt = disk.receipt, disk'.unit = disk.unit,
         disk'.db.schema = disk.db.schema, disk.db.rows \subseteq disk'.db.rows,
         disk.backups \subseteq disk'.backups,
         up' = up, mixed' = mixed, torn' = torn
  PROVE  UpkeepInv'
<1> SUFFICES ASSUME ~torn'
             PROVE  /\ Managed' /\ ReceiptOK'
                    /\ IF lock' = None THEN Agreed' ELSE Worked(proc[lock])'
  BY DEF UpkeepInv
<1>1. Managed /\ ReceiptOK /\ (IF lock = None THEN Agreed ELSE Worked(proc[lock]))
  BY DEF UpkeepInv
<1>2. Managed' /\ ReceiptOK' BY <1>1 DEF Managed, ReceiptOK
<1>3. Agreed => Agreed' BY DEF Agreed
<1>4. CASE lock = None BY <1>1, <1>2, <1>3, <1>4
<1>5. CASE lock # None
  <2> DEFINE l == proc[lock]
  <2>1. proc'[lock'] = l BY <1>5
  <2>2. Worked(l) BY <1>1, <1>5
  <2>3. CASE l.op \in Changing
    <3>1. Aims(proc[lock])' BY <2>1, <2>2, <2>3 DEF Worked, Aims
    <3>2. QED BY <1>2, <1>5, <2>1, <2>3, <3>1 DEF Worked
  <2>4. CASE l.op \notin Changing
    <3>1. Agreed /\ Backed(l) BY <2>2, <2>4 DEF Worked
    <3>2. Backed(proc[lock])' BY <2>1, <3>1 DEF Backed
    <3>3. QED BY <1>2, <1>3, <1>5, <2>1, <2>4, <3>1, <3>2 DEF Worked
  <2>5. QED BY <2>3, <2>4
<1>6. QED BY <1>4, <1>5

\* A row that the service stores keeps UpkeepInv.
LEMMA StoreUpkeepInv ==
  ASSUME HostInv, UpkeepInv, Stores
  PROVE  UpkeepInv'
<1>1. TypeOK BY DEF HostInv
<1>2. /\ disk' = [disk EXCEPT !.db.rows = @ \cup {writes + 1}] /\ disk \in Disk
      /\ UNCHANGED <<up, lock, proc, torn, mixed>>
  BY <1>1 DEF Stores, ServiceWrites, TypeOK
<1>3. /\ disk'.link = disk.link /\ disk'.dirs = disk.dirs /\ disk'.inst = disk.inst
      /\ disk'.receipt = disk.receipt /\ disk'.unit = disk.unit
  BY <1>2 DEF Disk
<1>4. /\ disk'.db.schema = disk.db.schema /\ disk.db.rows \subseteq disk'.db.rows
      /\ disk'.backups = disk.backups
  BY <1>1, StoredDisk
<1>5. QED BY <1>1, <1>2, <1>3, <1>4, OthersStay

\* An operation on the release begins with what it aims at.
LEMMA BeginsAim ==
  ASSUME TypeOK, Placed, Managed, ReceiptOK, Agreed, mixed' = mixed, NEW p \in Procs,
         BeginUpdate(p) \/ BeginDeploy(p) \/ BeginRollback(p)
  PROVE  Aims(proc[p])'
<1>1. disk \in Disk /\ Checkouts \subseteq Releases BY HostAssumption DEF TypeOK
<1>2. CASE BeginUpdate(p) \/ BeginDeploy(p)
  <2>1. PICK r \in Releases :
          /\ disk' = disk /\ proc'[p].before = disk /\ disk.inst.mode = "managed"
          /\ proc'[p].target = r /\ proc'[p].new.version = Version[r]
          /\ proc'[p].new.mode = "managed"
    BY <1>1, <1>2, BeginUpdateDoes, BeginDeployDoes DEF Begun
  <2>2. QED BY <1>1, <2>1 DEF Aims, Managed, Agreed
<1>3. CASE BeginRollback(p)
  <2>1. /\ disk' = disk /\ proc'[p].before = disk /\ disk.inst.mode = "managed"
        /\ proc'[p].target = disk.receipt.link
        /\ proc'[p].new.version = disk.receipt.version /\ proc'[p].new.mode = "managed"
        /\ disk.receipt.op \in {"update", "deploy"} /\ disk.receipt.state = "complete"
    BY <1>3, BeginRollbackDoes DEF Begun
  <2>2. disk.receipt.link \in Releases /\ disk.receipt.version = Version[disk.receipt.link]
    BY <2>1 DEF ReceiptOK
  <2>3. QED BY <1>1, <2>1, <2>2 DEF Aims, Managed, Agreed
<1>4. QED BY <1>2, <1>3

\* The others have nothing to put back when they begin.
LEMMA BeginsBacked ==
  ASSUME TypeOK, Placed, NEW p \in Procs, Begins(p), ~Backup(p),
         ~(BeginUpdate(p) \/ BeginDeploy(p) \/ BeginRollback(p))
  PROVE  proc'[p].op \notin Changing /\ Backed(proc[p])'
<1>1. CASE BeginMigrate(p)
  BY <1>1, BeginMigrateDoes DEF Begun, Changing, Backed
<1>2. CASE BeginEnable(p) \/ BeginRepair(p) \/ BeginDisable(p)
  BY <1>2, BeginEnableDoes, BeginRepairDoes, BeginDisableDoes DEF Begun, Changing, Backed
<1>3. CASE BeginImport(p) \/ BeginReset(p) \/ BeginOptimize(p)
  BY <1>3, BeginImportDoes, BeginResetDoes, BeginOptimizeDoes DEF Begun, Changing, Backed
<1>4. CASE BeginService(p) BY <1>4, BeginServiceDoes DEF Begun, Changing, Backed
<1>5. CASE BeginSetup(p) \/ BeginMenu(p)
  BY <1>5, BeginSetupDoes, BeginMenuDoes DEF Begun, Changing, Backed, MenuSteps
<1>6. CASE BeginActivate(p) \/ BeginConfigure(p) \/ BeginUninstall(p)
  BY <1>6, BeginActivateDoes, BeginConfigureDoes, BeginUninstallDoes
     DEF Begun, Changing, Backed
<1>7. QED
  BY <1>1, <1>2, <1>3, <1>4, <1>5, <1>6 DEF Begins, ReleaseBegins, CodexBegins,
     DatabaseBegins, SetupBegins

\* The beginning of an operation keeps UpkeepInv.
LEMMA BeginUpkeepInv ==
  ASSUME HostInv, UpkeepInv, NEW p \in Procs, At(p, "idle"), Begins(p),
         UNCHANGED <<moment, mixed>>
  PROVE  UpkeepInv'
<1>1. TypeOK /\ Placed /\ disk \in Disk /\ mixed' = mixed BY DEF HostInv, TypeOK
<1>2. lock # None => lock \in Procs \ {p} BY <1>1 DEF TypeOK, At
<1>3. CASE Backup(p)
  <2>1. /\ disk' = Saved /\ UNCHANGED <<up, lock, proc, torn>> BY <1>3 DEF Backup
  <2>2. /\ disk'.link = disk.link /\ disk'.dirs = disk.dirs /\ disk'.inst = disk.inst
        /\ disk'.receipt = disk.receipt /\ disk'.unit = disk.unit /\ disk'.db = disk.db
        /\ disk.backups \subseteq disk'.backups
    BY <1>1, <2>1 DEF Saved, Disk
  <2>3. QED BY <1>1, <2>1, <2>2, OthersStay
<1>4. CASE ~Backup(p)
  <2>1. PICK op \in Operations : Begun(p, op) BY <1>1, <1>4, BeginsDo
  <2>2. UNCHANGED <<disk, up, torn>> /\ \A q \in Procs \ {p} : proc'[q] = proc[q]
    BY <2>1 DEF Begun, Framed
  <2>3. CASE lock' = lock BY <1>1, <1>2, <2>2, <2>3, OthersStay
  <2>4. CASE lock = None /\ lock' = p
    <3> SUFFICES ASSUME ~torn' PROVE Managed' /\ ReceiptOK' /\ Worked(proc[p])'
      BY <2>4, HostAssumption DEF UpkeepInv
    <3>1. Managed /\ ReceiptOK /\ Agreed BY <2>2, <2>4 DEF UpkeepInv
    <3>2. Managed' /\ ReceiptOK' /\ Agreed'
      BY <1>1, <2>2, <3>1 DEF Managed, ReceiptOK, Agreed
    <3>3. CASE BeginUpdate(p) \/ BeginDeploy(p) \/ BeginRollback(p)
      <4>1. Aims(proc[p])' BY <1>1, <3>1, <3>3, BeginsAim
      <4>2. proc'[p].op \in Changing
        BY <1>1, <3>3, BeginUpdateDoes, BeginDeployDoes, BeginRollbackDoes DEF Begun, Changing
      <4>3. QED BY <3>2, <4>1, <4>2 DEF Worked
    <3>4. CASE ~(BeginUpdate(p) \/ BeginDeploy(p) \/ BeginRollback(p))
      <4>1. proc'[p].op \notin Changing /\ Backed(proc[p])'
        BY <1>1, <1>4, <3>4, BeginsBacked
      <4>2. QED BY <3>2, <4>1 DEF Worked
    <3>5. QED BY <3>3, <3>4
  <2>5. QED BY <1>1, <1>4, <2>3, <2>4, BeginsDo
<1>5. QED BY <1>3, <1>4

\* The steps of an operation on the release.
LEMMA ChangingStep ==
  ASSUME HostInv, NEW p \in Procs, Steps(p), mixed' = (mixed \/ Mixes(p)), ~torn',
         proc[p].op \in Changing, Managed, ReceiptOK, Aims(proc[p]), Stage(proc[p])
  PROVE  Managed' /\ ReceiptOK' /\ (IF Ends(p) THEN Agreed' ELSE Aims(proc[p])')
<1> DEFINE l == proc[p]
<1>1. /\ TypeOK /\ Placed /\ Ready(p) /\ Path(l) /\ mixed \in BOOLEAN
      /\ proc'[p] = Resting \/ Steady(p)
  BY StepDoes DEF HostInv, TypeOK, Placed, Moves
<1>2. l.at \notin DatabaseLabels \cup {"mutate"} \cup MenuSteps \cup ActivateLabels \cup
                 ConfigureLabels \cup UninstallLabels
  BY <1>1 DEF Path, Changing
<1>3. mixed' = mixed
  <2>1. ~Mixes(p) BY <1>2 DEF Mixes, At, DatabaseLabels
  <2>2. QED BY <1>1, <2>1
<1>4. l.link = l.before.link /\ l.inst = l.before.inst BY DEF Stage
<1>5. /\ disk'.link \in {disk.link, l.link, l.target}
      /\ disk'.inst \in {disk.inst, l.inst, l.new}
      /\ disk'.unit = disk.unit /\ disk.backups \subseteq disk'.backups
      /\ \/ disk'.receipt = disk.receipt
         \/ l.at = "receipt" /\ disk'.receipt = Completed(p)
         \/ disk'.receipt.op = "rollback" \/ disk'.receipt.state # "complete"
      /\ \A r \in Releases : disk.dirs[r] = "ready" => disk'.dirs[r] = "ready"
  <2>1. CASE ReleaseStep(p) BY <1>1, <2>1, ReleaseStepWrites, ReleaseStepKeepsReady
  <2>2. CASE CodexStep(p) BY <1>1, <2>2, CodexStepGoes
  <2>3. QED BY <1>2, <2>1, <2>2, DatabaseStepAt, SetupStepAt DEF Steps
<1>6. Managed' BY <1>4, <1>5 DEF Managed, Aims
<1>7. ReceiptOK'
  <2>1. CASE disk'.receipt = disk.receipt BY <1>3, <1>5, <2>1 DEF ReceiptOK
  <2>2. CASE l.at = "receipt" /\ disk'.receipt = Completed(p)
    <3>1. /\ disk'.receipt.link = l.before.link /\ disk'.receipt.copy = l.copy
          /\ disk'.receipt.version = l.before.inst.version
      BY <1>4, <2>2 DEF Completed
    <3>2. l.copy \in disk.backups /\ l.copy.schema = l.before.db.schema
      BY <2>2 DEF Stage, WithCopy, GoodCopy, SameData
    <3>3. QED BY <1>3, <1>5, <3>1, <3>2 DEF ReceiptOK, Aims
  <2>3. CASE disk'.receipt.op = "rollback" \/ disk'.receipt.state # "complete"
    BY <2>3 DEF ReceiptOK
  <2>4. QED BY <1>5, <2>1, <2>2, <2>3
<1>8. CASE Ends(p)
  <2>1. Outcome(l)
    BY <1>1, <1>8, ChangingSettles
  <2>2. Agreed' BY <1>3, <1>5, <2>1 DEF Agreed, Outcome, Aims, SameData
  <2>3. QED BY <1>6, <1>7, <1>8, <2>2
<1>9. CASE ~Ends(p)
  <2>1. Steady(p)
    BY <1>1, <1>9, StepDoes, RestingIsPlaced DEF HostInv, Serves, Locks
  <2>2. QED BY <1>3, <1>5, <1>6, <1>7, <1>9, <2>1, AimsStay
<1>10. QED BY <1>8, <1>9

\* The steps of any other operation that holds the lock.
LEMMA OtherStep ==
  ASSUME HostInv, NEW p \in Procs, Steps(p), mixed' = (mixed \/ Mixes(p)), ~torn',
         proc[p].op \in Upkeep \ Changing, Managed, ReceiptOK, Agreed, Backed(proc[p])
  PROVE  /\ Managed' /\ ReceiptOK' /\ Agreed'
         /\ Ends(p) \/ Backed(proc[p])'
<1>1. TypeOK /\ Placed /\ Path(proc[p]) /\ mixed \in BOOLEAN
  BY DEF HostInv, TypeOK, Placed
<1>2. ~SetupStep(p)
  <2>1. proc[p].at \notin MenuSteps \cup ActivateLabels \cup ConfigureLabels \cup UninstallLabels
    BY <1>1 DEF Path, Upkeep
  <2>2. QED BY <2>1, SetupStepAt
<1>3. CASE DatabaseStep(p) BY <1>1, <1>3, DatabaseStepUpkeep
<1>4. CASE CodexStep(p)
  <2>1. disk' = disk BY <1>1, <1>4, CodexStepGoes
  <2>2. \/ proc'[p].at \in ReconcileLabels \cup EnableLabels
        \/ proc'[p].at = proc[p].ret
        \/ proc'[p].at = "return"
    BY <1>1, <1>4, CodexStepGoes
  <2>3. proc[p].ret \in {"return", "receipt", "rollback.receipt"} BY <1>1, LocalTypes
  <2>4. ~mixed' => ~mixed OBVIOUS
  <2>5. Managed' /\ ReceiptOK' /\ Agreed' BY <2>1, <2>4 DEF Managed, ReceiptOK, Agreed
  <2>6. Backed(proc[p])' BY <2>2, <2>3 DEF Backed, ReconcileLabels, EnableLabels
  <2>7. QED BY <2>5, <2>6
<1>5. CASE ReleaseStep(p)
  <2>1. proc[p].at \notin UpdateLabels \cup RollbackLabels
    BY <1>1 DEF Path, Upkeep, Changing
  <2>2. Return(p) BY <1>5, <2>1, ReleaseStepAt
  <2>3. disk' = disk /\ Ends(p) BY <1>1, <2>2, ReturnDoes
  <2>4. ~mixed' => ~mixed OBVIOUS
  <2>5. QED BY <2>3, <2>4 DEF Managed, ReceiptOK, Agreed
<1>6. QED BY <1>2, <1>3, <1>4, <1>5 DEF Steps

\* A step of an operation keeps UpkeepInv.
LEMMA StepUpkeepInv ==
  ASSUME HostInv, WholeInv, UpkeepInv, OnlyUpkeep,
         NEW p \in Procs, ~At(p, "idle"), Steps(p) \/ Dies(p),
         mixed' = (mixed \/ Mixes(p)), UNCHANGED moment
  PROVE  UpkeepInv'
<1> SUFFICES ASSUME ~torn'
             PROVE  /\ Managed' /\ ReceiptOK'
                    /\ IF lock' = None THEN Agreed' ELSE Worked(proc[lock])'
  BY DEF UpkeepInv
<1>1. /\ TypeOK /\ Placed /\ Single /\ Ready(p) /\ Path(proc[p]) /\ proc[p].at # "idle"
      /\ None \notin Procs /\ p # None
  BY HostAssumption DEF HostInv, Placed, At
<1>2. Moves(p) /\ Typed(p) /\ Serves(p) BY <1>1, StepDoes
<1>3. Steps(p) /\ ~torn BY <1>2 DEF Dies, Typed
<1>4. proc[p].op \in Upkeep BY <1>1 DEF OnlyUpkeep
<1>5. Managed /\ ReceiptOK /\ (IF lock = None THEN Agreed ELSE Worked(proc[lock]))
  BY <1>3 DEF UpkeepInv
<1>6. Ends(p) => lock' = IF lock = p THEN None ELSE lock BY DEF Ends
<1>7. ~Ends(p) => proc'[p].op = proc[p].op /\ proc'[p].at # "idle"
  BY <1>2, RestingIsPlaced DEF Serves, Locks, Moves, Steady
<1>8. CASE lock = p
  <2>1. Worked(proc[p]) BY <1>1, <1>5, <1>8
  <2>2. ~Ends(p) => lock' = p BY <1>1, <1>2, <1>8 DEF Serves, Locks
  <2>3. CASE proc[p].op \in Changing
    <3>1. Stage(proc[p]) BY <1>1, <1>8, <2>3 DEF WholeInv, Settling
    <3>2. Managed' /\ ReceiptOK' /\ (IF Ends(p) THEN Agreed' ELSE Aims(proc[p])')
      BY <1>3, <1>5, <2>1, <2>3, <3>1, ChangingStep DEF Worked
    <3>3. CASE Ends(p) BY <1>1, <1>6, <1>8, <3>2, <3>3
    <3>4. CASE ~Ends(p) BY <1>1, <1>7, <2>2, <2>3, <3>2, <3>4 DEF Worked
    <3>5. QED BY <3>3, <3>4
  <2>4. CASE proc[p].op \notin Changing
    <3>1. Managed' /\ ReceiptOK' /\ Agreed' /\ (Ends(p) \/ Backed(proc[p])')
      BY <1>3, <1>4, <1>5, <2>1, <2>4, OtherStep DEF Worked
    <3>2. CASE Ends(p) BY <1>1, <1>6, <1>8, <3>1, <3>2
    <3>3. CASE ~Ends(p) BY <1>1, <1>7, <2>2, <2>4, <3>1, <3>3 DEF Worked
    <3>4. QED BY <3>2, <3>3
  <2>5. QED BY <2>3, <2>4
<1>9. CASE lock # p
  <2>1. Free(proc[p]) BY <1>1, <1>9 DEF Single
  <2>2. proc[p].at = "replace.lock" /\ proc[p].op \in Upkeep \ Changing
    BY <1>1, <1>4, <2>1 DEF Free, Path, Upkeep, Changing, UninstallLabels, DatabaseLabels
  <2>3. ReplaceLock(p) \/ ReplaceRefused(p)
    <3>1. ~CodexStep(p)
      BY <2>2, CodexStepAt DEF ReconcileLabels, EnableLabels
    <3>2. ~ReleaseStep(p) BY <2>2, ReleaseStepAt DEF UpdateLabels, RollbackLabels
    <3>3. ~SetupStep(p)
      BY <2>2, SetupStepAt DEF MenuSteps, ActivateLabels, ConfigureLabels, UninstallLabels
    <3>4. QED BY <1>3, <2>2, <3>1, <3>2, <3>3, DatabaseStepAt DEF Steps
  <2>4. CASE ReplaceLock(p)
    <3>1. /\ lock = None /\ lock' = p /\ proc'[p].at = "replace.stop" /\ disk' = disk
          /\ ~Ends(p)
      BY <1>1, <2>4, ReplaceLockDoes, RestingIsPlaced DEF Ends
    <3>2. ~mixed' => ~mixed OBVIOUS
    <3>3. Managed' /\ ReceiptOK' /\ Agreed'
      BY <1>5, <3>1, <3>2 DEF Managed, ReceiptOK, Agreed
    <3>4. Backed(proc[p])' BY <3>1 DEF Backed
    <3>5. QED BY <1>1, <1>7, <2>2, <3>1, <3>3, <3>4 DEF Worked
  <2>5. CASE ReplaceRefused(p)
    <3>1. Ends(p) /\ UNCHANGED <<disk, up, torn>> BY <1>1, <2>5, ReplaceRefusedDoes
    <3>2. lock' = lock /\ (lock # None => proc'[lock] = proc[lock])
      BY <1>1, <1>2, <1>6, <1>9, <3>1 DEF TypeOK, Moves, Framed
    <3>3. mixed' = mixed
      <4>1. mixed \in BOOLEAN /\ ~Mixes(p) BY <1>1, <2>2 DEF TypeOK, Mixes, At
      <4>2. QED BY <4>1
    <3>4. UpkeepInv' BY <1>1, <3>1, <3>2, <3>3, OthersStay
    <3>5. QED BY <3>4 DEF UpkeepInv
  <2>6. QED BY <2>3, <2>4, <2>5
<1>10. QED BY <1>8, <1>9

\* UpkeepInv is inductive, together with WholeInv.
LEMMA NextUpkeepInv ==
  ASSUME HostInv, WholeInv, UpkeepInv, OnlyUpkeep, [Next]_hostVars
  PROVE  WholeInv' /\ UpkeepInv'
<1>0. SetupAlone BY DEF SetupAlone, OnlyUpkeep, Upkeep
<1> SUFFICES UpkeepInv' BY <1>0, NextWholeInv
<1>1. CASE Stores BY <1>1, StoreUpkeepInv
<1>2. CASE UNCHANGED hostVars
  <2>1. TypeOK BY DEF HostInv
  <2>2. UNCHANGED <<disk, up, lock, proc, torn, mixed>> BY <1>2 DEF hostVars, vars, counts
  <2>3. QED BY <2>1, <2>2, OthersStay
<1>3. ASSUME NEW p \in Procs, At(p, "idle"), Begins(p), UNCHANGED <<moment, mixed>>
      PROVE  UpkeepInv'
  BY <1>3, BeginUpkeepInv
<1>4. ASSUME NEW p \in Procs, ~At(p, "idle"), Steps(p) \/ Dies(p),
             mixed' = (mixed \/ Mixes(p)), UNCHANGED moment
      PROVE  UpkeepInv'
  BY <1>4, StepUpkeepInv
<1>5. QED BY <1>1, <1>2, <1>3, <1>4 DEF Next, Rests

LEMMA InitUpkeepInv == Init /\ disk.link # None => WholeInv /\ UpkeepInv
<1> SUFFICES ASSUME Init, disk.link # None PROVE WholeInv /\ UpkeepInv OBVIOUS
<1>1. PICK r \in Releases \ Checkouts : Installed(r) BY DEF Init, Untouched
<1>2. lock = None BY DEF Init
<1>3. /\ disk.link = r /\ disk.dirs[r] = "ready" /\ disk.db.schema = Schema[r]
      /\ disk.inst.mode = "managed" /\ disk.inst.version = Version[r]
      /\ disk.unit = "managed" /\ disk.receipt.op = "setup"
  BY <1>1 DEF Installed, NoReceipt
<1>4. Managed /\ ReceiptOK /\ Agreed BY <1>3 DEF Managed, ReceiptOK, Agreed
<1>5. QED BY <1>2, <1>4 DEF UpkeepInv, WholeInv

-----------------------------------------------------------------------------

\* Nobody works: nobody holds the lock.
LEMMA RestingUnlocked ==
  ASSUME TypeOK, Resting0
  PROVE  lock = None
BY DEF TypeOK, Resting0

\* What UpkeepInv says between operations.
LEMMA UpkeepAgrees == HostInv /\ UpkeepInv => LinkInstAgree
<1>1. HostInv /\ Resting0 => lock = None BY RestingUnlocked DEF HostInv
<1>2. QED BY <1>1 DEF UpkeepInv, LinkInstAgree, Agreed

LEMMA UpkeepReady == HostInv /\ UpkeepInv => RollbackReady
<1>1. UpkeepInv /\ ~torn => ReceiptOK BY DEF UpkeepInv
<1>2. None \notin Releases BY HostAssumption
<1>3. QED BY <1>1, <1>2 DEF RollbackReady, ReceiptOK

\* On a host that is set up and then used (updated, deployed to, rolled back, its database
\* imported, reset, migrated or optimized, its companion enabled, repaired or disabled, its
\* service started and stopped), the installation file names the version of the release that the
\* link points to, whenever nobody works and nobody died on the way.
THEOREM LinkInstStays == Spec /\ disk.link # None /\ []OnlyUpkeep => []LinkInstAgree
BY InitHostInv, NextHostInv, InitUpkeepInv, NextUpkeepInv, UpkeepAgrees, PTL DEF Spec

\* On such a host a completed update or deploy can be rolled back: its receipt names a release
\* that is there and a copy that is there and that this release accepts.
THEOREM RollbacksAreReady == Spec /\ disk.link # None /\ []OnlyUpkeep => []RollbackReady
BY InitHostInv, NextHostInv, InitUpkeepInv, NextUpkeepInv, UpkeepReady, PTL DEF Spec

\* On such a host every operation that ends leaves files that fit, and so one that found a service
\* running does, also when others work between the staging of a database and its cut-over: it does
\* not need StagedAlone, which excludes that.
THEOREM ServicesComeBack == Spec /\ disk.link # None /\ []OnlyUpkeep => ServiceBack
<1>1. ASSUME HostInv, WholeInv, UpkeepInv, OnlyUpkeep, [Next]_hostVars
      PROVE  [\A p \in Procs :
                /\ Ended(p)
                /\ proc[p].was
                /\ proc[p].before.db.schema = Schema[proc[p].before.link]
                /\ proc[p].op \notin {"stop", "uninstall", "setup", "menu"}
                /\ ~mixed'
                => Fits(disk.link)']_hostVars
  <2> SUFFICES ASSUME NEW p \in Procs, Ended(p), ~mixed' PROVE Fits(disk.link)'
    OBVIOUS
  <2>1. HostInv' /\ UpkeepInv' BY <1>1, NextHostInv, NextUpkeepInv
  <2>2. lock' = None BY <2>1 DEF HostInv, TypeOK, Ended, Resting0
  <2>3. Managed' /\ Agreed' BY <2>1, <2>2 DEF UpkeepInv, Ended
  <2>4. None \notin Releases BY HostAssumption
  <2>5. QED BY <2>3, <2>4 DEF Managed, Agreed, Fits
<1>2. QED
  BY <1>1, InitHostInv, NextHostInv, InitUpkeepInv, NextUpkeepInv, PTL DEF Spec, ServiceBack

\* The invariants, in the scenario of the runs in which a host is used.
UsedInv == scenario = "use" => HostInv /\ WholeInv /\ UpkeepInv /\ OnlyUpkeep

\* In that scenario the installation file stays true, for every number of releases, processes and
\* operations.
THEOREM LinkInstIsKept == MCSpec => []LinkInstKept
<1>1. MCInit => UsedInv
  <2> SUFFICES ASSUME MCInit, scenario = "use" PROVE HostInv /\ WholeInv /\ UpkeepInv /\ OnlyUpkeep
    BY DEF UsedInv
  <2>1. Init /\ disk.link # None BY DEF MCInit
  <2>2. OnlyUpkeep BY <2>1, RestingIsPlaced DEF Init, OnlyUpkeep
  <2>3. QED BY <2>1, <2>2, InitHostInv, InitUpkeepInv
<1>2. UsedInv /\ [MCNext]_<<hostVars, scenario>> => UsedInv'
  <2> SUFFICES ASSUME UsedInv, [MCNext]_<<hostVars, scenario>>, scenario' = "use"
               PROVE  HostInv' /\ WholeInv' /\ UpkeepInv' /\ OnlyUpkeep'
    BY DEF UsedInv
  <2>1. scenario = "use" /\ [Next]_hostVars BY DEF MCNext, Quiet
  <2>2. HostInv /\ WholeInv /\ UpkeepInv /\ OnlyUpkeep BY <2>1 DEF UsedInv
  <2>3. HostInv' /\ WholeInv' /\ UpkeepInv' BY <2>1, <2>2, NextHostInv, NextUpkeepInv
  <2>4. OnlyUpkeep'
    <3>1. CASE Next /\ InScenario
      <4>1. Scenario[scenario].kinds = Upkeep BY <2>1 DEF Scenario, Upkeep
      <4>2. QED BY <3>1, <4>1 DEF InScenario, OnlyUpkeep
    <3>2. CASE UNCHANGED hostVars BY <2>2, <3>2 DEF hostVars, vars, OnlyUpkeep
    <3>3. QED BY <3>1, <3>2 DEF MCNext, Quiet
  <2>5. QED BY <2>3, <2>4
<1>3. UsedInv => LinkInstKept BY UpkeepAgrees DEF UsedInv, LinkInstKept
<1>4. QED BY <1>1, <1>2, <1>3, PTL DEF MCSpec
==============================================================================
