---------------------------- MODULE DatabaseOps -----------------------------
(***************************************************************************)
(* The database commands (bridge_cli/database.py) and the service commands *)
(* (bridge_cli/service.py).  import and reset stage a database before they *)
(* take the lock, with the code the command line runs from; optimize and   *)
(* migrate work under it.  All but migrate end in _replace_staged.         *)
(***************************************************************************)
EXTENDS Host

\* A database as the code of release r creates or leaves it.
Raised(db, r) == [db EXCEPT !.schema = IF @ < Schema[r] THEN Schema[r] ELSE @]

\* The managed launcher runs the command line from the current release.
Staging(rows) ==
  [Resting EXCEPT !.at = "replace.lock", !.target = disk.link,
                  !.staged = Raised([schema |-> 0, rows |-> rows], disk.link)]

\* import_replace copies and migrates the source, reset creates a database.
BeginImport(p) == disk.link # None /\ BeginUnlocked(p, "import", Staging({Foreign}))
BeginReset(p) == disk.link # None /\ BeginUnlocked(p, "reset", Staging({}))

\* operation_lock around _replace_staged, after the staging.
ReplaceLock(p) ==
  /\ At(p, "replace.lock")
  /\ lock = None
  /\ lock' = p
  /\ proc' = [proc EXCEPT ![p].at = "replace.stop", ![p].active = up # None]
  /\ UNCHANGED <<disk, codex, up, counts, torn>>

ReplaceRefused(p) == lock # None /\ Returns(p, "replace.lock")

ReplaceStop(p) ==
  /\ At(p, "replace.stop")
  /\ up' \in Stopping
  /\ proc' = [proc EXCEPT ![p].at = "replace.save", ![p].stopped = up # None]
  /\ UNCHANGED <<disk, codex, lock, counts, torn>>

\* Mutant: no safety backup.
ReplaceSaveNothing(p) ==
  /\ At(p, "replace.save")
  /\ proc' = [proc EXCEPT ![p].at = "replace.cut", ![p].copied = disk.db.schema # 0, ![p].copy = disk.db]
  /\ UNCHANGED <<disk, codex, up, lock, counts, torn>>

\* The safety backup, when there is a database.
ReplaceSave(p) ==
  LET exists == disk.db.schema # 0 IN
  /\ At(p, "replace.save")
  /\ disk' = IF exists THEN Saved ELSE disk
  /\ proc' = [proc EXCEPT ![p].at = "replace.cut", ![p].copied = exists, ![p].copy = disk.db]
  /\ UNCHANGED <<codex, up, lock, counts, torn>>

\* The sidecars go and the replacement is renamed over the database.
ReplaceCut(p) ==
  Writes(p, "replace.cut", "runtime.prepare", [disk EXCEPT !.db = proc[p].staged])

\* _prepare_runtime_database, and a restart for a service that ran.
RuntimePrepare(p) ==
  Looks(p, "runtime.prepare", IF proc[p].active THEN "runtime.start" ELSE "return")

RuntimeStart(p) == Runs(p, "runtime.start", "runtime.check", Starting)

\* _require_active and _verify_health.
RuntimeCheck(p) == up # None /\ Looks(p, "runtime.check", "return")

\* What raises before cutover_started is set only starts the service again.  It is set
\* before the rename, which may still fail: the database is restored then as well.
ReplaceRaises(p) ==
  \/ \E label \in {"replace.stop", "replace.save", "replace.cut", "optimize.save"} :
       Looks(p, label, IF proc[p].stopped THEN "replace.resume" ELSE "return")
  \/ \E label \in {"replace.cut", "runtime.prepare", "runtime.start", "runtime.check"} :
       Looks(p, label, IF proc[p].active THEN "restore.stop" ELSE "restore.copy")

ReplaceResume(p) == Runs(p, "replace.resume", "return", Starting)

\* The handler after the cutover: the backup comes back, or no database.
RestoreStop(p) == Runs(p, "restore.stop", "restore.copy", Stopping)

RestoreCopy(p) ==
  Writes(p, "restore.copy", "restore.prepare",
         [disk EXCEPT !.db = IF proc[p].copied THEN proc[p].copy ELSE NoDatabase])

RestorePrepare(p) ==
  Looks(p, "restore.prepare", IF proc[p].active THEN "restore.start" ELSE "return")

\* migrate ignores how the restart ends; _replace_staged verifies it.
RestoreStart(p) ==
  Runs(p, "restore.start", IF proc[p].op = "migrate" THEN "return" ELSE "restore.check", Starting)

RestoreCheck(p) == up # None /\ Looks(p, "restore.check", "return")

RestoreRaises(p) ==
  \E label \in {"restore.stop", "restore.copy", "restore.prepare", "restore.check"} : Escapes(p, label)

-----------------------------------------------------------------------------
BeginOptimize(p) ==
  /\ disk.link # None
  /\ disk.db.schema # 0
  /\ BeginLocked(p, "optimize",
       [Resting EXCEPT !.at = "optimize.stop", !.target = disk.link, !.active = up # None])

OptimizeStop(p) ==
  /\ At(p, "optimize.stop")
  /\ up' \in Stopping
  /\ proc' = [proc EXCEPT ![p].at = "optimize.directory", ![p].stopped = proc[p].active]
  /\ UNCHANGED <<disk, codex, lock, counts, torn>>

OptimizeDirectory(p) == Looks(p, "optimize.directory", "optimize.save")

\* Backup, copy of the backup, PRAGMA optimize, VACUUM and the inspection.
OptimizeSave(p) ==
  /\ At(p, "optimize.save")
  /\ disk' = Saved
  /\ proc' = [proc EXCEPT ![p].at = "replace.cut", ![p].copied = TRUE, ![p].copy = disk.db,
                          ![p].staged = disk.db]
  /\ UNCHANGED <<codex, up, lock, counts, torn>>

BeginMigrate(p) ==
  /\ disk.link # None
  /\ disk.db.schema # 0
  /\ BeginLocked(p, "migrate",
       [Resting EXCEPT !.at = "migrate.stop", !.target = disk.link, !.active = up # None])

MigrateStop(p) == Runs(p, "migrate.stop", "migrate.save", Stopping)

MigrateSave(p) ==
  /\ At(p, "migrate.save")
  /\ disk' = Saved
  /\ proc' = [proc EXCEPT ![p].at = "migrate.run", ![p].copied = TRUE, ![p].copy = disk.db]
  /\ UNCHANGED <<codex, up, lock, counts, torn>>

MigrateRun(p) ==
  Writes(p, "migrate.run", "runtime.prepare", [disk EXCEPT !.db = Raised(@, proc[p].target)])

MigrateFails(p) ==
  Writes(p, "migrate.run", IF proc[p].active THEN "restore.stop" ELSE "restore.copy",
         [disk EXCEPT !.db = Raised(@, proc[p].target)])

\* systemctl stop itself raises: nothing happened, nobody notices.
StopRefused(p) == Returns(p, "optimize.stop") \/ Returns(p, "migrate.stop")

\* The backup directory, and the backup of migrate, are outside the try block:
\* the service stays stopped.
BackupRaises(p) == Escapes(p, "optimize.directory") \/ Escapes(p, "migrate.save")

\* backup needs no lock.
Backup(p) ==
  /\ "backup" \in Kinds
  /\ At(p, "idle")
  /\ ops < MaxOps
  /\ disk.db.schema # 0
  /\ disk.db \notin disk.backups
  /\ ops' = ops + 1
  /\ disk' = Saved
  /\ UNCHANGED <<codex, up, lock, proc, writes, crashes, torn>>

-----------------------------------------------------------------------------
\* ServiceManager.mutate.
BeginService(p) ==
  \E action \in {"start", "stop", "restart"} :
    BeginLocked(p, action, [Resting EXCEPT !.at = "mutate"])

Mutate(p) ==
  Runs(p, "mutate", "return", IF proc[p].op = "stop" THEN Stopping ELSE Starting)

-----------------------------------------------------------------------------
DatabaseBegins(p) ==
  BeginImport(p) \/ BeginReset(p) \/ BeginOptimize(p) \/ BeginMigrate(p) \/ Backup(p) \/ BeginService(p)

DatabaseStep(p) ==
  \/ ReplaceLock(p) \/ ReplaceRefused(p) \/ ReplaceStop(p) \/ ReplaceSave(p) \/ ReplaceCut(p)
  \/ RuntimePrepare(p) \/ RuntimeStart(p) \/ RuntimeCheck(p) \/ ReplaceRaises(p)
  \/ ReplaceResume(p) \/ RestoreStop(p) \/ RestoreCopy(p) \/ RestorePrepare(p)
  \/ RestoreStart(p) \/ RestoreCheck(p) \/ RestoreRaises(p)
  \/ OptimizeStop(p) \/ OptimizeDirectory(p) \/ OptimizeSave(p) \/ StopRefused(p)
  \/ MigrateStop(p) \/ MigrateSave(p) \/ MigrateRun(p) \/ MigrateFails(p) \/ BackupRaises(p)
  \/ Mutate(p)
=============================================================================
