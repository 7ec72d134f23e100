------------------------------- MODULE Setup --------------------------------
(***************************************************************************)
(* The setup steps and the activation (bridge_cli/install.py), configure   *)
(* (bridge_cli/__main__.py) and the uninstall (bridge_cli/uninstall.py).   *)
(*                                                                         *)
(* setup with answers on its command line goes through the staging steps   *)
(* without the operation lock; the menu takes the lock around each step.   *)
(***************************************************************************)
EXTENDS Host

CONSTANT Domains

ASSUME DomainsAssumption == Domains \subseteq Nat \ {0}

Published == Releases \ Checkouts

\* The code setup runs from names its release directory by its version.
BeginSetup(p) ==
  \E r \in Published, d \in Domains :
    BeginUnlocked(p, "setup", [Resting EXCEPT !.at = "setup.release", !.target = r, !.domain = d])

BeginMenu(p) ==
  \E r \in Published, d \in Domains, step \in MenuSteps :
    BeginLocked(p, "menu", [Resting EXCEPT !.at = step, !.target = r, !.domain = d])

\* Where a staging step leads: the menu runs one, the command all of them.
Then(p, step) == IF proc[p].op = "menu" THEN "return" ELSE step

\* _stage_release: the current release stays as it is; any other directory of
\* that name is replaced by a fresh copy, without an environment.
Staged(r) ==
  [disk EXCEPT !.dirs[r] = IF @ # "absent" /\ disk.link = r THEN @ ELSE "bare",
               !.staged = r]

StageRelease(p) == Writes(p, "setup.release", Then(p, "setup.database"), Staged(proc[p].target))

\* stage_database: adopts a legacy database when there is none, and migrates
\* the database in place, whether the service runs on it or not.
Initialized(db, r) == [db EXCEPT !.schema = IF @ < Schema[r] THEN Schema[r] ELSE @]

StageDatabase(p) ==
  \E rows \in IF disk.db.schema = 0 THEN {{}, {Foreign}} ELSE {disk.db.rows} :
    Writes(p, "setup.database", Then(p, "setup.domain"),
           [disk EXCEPT !.db = [Initialized(@, proc[p].target) EXCEPT !.rows = rows]])

\* configure_domain and configure_administrator write the pending file.
StageDomain(p) ==
  Writes(p, "setup.domain", Then(p, "setup.service"),
         [disk EXCEPT !.wanted = proc[p].domain,
                      !.pending = IF @ = "none" THEN "configured" ELSE @])

\* stage_service: the pending units, and the installation file with the
\* version of the code that runs; commit and release_id are not carried over.
StageService(p) ==
  /\ disk.pending # "none"
  /\ disk.db.schema # 0
  /\ disk.staged # None
  /\ Writes(p, "setup.service", "return",
       [disk EXCEPT !.pending = "service", !.fragment = disk.wanted,
          !.inst = [mode |-> IF @.mode = "managed" THEN "managed" ELSE "prepared",
                    version |-> Version[proc[p].target], rel |-> None, domain |-> disk.wanted]])

\* A step that raises, or whose prerequisite is missing, ends the command.
SetupRaises(p) == \E step \in MenuSteps : Returns(p, step)

-----------------------------------------------------------------------------
BeginActivate(p) ==
  \E r \in Published :
    /\ disk.pending = "service"
    /\ disk.staged # None
    /\ BeginLocked(p, "activate",
         [Resting EXCEPT !.at = "activate.stage", !.target = r, !.inst = disk.inst,
                         !.domain = disk.wanted])

ActivateStage(p) == Writes(p, "activate.stage", "activate.backup", Staged(proc[p].target))

\* _backup_existing: the database is copied while the service runs.
ActivateBackup(p) ==
  LET exists == disk.db.schema # 0 IN
  /\ At(p, "activate.backup")
  /\ disk' = IF exists THEN Saved ELSE disk
  /\ proc' = [proc EXCEPT ![p].at = "activate.sync", ![p].copy = disk.db, ![p].link = disk.link,
                          ![p].files = [env |-> disk.env, caddy |-> disk.caddy, unit |-> disk.unit],
                          ![p].active = up # None]
  /\ UNCHANGED <<codex, up, lock, counts, torn>>

\* uv sync, the permissions, and the Caddy fragment with its validation; a Caddyfile that
\* has the site already keeps its own.
ActivateSync(p) ==
  \E caddy \in {disk.caddy, disk.fragment} :
    Writes(p, "activate.sync", "activate.stop",
           [disk EXCEPT !.dirs[proc[p].target] = "ready", !.caddy = caddy])

\* A service that runs is stopped, and the database copied again over the
\* first copy, which held fewer rows (the set of backups keeps both).
ActivateStop(p) ==
  Runs(p, "activate.stop", IF up = None THEN "activate.legacy" ELSE "activate.refresh", Stopping)

ActivateRefresh(p) ==
  /\ At(p, "activate.refresh")
  /\ disk' = Saved
  /\ proc' = [proc EXCEPT ![p].at = "activate.legacy", ![p].copy = disk.db]
  /\ UNCHANGED <<codex, up, lock, counts, torn>>

\* A first activation copies the legacy database once more, when there is one.
ActivateLegacy(p) ==
  \/ Looks(p, "activate.legacy", "activate.switch")
  \/ /\ proc[p].inst.mode # "managed"
     /\ disk.db.rows \subseteq {Foreign}
     /\ Writes(p, "activate.legacy", "activate.switch",
          [disk EXCEPT !.db = Initialized([schema |-> 0, rows |-> {Foreign}], proc[p].target)])

ActivateSwitch(p) == Writes(p, "activate.switch", "activate.files", Switched(proc[p].target))

ActivateFiles(p) ==
  Writes(p, "activate.files", "activate.restart",
         [disk EXCEPT !.env = disk.wanted, !.unit = "managed"])

ActivateRestart(p) == Runs(p, "activate.restart", "activate.check", Starting)

ActivateCheck(p) == up # None /\ Looks(p, "activate.check", "activate.publish")

\* The installation read at the beginning, updated: its release_id stays.
ActivatePublish(p) ==
  Writes(p, "activate.publish", "activate.receipt",
         [disk EXCEPT !.inst = [proc[p].inst EXCEPT !.mode = "managed",
                                  !.version = Version[proc[p].target], !.domain = proc[p].domain]])

ActivateReceipt(p) ==
  Writes(p, "activate.receipt", "return",
         [disk EXCEPT !.receipt = [NoReceipt EXCEPT !.op = "setup", !.state = "complete"]])

ActivateRaises(p) ==
  \/ \E label \in {"activate.stage", "activate.backup"} : Returns(p, label)
  \/ \E label \in {"activate.sync", "activate.stop", "activate.refresh", "activate.legacy",
                   "activate.switch", "activate.files", "activate.restart", "activate.check"} :
       Looks(p, label, "deactivate.stop")
  \/ \E label \in {"activate.publish", "activate.receipt"} : Escapes(p, label)

\* _restore_activation: stop, the link, the files and the database from the
\* backup, and the service if it ran.
DeactivateStop(p) ==
  Runs(p, "deactivate.stop", "deactivate.link", IF disk.unit = "managed" THEN Stopping ELSE {up})

\* Mutant: the new link stays.
DeactivateLinkNothing(p) == Looks(p, "deactivate.link", "deactivate.files")

DeactivateLink(p) == Writes(p, "deactivate.link", "deactivate.files", Switched(proc[p].link))

\* Mutant: Caddy and the units stay as they were activated.
DeactivateFilesOnly(p) ==
  Writes(p, "deactivate.files", IF proc[p].active THEN "deactivate.start" ELSE "deactivate.receipt",
         [disk EXCEPT !.db = proc[p].copy, !.env = proc[p].files.env])

DeactivateFiles(p) ==
  Writes(p, "deactivate.files", IF proc[p].active THEN "deactivate.start" ELSE "deactivate.receipt",
         [disk EXCEPT !.db = proc[p].copy, !.env = proc[p].files.env,
                      !.caddy = proc[p].files.caddy, !.unit = proc[p].files.unit])

DeactivateStart(p) == Runs(p, "deactivate.start", "deactivate.receipt", Starting)

Failed == [disk EXCEPT !.receipt = [NoReceipt EXCEPT !.op = "setup", !.state = "failed"]]

DeactivateReceipt(p) == Writes(p, "deactivate.receipt", "return", Failed)

\* The restore itself fails: the receipt says so, and the rest is left as it is.
DeactivateRaises(p) ==
  /\ \E label \in {"deactivate.stop", "deactivate.link", "deactivate.files", "deactivate.start"} :
       At(p, label)
  /\ disk' = Failed
  /\ Leave(p)
  /\ torn' = TRUE
  /\ UNCHANGED <<codex, up, counts>>

-----------------------------------------------------------------------------
\* configure, for a new domain: the environment, then Caddy, then a restart.
BeginConfigure(p) ==
  \E d \in Domains :
    /\ disk.env # 0
    /\ BeginLocked(p, "configure",
         [Resting EXCEPT !.at = "configure.env", !.domain = d, !.active = up # None,
            !.files = [env |-> disk.env, caddy |-> disk.caddy, unit |-> disk.unit]])

ConfigureEnv(p) == Writes(p, "configure.env", "configure.caddy", [disk EXCEPT !.env = proc[p].domain])

ConfigureCaddy(p) ==
  Writes(p, "configure.caddy", "configure.restart", [disk EXCEPT !.caddy = proc[p].domain])

ConfigureRestart(p) == Runs(p, "configure.restart", "configure.publish", Starting)

ConfigurePublish(p) ==
  Writes(p, "configure.publish", "return", [disk EXCEPT !.inst.domain = proc[p].domain])

\* caddy validate, its reload or the restart return an error: both files come
\* back.  Anything that raises instead is caught by nobody.
ConfigureFails(p) == Looks(p, "configure.restart", "configure.undo")

\* Mutant: Caddy keeps the new domain.
ConfigureUndoEnv(p) ==
  Writes(p, "configure.undo", IF proc[p].active THEN "configure.again" ELSE "return",
         [disk EXCEPT !.env = proc[p].files.env])

ConfigureUndo(p) ==
  Writes(p, "configure.undo", IF proc[p].active THEN "configure.again" ELSE "return",
         [disk EXCEPT !.env = proc[p].files.env, !.caddy = proc[p].files.caddy])

ConfigureAgain(p) == Runs(p, "configure.again", "return", Starting)

ConfigureRaises(p) ==
  \/ Returns(p, "configure.env")
  \/ \E label \in {"configure.caddy", "configure.publish", "configure.undo"} : Escapes(p, label)

-----------------------------------------------------------------------------
\* The plan is made before the lock: what exists then is what is removed.
\* copied: an export is asked for; published: the data goes as well.
BeginUninstall(p) ==
  \E remove_data, export \in BOOLEAN :
    /\ (remove_data /\ disk.db.schema # 0) => export
    /\ disk.inst.mode = "managed"
    /\ disk.unit = "managed"
    /\ BeginUnlocked(p, "uninstall",
         [Resting EXCEPT !.at = "uninstall.lock", !.published = remove_data, !.copied = export,
                         !.staged = disk.db, !.codex = codex])

UninstallLock(p) ==
  /\ At(p, "uninstall.lock")
  /\ lock = None
  /\ lock' = p
  /\ proc' = [proc EXCEPT ![p].at = "uninstall.stop", ![p].active = up # None]
  /\ UNCHANGED <<disk, codex, up, counts, torn>>

UninstallRefused(p) == (lock # None /\ Returns(p, "uninstall.lock")) \/ Returns(p, "uninstall.stop")

UninstallStop(p) == Runs(p, "uninstall.stop", "uninstall.export", Stopping)

\* Mutant: the export is forgotten.
UninstallExportNothing(p) == Looks(p, "uninstall.export", "uninstall.disable")

UninstallExport(p) ==
  Writes(p, "uninstall.export", "uninstall.disable",
         IF proc[p].copied /\ disk.db.schema # 0 THEN Saved ELSE disk)

UninstallExportFails(p) ==
  Looks(p, "uninstall.export", IF proc[p].active THEN "uninstall.resume" ELSE "return")

UninstallResume(p) == Runs(p, "uninstall.resume", "return", Starting)

UninstallDisable(p) ==
  /\ At(p, "uninstall.disable")
  /\ up' \in Stopping
  /\ codex' = [codex EXCEPT !.running = IF proc[p].codex.unit THEN 0 ELSE @]
  /\ Goto(p, "uninstall.remove")
  /\ UNCHANGED <<disk, lock, counts, torn>>

\* The units, the launcher, /opt with its releases and the runtime, the
\* environment, and the companion's unit and status if the plan has them.
UninstallRemove(p) ==
  /\ At(p, "uninstall.remove")
  /\ disk' = [disk EXCEPT !.unit = "none", !.env = 0, !.caddy = 0, !.link = None,
                          !.dirs = [r \in Releases |-> "absent"]]
  /\ codex' = [codex EXCEPT !.runtime = 0, !.link = FALSE,
                 !.unit = IF proc[p].codex.unit THEN FALSE ELSE @,
                 !.desired = IF proc[p].codex.state # "none" THEN FALSE ELSE @,
                 !.state = IF proc[p].codex.state # "none" THEN "none" ELSE @,
                 !.digest = IF proc[p].codex.state # "none" THEN 0 ELSE @]
  /\ Goto(p, IF proc[p].published THEN "uninstall.purge" ELSE "return")
  /\ UNCHANGED <<up, lock, counts, torn>>

\* The data: a database that the plan did not see is not a target.
UninstallPurge(p) ==
  Writes(p, "uninstall.purge", "return",
         [disk EXCEPT !.db = IF proc[p].staged.schema # 0 THEN NoDatabase ELSE @,
                      !.inst = NoInstallation, !.receipt = NoReceipt, !.staged = None,
                      !.pending = "none", !.wanted = 0, !.fragment = 0])

UninstallRaises(p) ==
  \E label \in {"uninstall.remove", "uninstall.purge"} : Escapes(p, label)

-----------------------------------------------------------------------------
SetupBegins(p) ==
  BeginSetup(p) \/ BeginMenu(p) \/ BeginActivate(p) \/ BeginConfigure(p) \/ BeginUninstall(p)

SetupStep(p) ==
  \/ StageRelease(p) \/ StageDatabase(p) \/ StageDomain(p) \/ StageService(p) \/ SetupRaises(p)
  \/ ActivateStage(p) \/ ActivateBackup(p) \/ ActivateSync(p) \/ ActivateStop(p)
  \/ ActivateRefresh(p) \/ ActivateLegacy(p) \/ ActivateSwitch(p) \/ ActivateFiles(p)
  \/ ActivateRestart(p) \/ ActivateCheck(p) \/ ActivatePublish(p) \/ ActivateReceipt(p)
  \/ ActivateRaises(p) \/ DeactivateStop(p) \/ DeactivateLink(p) \/ DeactivateFiles(p) \/ DeactivateStart(p)
  \/ DeactivateReceipt(p) \/ DeactivateRaises(p)
  \/ ConfigureEnv(p) \/ ConfigureCaddy(p) \/ ConfigureRestart(p) \/ ConfigurePublish(p)
  \/ ConfigureFails(p) \/ ConfigureUndo(p) \/ ConfigureAgain(p) \/ ConfigureRaises(p)
  \/ UninstallLock(p) \/ UninstallRefused(p) \/ UninstallStop(p) \/ UninstallExport(p)
  \/ UninstallExportFails(p) \/ UninstallResume(p) \/ UninstallDisable(p)
  \/ UninstallRemove(p) \/ UninstallPurge(p) \/ UninstallRaises(p)
=============================================================================
