------------------------------ MODULE Release -------------------------------
(***************************************************************************)
(* update, deploy and rollback (bridge_cli/release.py).  An update and a   *)
(* deploy prepare a release directory, try the migration on a copy, stop   *)
(* the service, copy and migrate the database, switch the link, start and  *)
(* verify, and write what is installed; a failure after the stop goes back *)
(* in the handler.  A rollback returns to the release and the database the *)
(* last completed update or deploy recorded.                               *)
(***************************************************************************)
EXTENDS Host

\* The commit an installation file records; a published release has none.
CommitOf(inst) == IF inst.rel \in Checkouts THEN inst.rel ELSE None

\* _transition_rejection_reason, for a checkout of release r.
Rejected(r) ==
  \/ Version[r] < disk.inst.version
  \/ /\ CommitOf(disk.inst) \notin {None, r}
     /\ <<CommitOf(disk.inst), r>> \notin Forward

\* What _activate_prepared_release captures before it changes anything.
Captured(r) ==
  [Resting EXCEPT !.at = "unpack", !.target = r, !.link = disk.link, !.inst = disk.inst,
                  !.new = [disk.inst EXCEPT !.version = Version[r], !.rel = r]]

BeginUpdate(p) ==
  \E r \in Releases \ Checkouts :
    /\ disk.inst.mode = "managed"
    /\ Version[r] > disk.inst.version
    /\ BeginLocked(p, "update", Captured(r))

\* plan() runs again under the lock; a downgrade needs --allow-downgrade.
BeginDeploy(p) ==
  \E r \in Checkouts, allow_downgrade \in BOOLEAN :
    /\ disk.inst.mode = "managed"
    /\ Rejected(r) => allow_downgrade
    /\ disk.link # r
    /\ BeginLocked(p, "deploy", Captured(r))

\* _prepare_release and _prepare_checkout: a directory that exists is used as
\* it is; otherwise a verified archive is renamed into place.
Unpack(p) ==
  LET r == proc[p].target IN
  /\ At(p, "unpack")
  /\ disk' = [disk EXCEPT !.dirs[r] = IF @ = "absent" THEN "bare" ELSE @]
  /\ proc' = [proc EXCEPT ![p].at = "environment", ![p].copied = disk.dirs[r] = "absent"]
  /\ UNCHANGED <<codex, up, lock, counts, torn>>

\* _ensure_release_environment: uv sync unless the environment is complete.
Environment(p) ==
  Writes(p, "environment", "preflight", [disk EXCEPT !.dirs[proc[p].target] = "ready"])

\* uv sync fails: a directory this operation unpacked goes, one that existed
\* stays without its environment.  No receipt is written.
EnvironmentFails(p) ==
  LET r == proc[p].target IN
  /\ At(p, "environment")
  /\ disk.dirs[r] = "bare"
  /\ disk' = [disk EXCEPT !.dirs[r] = IF proc[p].copied THEN "absent" ELSE @]
  /\ Leave(p)
  /\ UNCHANGED <<codex, up, counts, torn>>

\* The migration of a copy, while the service runs.  A database that a newer
\* release migrated keeps its schema.
Preflight(p) ==
  /\ At(p, "preflight")
  /\ proc' = [proc EXCEPT ![p].at = "stop", ![p].copied = FALSE]
  /\ UNCHANGED <<disk, codex, up, lock, counts, torn>>

StopService(p) ==
  /\ At(p, "stop")
  /\ up' \in Stopping
  /\ proc' = [proc EXCEPT ![p].at = "save", ![p].stopped = TRUE]
  /\ UNCHANGED <<disk, codex, lock, counts, torn>>

SaveDatabase(p) ==
  /\ At(p, "save")
  /\ disk' = Saved
  /\ proc' = [proc EXCEPT ![p].at = "migrate", ![p].copy = disk.db, ![p].copied = TRUE]
  /\ UNCHANGED <<codex, up, lock, counts, torn>>

\* migrate_database never lowers the schema of a database.
Migrated(db, r) == [db EXCEPT !.schema = IF @ < Schema[r] THEN Schema[r] ELSE @]

MigrateDatabase(p) ==
  Writes(p, "migrate", "switch", [disk EXCEPT !.db = Migrated(@, proc[p].target)])

\* One of the migrations fails after another one was committed.
MigrationFails(p) ==
  Writes(p, "migrate", "undo.stop", [disk EXCEPT !.db = Migrated(@, proc[p].target)])

SwitchRelease(p) == Writes(p, "switch", "start", Switched(proc[p].target))

StartService(p) == Runs(p, "start", "check", Starting)

\* is-active and _verify_http.
CheckService(p) == up # None /\ Looks(p, "check", "publish")

PublishInstallation(p) ==
  /\ At(p, "publish")
  /\ disk' = [disk EXCEPT !.inst = proc[p].new]
  /\ proc' = [proc EXCEPT ![p].at = "codex.read", ![p].ret = "receipt", ![p].published = TRUE]
  /\ UNCHANGED <<codex, up, lock, counts, torn>>

\* Mutant: the release activated in place of the one before it.
CompletedItself(p) ==
  [op |-> proc[p].op, state |-> "complete", link |-> proc[p].target,
   version |-> proc[p].new.version, rel |-> proc[p].new.rel, copy |-> proc[p].copy]

\* What a completed update or deploy leaves for a rollback.
Completed(p) ==
  [op |-> proc[p].op, state |-> "complete", link |-> proc[p].link,
   version |-> proc[p].inst.version, rel |-> proc[p].inst.rel, copy |-> proc[p].copy]

WriteReceipt(p) == Writes(p, "receipt", "return", [disk EXCEPT !.receipt = Completed(p)])

Return(p) == Returns(p, "return")

\* The except clause.  What ran before the stop is not undone.
Guarded == {"save", "migrate", "switch", "start", "check", "publish", "receipt"}

BodyRaises(p) ==
  \/ \E label \in Guarded : Looks(p, label, "undo.stop")
  \/ \E label \in {"preflight", "stop"} : Looks(p, label, "undo.receipt")

\* Mutant: the service that is on trial is not stopped.
UndoStopNothing(p) == Looks(p, "undo.stop", "undo.switch")

UndoStop(p) == Runs(p, "undo.stop", "undo.switch", Stopping)

\* Mutants: the database stays migrated; the link stays.
UndoSwitchOnly(p) == Writes(p, "undo.switch", "undo.start", Switched(proc[p].link))
UndoSwitchNothing(p) ==
  Looks(p, "undo.switch", IF proc[p].copied THEN "undo.unlink" ELSE "undo.start")

UndoSwitch(p) ==
  Writes(p, "undo.switch", IF proc[p].copied THEN "undo.unlink" ELSE "undo.start",
         Switched(proc[p].link))

\* _restore_database unlinks the database, then copies the backup.
UndoUnlink(p) == Writes(p, "undo.unlink", "undo.copy", [disk EXCEPT !.db = NoDatabase])
UndoCopy(p) == Writes(p, "undo.copy", "undo.start", [disk EXCEPT !.db = proc[p].copy])

UndoStart(p) == Runs(p, "undo.start", "undo.publish", Starting)

\* Mutant: the installation file keeps the release that failed.
UndoPublishNothing(p) == Looks(p, "undo.publish", "undo.receipt")

UndoPublish(p) ==
  Writes(p, "undo.publish", "undo.receipt",
         IF proc[p].published THEN [disk EXCEPT !.inst = proc[p].inst] ELSE disk)

UndoReceipt(p) ==
  Writes(p, "undo.receipt", "return",
         [disk EXCEPT !.receipt =
            [NoReceipt EXCEPT !.op = proc[p].op,
                              !.state = IF proc[p].stopped THEN "failed_rolled_back" ELSE "failed"]])

UndoRaises(p) ==
  \E label \in {"undo.stop", "undo.switch", "undo.unlink", "undo.copy", "undo.publish", "undo.receipt"} :
    Escapes(p, label)

-----------------------------------------------------------------------------
\* rollback: the receipt of the last operation must be that of a completed
\* update or deploy, and its release directory must exist.
BeginRollback(p) ==
  LET receipt == disk.receipt IN
  /\ receipt.op \in {"update", "deploy"}
  /\ receipt.state = "complete"
  /\ receipt.link # None
  /\ disk.dirs[receipt.link] # "absent"
  /\ disk.inst.mode = "managed"
  /\ BeginLocked(p, "rollback",
       [Resting EXCEPT !.at = "rollback.save", !.target = receipt.link, !.link = disk.link,
                       !.inst = disk.inst, !.staged = receipt.copy,
                       !.new = [disk.inst EXCEPT !.version = receipt.version, !.rel = receipt.rel]])

\* The safety backup is taken while the service still runs.
RollbackSave(p) ==
  /\ At(p, "rollback.save")
  /\ disk' = Saved
  /\ proc' = [proc EXCEPT ![p].at = "rollback.stop", ![p].copy = disk.db]
  /\ UNCHANGED <<codex, up, lock, counts, torn>>

RollbackStop(p) == Runs(p, "rollback.stop", "rollback.switch", Stopping)

\* A failure up to the stop ends the command with nothing changed.
RollbackRefused(p) == Returns(p, "rollback.save") \/ Returns(p, "rollback.stop")

RollbackSwitch(p) == Writes(p, "rollback.switch", "rollback.unlink", Switched(proc[p].target))
RollbackUnlink(p) == Writes(p, "rollback.unlink", "rollback.copy", [disk EXCEPT !.db = NoDatabase])
RollbackCopy(p) == Writes(p, "rollback.copy", "rollback.start", [disk EXCEPT !.db = proc[p].staged])
RollbackStart(p) == Runs(p, "rollback.start", "rollback.check", Starting)
RollbackCheck(p) == up # None /\ Looks(p, "rollback.check", "rollback.publish")

RollbackPublish(p) ==
  /\ At(p, "rollback.publish")
  /\ disk' = [disk EXCEPT !.inst = proc[p].new]
  /\ proc' = [proc EXCEPT ![p].at = "codex.read", ![p].ret = "rollback.receipt"]
  /\ UNCHANGED <<codex, up, lock, counts, torn>>

RollbackReceipt(p) ==
  Writes(p, "rollback.receipt", "return",
         [disk EXCEPT !.receipt = [NoReceipt EXCEPT !.op = "rollback", !.state = "complete"]])

RollbackRaises(p) ==
  \E label \in {"rollback.switch", "rollback.unlink", "rollback.copy", "rollback.start",
                "rollback.check", "rollback.publish", "rollback.receipt"} :
    Looks(p, label, "return.stop")

ReturnStop(p) == Runs(p, "return.stop", "return.switch", Stopping)
ReturnSwitch(p) == Writes(p, "return.switch", "return.unlink", Switched(proc[p].link))
ReturnUnlink(p) == Writes(p, "return.unlink", "return.copy", [disk EXCEPT !.db = NoDatabase])
ReturnCopy(p) == Writes(p, "return.copy", "return.start", [disk EXCEPT !.db = proc[p].copy])
ReturnStart(p) == Runs(p, "return.start", "return.publish", Starting)
ReturnPublish(p) == Writes(p, "return.publish", "return", [disk EXCEPT !.inst = proc[p].inst])

ReturnRaises(p) ==
  \E label \in {"return.stop", "return.switch", "return.unlink", "return.copy", "return.publish"} :
    Escapes(p, label)

-----------------------------------------------------------------------------
ReleaseBegins(p) == BeginUpdate(p) \/ BeginDeploy(p) \/ BeginRollback(p)

ActivateStep(p) ==
  \/ Unpack(p) \/ Environment(p) \/ EnvironmentFails(p) \/ Preflight(p)
  \/ StopService(p) \/ SaveDatabase(p) \/ MigrateDatabase(p) \/ MigrationFails(p)
  \/ SwitchRelease(p) \/ StartService(p) \/ CheckService(p) \/ PublishInstallation(p)
  \/ WriteReceipt(p) \/ Return(p) \/ BodyRaises(p)

UndoStep(p) ==
  \/ UndoStop(p) \/ UndoSwitch(p) \/ UndoUnlink(p) \/ UndoCopy(p)
  \/ UndoStart(p) \/ UndoPublish(p) \/ UndoReceipt(p) \/ UndoRaises(p)

RollbackStep(p) ==
  \/ RollbackSave(p) \/ RollbackStop(p) \/ RollbackRefused(p) \/ RollbackSwitch(p)
  \/ RollbackUnlink(p) \/ RollbackCopy(p) \/ RollbackStart(p) \/ RollbackCheck(p)
  \/ RollbackPublish(p) \/ RollbackReceipt(p) \/ RollbackRaises(p)

ReturnStep(p) ==
  \/ ReturnStop(p) \/ ReturnSwitch(p) \/ ReturnUnlink(p) \/ ReturnCopy(p)
  \/ ReturnStart(p) \/ ReturnPublish(p) \/ ReturnRaises(p)

ReleaseStep(p) == ActivateStep(p) \/ UndoStep(p) \/ RollbackStep(p) \/ ReturnStep(p)
=============================================================================
