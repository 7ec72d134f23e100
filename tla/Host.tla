-------------------------------- MODULE Host --------------------------------
(***************************************************************************)
(* What the operations of bridge_cli share: the files of a managed         *)
(* installation, the service systemd runs from them, and the operation     *)
(* lock.                                                                   *)
(*                                                                         *)
(* An operation is a process that goes through labelled steps.  A step     *)
(* that calls a command or writes a file may raise, which leads to the     *)
(* handler of the enclosing try block or ends the operation; the process   *)
(* may also die at any step, and no handler runs then.                     *)
(***************************************************************************)
EXTENDS Integers, FiniteSets

CONSTANTS
  Releases,     \* release directories that can exist, by their name
  Checkouts,    \* those built from a commit of a checkout; the others are published
  Version,      \* release -> its version, a natural number
  Schema,       \* release -> the one schema its code accepts (SCHEMA_VERSION)
  Forward,      \* pairs <<a, b>>: the commit of b descends from the commit of a
  None,         \* no release, and no process
  Procs,        \* processes of the command line
  Kinds,        \* bound: the operations that may begin
  MaxWrites,    \* bound: rows ever written by the service
  MaxOps,       \* bound: operations ever begun
  MaxCrashes    \* bound: processes that die

ASSUME HostAssumption ==
  /\ IsFiniteSet(Releases)
  /\ Checkouts \subseteq Releases
  /\ None \notin Releases \cup Procs
  /\ Version \in [Releases -> Nat]
  /\ Schema \in [Releases -> Nat \ {0}]
  /\ Forward \subseteq Checkouts \X Checkouts
  /\ MaxWrites \in Nat
  /\ MaxOps \in Nat
  /\ MaxCrashes \in Nat

VARIABLES
  disk,         \* the files of the installation
  codex,        \* the files and the service of the Codex companion
  up,           \* the release whose code the service runs, or None
  lock,         \* the process that holds the operation lock, or None
  proc,         \* process -> where it is, and its local variables
  writes,       \* rows written so far
  ops,          \* operations begun so far
  crashes,      \* processes that died so far
  torn          \* an operation died, or its handler raised

counts == <<writes, ops, crashes>>
vars == <<disk, codex, up, lock, proc, counts, torn>>

\* Without a schema there is no database, and there are no rows.
Database == {d \in [schema : Nat, rows : SUBSET (0..MaxWrites)] : d.schema = 0 => d.rows = {}}
NoDatabase == [schema |-> 0, rows |-> {}]
\* A copied row set of an operation that imports is marked with row 0.
Foreign == 0

\* installation.json; rel is its release_id, None when the file has none.
Installation == [mode : {"none", "prepared", "managed"}, version : Nat,
                 rel : Releases \cup {None}, domain : Nat]

\* last-operation.json
Receipt == [op : {"none", "update", "deploy", "rollback", "setup"},
            state : {"none", "complete", "failed", "failed_rolled_back"},
            link : Releases \cup {None}, version : Nat,
            rel : Releases \cup {None}, copy : Database]
NoReceipt == [op |-> "none", state |-> "none", link |-> None, version |-> 0,
              rel |-> None, copy |-> NoDatabase]

Disk ==
  [link    : Releases \cup {None},                      \* the current symlink
   dirs    : [Releases -> {"absent", "bare", "ready"}], \* bare: no environment
   db      : Database,
   backups : SUBSET Database,                           \* under backup_root
   inst    : Installation,
   receipt : Receipt,
   staged  : Releases \cup {None},                      \* setup.json release_dir
   pending : {"none", "configured", "service"},         \* the pending directory
   wanted  : Nat,                                       \* domain of the pending files
   env     : Nat,                                       \* domain of bridge.env
   fragment : Nat,                                      \* domain of the pending Caddy file
   caddy   : Nat,                                       \* domain Caddy serves
   unit    : {"none", "managed"}]                       \* the live unit files

NoDisk == [link |-> None]

NoInstallation == [mode |-> "none", version |-> 0, rel |-> None, domain |-> 0]

\* codex-runtime.json, the runtime directory and the companion service; a
\* runtime is known by the digest of its lock files, 0 when there is none.
Companion == [runtime : Nat, link : BOOLEAN, unit : BOOLEAN, running : Nat,
              desired : BOOLEAN, state : {"none", "complete", "failed"}, digest : Nat]
NoCompanion == [runtime |-> 0, link |-> FALSE, unit |-> FALSE, running |-> 0,
                desired |-> FALSE, state |-> "none", digest |-> 0]

\* The operations, and the places of their steps.
Operations ==
  {"none", "update", "deploy", "rollback", "enable", "repair", "disable", "import", "reset",
   "optimize", "migrate", "start", "stop", "restart", "setup", "menu", "activate", "configure",
   "uninstall"}

UpdateLabels ==
  {"unpack", "environment", "preflight", "stop", "save", "migrate", "switch", "start", "check",
   "publish", "receipt", "undo.stop", "undo.switch", "undo.unlink", "undo.copy", "undo.start",
   "undo.publish", "undo.receipt"}
RollbackLabels ==
  {"rollback.save", "rollback.stop", "rollback.switch", "rollback.unlink", "rollback.copy",
   "rollback.start", "rollback.check", "rollback.publish", "rollback.receipt", "return.stop",
   "return.switch", "return.unlink", "return.copy", "return.start", "return.publish"}
ReconcileLabels ==
  {"codex.read", "stage.aside", "stage.install", "stage.prepare", "fail", "repair.restart",
   "repair.status", "repair.back", "repair.again", "repair.fail"}
EnableLabels ==
  {"enable.start", "enable.refresh", "enable.ready", "enable.status", "enable.off",
   "enable.back", "enable.fail", "fail.off"}
DatabaseLabels ==
  {"replace.lock", "replace.stop", "replace.save", "replace.cut", "replace.resume",
   "runtime.prepare", "runtime.start", "runtime.check", "restore.stop", "restore.copy",
   "restore.prepare", "restore.start", "restore.check", "optimize.stop", "optimize.directory",
   "optimize.save", "migrate.stop", "migrate.save", "migrate.run"}
MenuSteps == {"setup.release", "setup.database", "setup.domain", "setup.service"}
ActivateLabels ==
  {"activate.stage", "activate.backup", "activate.sync", "activate.stop", "activate.refresh",
   "activate.legacy", "activate.switch", "activate.files", "activate.restart", "activate.check",
   "activate.publish", "activate.receipt", "deactivate.stop", "deactivate.link",
   "deactivate.files", "deactivate.start", "deactivate.receipt"}
ConfigureLabels ==
  {"configure.env", "configure.caddy", "configure.restart", "configure.publish",
   "configure.undo", "configure.again"}
UninstallLabels ==
  {"uninstall.lock", "uninstall.stop", "uninstall.export", "uninstall.disable",
   "uninstall.remove", "uninstall.purge", "uninstall.resume"}

Labels ==
  {"idle", "return", "disable", "mutate"} \cup UpdateLabels \cup RollbackLabels
    \cup ReconcileLabels \cup EnableLabels \cup DatabaseLabels \cup MenuSteps
    \cup ActivateLabels \cup ConfigureLabels \cup UninstallLabels

\* The local variables of an operation: what it read, and the flags its
\* handlers consult.  The last two are observations, read by properties only.
Local ==
  [at : Labels, op : Operations, ret : {"return", "receipt", "rollback.receipt"},
   target : Releases \cup {None},   \* the release it activates, or whose code it is
   link : Releases \cup {None},     \* previous_release, current_release
   inst : Installation,             \* the installation file it read
   new : Installation,              \* the one it publishes
   copy : Database,                 \* what its handler restores
   staged : Database,               \* what it puts in place
   copied : BOOLEAN,                \* live_backup_ready, a backup exists
   stopped : BOOLEAN, published : BOOLEAN,
   active : BOOLEAN,                \* the service ran when it looked
   domain : Nat,                    \* the domain it was given
   files : [env : Nat, caddy : Nat, unit : {"none", "managed"}],
   codex : Companion,               \* a _RuntimeStage: what a repair puts back
   was : BOOLEAN,                   \* the service ran when it began
   before : Disk \cup {NoDisk}]     \* the files when it began

NoFiles == [env |-> 0, caddy |-> 0, unit |-> "none"]

Resting ==
  [at |-> "idle", op |-> "none", ret |-> "return", target |-> None, link |-> None,
   inst |-> NoInstallation, new |-> NoInstallation, copy |-> NoDatabase,
   staged |-> NoDatabase, copied |-> FALSE, stopped |-> FALSE, published |-> FALSE,
   active |-> FALSE, domain |-> 0, files |-> NoFiles,
   codex |-> NoCompanion, was |-> FALSE, before |-> NoDisk]

-----------------------------------------------------------------------------
\* The code and the database fit: the service refuses any other schema.
Fits(r) ==
  /\ r # None
  /\ disk.dirs[r] = "ready"
  /\ disk.db.schema = Schema[r]

At(p, label) == proc[p].at = label

Goto(p, label) == proc' = [proc EXCEPT ![p].at = label]

\* A step of p from one label to the next that writes files, one that calls
\* systemctl, and one that only looks.
Writes(p, from, to, d) ==
  /\ At(p, from)
  /\ disk' = d
  /\ Goto(p, to)
  /\ UNCHANGED <<codex, up, lock, counts, torn>>

Runs(p, from, to, states) ==
  /\ At(p, from)
  /\ up' \in states
  /\ Goto(p, to)
  /\ UNCHANGED <<disk, codex, lock, counts, torn>>

Looks(p, from, to) == At(p, from) /\ Goto(p, to) /\ UNCHANGED <<disk, codex, up, lock, counts, torn>>

\* An operation begins; operation_lock refuses it while another one holds the
\* lock.  Reading and staging may come before, and then nothing is locked.
Begin(p, op, locals) ==
  /\ op \in Kinds
  /\ At(p, "idle")
  /\ ops < MaxOps
  /\ ops' = ops + 1
  /\ proc' = [proc EXCEPT ![p] = [locals EXCEPT !.op = op, !.was = up # None, !.before = disk]]
  /\ UNCHANGED <<disk, codex, up, writes, crashes, torn>>

BeginLocked(p, op, locals) == lock = None /\ lock' = p /\ Begin(p, op, locals)
BeginUnlocked(p, op, locals) == UNCHANGED lock /\ Begin(p, op, locals)

\* Mutant: the lock stays behind.
LeaveLocked(p) ==
  /\ lock' = lock
  /\ proc' = [proc EXCEPT ![p] = Resting]

\* The with statement ends: the lock is released, whatever the outcome.
Leave(p) ==
  /\ lock' = IF lock = p THEN None ELSE lock
  /\ proc' = [proc EXCEPT ![p] = Resting]

\* The operation returns, or raises with nothing left to undo.
Returns(p, from) == At(p, from) /\ Leave(p) /\ UNCHANGED <<disk, codex, up, counts, torn>>

\* An exception in a handler, or outside every try block: nobody catches it.
Escapes(p, from) ==
  /\ At(p, from)
  /\ Leave(p)
  /\ torn' = TRUE
  /\ UNCHANGED <<disk, codex, up, counts>>

\* systemctl stop, start and restart.  The unit is of Type=simple: the command
\* succeeds although the process ends at once, over its schema for instance.
\* Without the unit there is nothing to start.
Stopping == {None}
Starting ==
  {None} \cup (IF disk.unit = "managed" /\ Fits(disk.link) THEN {disk.link} ELSE {})

\* sqlite_backup into a new directory under backup_root.
Saved == [disk EXCEPT !.backups = @ \cup {disk.db}]

\* switch_release: a new symlink replaces the old one.
Switched(r) == [disk EXCEPT !.link = r]

-----------------------------------------------------------------------------
\* The service stores what its clients send.
ServiceWrites ==
  /\ up # None
  /\ writes < MaxWrites
  /\ disk.db.schema # 0
  /\ writes' = writes + 1
  /\ disk' = [disk EXCEPT !.db.rows = @ \cup {writes + 1}]
  /\ UNCHANGED <<codex, up, lock, proc, ops, crashes, torn>>

\* A process dies; the kernel releases its lock.
Dies(p) ==
  /\ ~At(p, "idle")
  /\ crashes < MaxCrashes
  /\ crashes' = crashes + 1
  /\ Leave(p)
  /\ torn' = TRUE
  /\ UNCHANGED <<disk, codex, up, writes, ops>>
=============================================================================
