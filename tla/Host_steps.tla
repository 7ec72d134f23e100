-------------------------------- MODULE Host_steps --------------------------------
(***************************************************************************)
(* The steps of the operations, one lemma for each action of the host: the *)
(* vocabulary that the proofs of Host_proofs are written in. An operation  *)
(* (an update, a rollback, an enable, ...) is a walk along a leg of        *)
(* labels; its locals, the disk, the companion, the service and the lock   *)
(* change as the lemma of each step says.                                  *)
(***************************************************************************)
EXTENDS HostOps, TLAPS

(***************************************************************************)
(* The locals of an operation.                                             *)
(***************************************************************************)

\* The operations that work for a release, the one they were begun for.
Aimed ==
  {"update", "deploy", "rollback", "enable", "repair", "import", "reset", "optimize",
   "migrate", "setup", "menu", "activate"}

\* Which operation is where, and where a repair of the companion returns to.
Path(l) ==
  /\ l.op \in Aimed => l.target \in Releases
  /\ l.at \in UpdateLabels => l.op \in {"update", "deploy"}
  /\ l.at \in RollbackLabels => l.op = "rollback"
  /\ l.at \in ReconcileLabels =>
       \/ l.op \in {"update", "deploy"} /\ l.ret = "receipt"
       \/ l.op = "rollback" /\ l.ret = "rollback.receipt"
       \/ l.op \in {"enable", "repair"} /\ l.ret = "return"
  /\ l.at \in EnableLabels => l.op = "enable" /\ l.ret = "return"
  /\ l.at = "disable" => l.op = "disable"
  /\ l.at \in DatabaseLabels => l.op \in {"import", "reset", "optimize", "migrate"}
  /\ l.at = "mutate" => l.op \in {"start", "stop", "restart"}
  /\ l.at \in MenuSteps => l.op \in {"setup", "menu"}
  /\ l.at \in ActivateLabels => l.op = "activate"
  /\ l.at \in ConfigureLabels => l.op = "configure"
  /\ l.at \in UninstallLabels => l.op = "uninstall"

Placed == proc \in [Procs -> Local] /\ \A p \in Procs : Path(proc[p])

Framed(p) == \A q \in Procs \ {p} : proc'[q] = proc[q]

Fields ==
  {"op", "ret", "target", "link", "inst", "new", "copy", "staged", "copied", "stopped",
   "published", "active", "domain", "files", "codex", "was", "before"}

\* The locals that a step of p keeps.
Keeps(p, changed) == \A f \in Fields \ changed : proc'[p][f] = proc[p][f]

\* What an operation keeps from its beginning to its end.
Steady(p) ==
  LET l == proc[p] m == proc'[p] IN
  /\ m.op = l.op /\ m.target = l.target /\ m.inst = l.inst /\ m.new = l.new
  /\ m.domain = l.domain /\ m.was = l.was /\ m.before = l.before

\* A step of p, in its locals: it ends the operation or keeps what an operation keeps.
Moves(p) ==
  /\ proc' \in [Procs -> Local] /\ Framed(p)
  /\ Path(proc'[p])
  /\ proc'[p] = Resting \/ Steady(p)

\* The steps of an operation stay on its leg, or lead to its end.
Onward(from, to) ==
  \/ from \in UpdateLabels /\ to \in UpdateLabels \cup {"return"}
  \/ from \in RollbackLabels /\ to \in RollbackLabels \cup {"return"}
  \/ from \in ReconcileLabels /\ to \in ReconcileLabels \cup {"return"}
  \/ from \in EnableLabels /\ to \in EnableLabels \cup {"return"}
  \/ from = "disable" /\ to = "return"
  \/ from = "mutate" /\ to = "return"
  \/ from \in DatabaseLabels /\ to \in DatabaseLabels \cup {"return"}
  \/ from \in MenuSteps /\ to \in MenuSteps \cup {"return"}
  \/ from \in ActivateLabels /\ to \in ActivateLabels \cup {"return"}
  \/ from \in ConfigureLabels /\ to \in ConfigureLabels \cup {"return"}
  \/ from \in UninstallLabels /\ to \in UninstallLabels \cup {"return"}

Legs ==
  {UpdateLabels, RollbackLabels, ReconcileLabels, EnableLabels, {"disable"}, DatabaseLabels,
   {"mutate"}, MenuSteps, ActivateLabels, ConfigureLabels, UninstallLabels}

\* No label is on two legs.
LEMMA LegsApart ==
  /\ \A leg, other \in Legs : leg # other => leg \cap other = {}
  /\ \A leg \in Legs : "return" \notin leg /\ "idle" \notin leg
BY DEF Legs, UpdateLabels, RollbackLabels, ReconcileLabels, EnableLabels, DatabaseLabels,
       MenuSteps, ActivateLabels, ConfigureLabels, UninstallLabels

\* An operation that goes onward is on its path.
LEMMA OnPath ==
  ASSUME NEW l, NEW m, Path(l), Onward(l.at, m.at),
         m.op = l.op, m.ret = l.ret, m.target = l.target
  PROVE  Path(m) /\ m.at \in Labels
<1>1. PICK leg \in Legs : l.at \in leg /\ m.at \in leg \cup {"return"} BY DEF Legs, Onward
<1>2. m.at \in Labels BY <1>1 DEF Legs, Labels
<1>3. CASE m.at = "return"
  BY <1>2, <1>3, LegsApart DEF Path, Legs
<1>4. CASE m.at \in leg
  <2>1. \A other \in Legs : m.at \in other <=> l.at \in other BY <1>1, <1>4, LegsApart
  <2>2. (m.at = "disable" <=> l.at = "disable") /\ (m.at = "mutate" <=> l.at = "mutate")
    BY <2>1 DEF Legs
  <2>3. QED BY <1>2, <2>1, <2>2 DEF Path, Legs
<1>5. QED BY <1>1, <1>3, <1>4

\* A step that sets the locals of one operation, and one that only moves it.
LEMMA SetLocal ==
  ASSUME proc \in [Procs -> Local], NEW p \in Procs, NEW l \in Local,
         proc' = [proc EXCEPT ![p] = l]
  PROVE  proc' \in [Procs -> Local] /\ Framed(p) /\ proc'[p] = l
BY DEF Framed

LEMMA GotoLocal ==
  ASSUME proc \in [Procs -> Local], NEW p \in Procs, NEW to \in Labels, Goto(p, to)
  PROVE  /\ proc' \in [Procs -> Local] /\ Framed(p)
         /\ proc'[p].at = to /\ Keeps(p, {}) /\ Steady(p)
<1>1. [proc[p] EXCEPT !.at = to] \in Local BY DEF Local
<1>2. proc' = [proc EXCEPT ![p] = [proc[p] EXCEPT !.at = to]] BY DEF Goto
<1>3. /\ proc' \in [Procs -> Local] /\ Framed(p)
      /\ proc'[p] = [proc[p] EXCEPT !.at = to]
  BY <1>1, <1>2, SetLocal
<1>4. proc[p] \in Local OBVIOUS
<1>5. QED BY <1>3, <1>4 DEF Keeps, Fields, Steady, Local

\* A step onward keeps the operation on its path.
LEMMA GotoOnward ==
  ASSUME Placed, NEW p \in Procs, NEW to, Goto(p, to), Onward(proc[p].at, to)
  PROVE  Moves(p) /\ proc'[p].at = to /\ Keeps(p, {})
<1>1. proc \in [Procs -> Local] /\ Path(proc[p]) BY DEF Placed
<1>2. to \in Labels
  <2>1. PICK leg \in Legs : to \in leg \cup {"return"} BY DEF Legs, Onward
  <2>2. QED BY <2>1 DEF Legs, Labels
<1>3. /\ proc' \in [Procs -> Local] /\ Framed(p)
      /\ proc'[p].at = to /\ Keeps(p, {}) /\ Steady(p)
  BY <1>1, <1>2, GotoLocal
<1>4. /\ proc'[p].op = proc[p].op /\ proc'[p].ret = proc[p].ret
      /\ proc'[p].target = proc[p].target
  BY <1>3 DEF Keeps, Fields
<1>5. Path(proc'[p]) BY <1>1, <1>3, <1>4, OnPath
<1>6. QED BY <1>3, <1>5 DEF Moves

\* The companion's part of an operation, and the way back from it.
LEMMA GotoReturns ==
  ASSUME Placed, NEW p \in Procs, proc[p].at \in ReconcileLabels, Goto(p, proc[p].ret)
  PROVE  Moves(p) /\ proc'[p].at = proc[p].ret /\ Keeps(p, {})
<1>1. proc \in [Procs -> Local] /\ Path(proc[p]) /\ proc[p].ret \in Labels
  BY DEF Placed, Local, Labels, UpdateLabels, RollbackLabels
<1>2. /\ proc' \in [Procs -> Local] /\ Framed(p)
      /\ proc'[p].at = proc[p].ret /\ Keeps(p, {}) /\ Steady(p)
  BY <1>1, GotoLocal
<1>3. /\ proc'[p].op = proc[p].op /\ proc'[p].ret = proc[p].ret
      /\ proc'[p].target = proc[p].target
  BY <1>2 DEF Keeps, Fields
<1>4. Path(proc'[p])
  <2>1. \/ proc[p].ret = "receipt" /\ proc[p].op \in {"update", "deploy"}
        \/ proc[p].ret = "rollback.receipt" /\ proc[p].op = "rollback"
        \/ proc[p].ret = "return"
    BY <1>1 DEF Path
  <2>2. "receipt" \in UpdateLabels /\ "rollback.receipt" \in RollbackLabels
    BY DEF UpdateLabels, RollbackLabels
  <2>3. CASE proc[p].ret = "return" BY <1>1, <1>2, <1>3, <2>3, LegsApart DEF Path, Legs
  <2>4. CASE proc[p].ret = "receipt" /\ proc[p].op \in {"update", "deploy"}
    <3>1. \A leg \in Legs \ {UpdateLabels} : "receipt" \notin leg BY <2>2, LegsApart DEF Legs
    <3>2. QED
      BY <1>1, <1>2, <1>3, <2>4, <3>1
      DEF Path, UpdateLabels, RollbackLabels, ReconcileLabels, EnableLabels, DatabaseLabels,
          MenuSteps, ActivateLabels, ConfigureLabels, UninstallLabels
  <2>5. CASE proc[p].ret = "rollback.receipt" /\ proc[p].op = "rollback"
      BY <1>1, <1>2, <1>3, <2>5
      DEF Path, UpdateLabels, RollbackLabels, ReconcileLabels, EnableLabels, DatabaseLabels,
          MenuSteps, ActivateLabels, ConfigureLabels, UninstallLabels
  <2>6. QED BY <2>1, <2>3, <2>4, <2>5
<1>5. QED BY <1>2, <1>4 DEF Moves

LEMMA GotoEnable ==
  ASSUME Placed, NEW p \in Procs, proc[p].at \in ReconcileLabels, proc[p].op = "enable",
         NEW to \in EnableLabels, Goto(p, to)
  PROVE  Moves(p) /\ proc'[p].at = to /\ Keeps(p, {})
<1>1. proc \in [Procs -> Local] /\ Path(proc[p]) /\ to \in Labels
  BY DEF Placed, Labels
<1>2. /\ proc' \in [Procs -> Local] /\ Framed(p)
      /\ proc'[p].at = to /\ Keeps(p, {}) /\ Steady(p)
  BY <1>1, GotoLocal
<1>3. /\ proc'[p].op = proc[p].op /\ proc'[p].ret = proc[p].ret
      /\ proc'[p].target = proc[p].target
  BY <1>2 DEF Keeps, Fields
<1>4. Path(proc'[p])
  <2>1. \A leg \in Legs \ {EnableLabels} : to \notin leg
    BY DEF Legs, UpdateLabels, RollbackLabels, ReconcileLabels, EnableLabels, DatabaseLabels,
       MenuSteps, ActivateLabels, ConfigureLabels, UninstallLabels
  <2>2. to # "disable" /\ to # "mutate" BY DEF EnableLabels
  <2>3. /\ proc[p].op = "enable" /\ proc[p].ret = "return"
        /\ proc[p].op \in Aimed => proc[p].target \in Releases BY <1>1 DEF Path
  <2>4. EnableLabels \notin (Legs \ {EnableLabels}) OBVIOUS
  <2>5. \A leg \in {UpdateLabels, RollbackLabels, ReconcileLabels, DatabaseLabels, MenuSteps,
                  ActivateLabels, ConfigureLabels, UninstallLabels} : leg # EnableLabels
    <3>1. /\ "fail.off" \in EnableLabels
          /\ \A leg \in {UpdateLabels, RollbackLabels, ReconcileLabels, DatabaseLabels, MenuSteps,
                        ActivateLabels, ConfigureLabels, UninstallLabels} : "fail.off" \notin leg
      BY DEF UpdateLabels, RollbackLabels, ReconcileLabels, EnableLabels, DatabaseLabels,
       MenuSteps, ActivateLabels, ConfigureLabels, UninstallLabels
    <3>2. QED BY <3>1
  <2>6. QED BY <1>2, <1>3, <2>1, <2>2, <2>3, <2>5 DEF Path, Legs
<1>5. QED BY <1>2, <1>4 DEF Moves

\* An operation that ends, or never began, is on no leg.
LEMMA RestingIsPlaced == Resting \in Local /\ Resting.at = "idle" /\ Path(Resting)
<1>1. NoDatabase \in Database BY HostAssumption DEF NoDatabase, Database
<1>2. NoInstallation \in Installation BY DEF NoInstallation, Installation
<1>3. NoCompanion \in Companion BY DEF NoCompanion, Companion
<1>4. NoFiles \in [env : Nat, caddy : Nat, unit : {"none", "managed"}] BY DEF NoFiles
<1>5. "idle" \in Labels /\ "none" \in Operations BY DEF Labels, Operations
<1>6. Resting \in Local BY <1>1, <1>2, <1>3, <1>4, <1>5 DEF Resting, Local
<1>7. Resting.at = "idle" /\ Resting.op = "none" BY DEF Resting
<1>8. QED BY <1>6, <1>7, LegsApart DEF Path, Aimed, Legs

LEMMA LeaveRests ==
  ASSUME Placed, NEW p \in Procs, Leave(p)
  PROVE  Moves(p) /\ proc'[p] = Resting /\ proc'[p].at = "idle"
BY RestingIsPlaced DEF Placed, Leave, Moves, Framed

(***************************************************************************)
(* What each step does to the disk, and that it leaves one of the states   *)
(* the disk may be in.                                                     *)
(***************************************************************************)

LEMMA TargetIsRelease ==
  ASSUME Placed, NEW p \in Procs,
         \/ proc[p].at \in UpdateLabels \cup RollbackLabels \cup ReconcileLabels \cup EnableLabels
         \/ proc[p].at \in DatabaseLabels \cup MenuSteps \cup ActivateLabels
  PROVE  proc[p].target \in Releases
BY DEF Placed, Path, Aimed

\* The types of the locals.
LEMMA LocalTypes ==
  ASSUME Placed, NEW p \in Procs
  PROVE  /\ proc[p].at \in Labels /\ proc[p].op \in Operations
         /\ proc[p].ret \in {"return", "receipt", "rollback.receipt"}
         /\ proc[p].target \in Releases \cup {None} /\ proc[p].link \in Releases \cup {None}
         /\ proc[p].inst \in Installation /\ proc[p].new \in Installation
         /\ proc[p].copy \in Database /\ proc[p].staged \in Database
         /\ proc[p].domain \in Nat
         /\ proc[p].files.env \in Nat /\ proc[p].files.caddy \in Nat
         /\ proc[p].files.unit \in {"none", "managed"}
         /\ proc[p].codex \in Companion
BY DEF Placed, Local

\* What the storage makes of a database (app/storage.py): its rows stay.
LEMMA RaisedType ==
  ASSUME NEW db \in Database, NEW r \in Releases
  PROVE  /\ Raised(db, r) \in Database /\ Raised(db, r).rows = db.rows
         /\ Raised(db, r).schema # 0
         /\ Migrated(db, r) \in Database /\ Migrated(db, r).rows = db.rows
         /\ Migrated(db, r).schema # 0
         /\ Initialized(db, r) \in Database /\ Initialized(db, r).rows = db.rows
         /\ Initialized(db, r).schema # 0
<1>1. Schema[r] \in Nat \ {0} BY HostAssumption
<1>2. /\ db.schema \in Nat /\ db.rows \subseteq 0..MaxWrites
      /\ db = [schema |-> db.schema, rows |-> db.rows]
  BY DEF Database
<1>3. PICK n \in Nat : n = IF db.schema < Schema[r] THEN Schema[r] ELSE db.schema BY <1>1, <1>2
<1>4. n # 0 BY <1>1, <1>2, <1>3
<1>5. [db EXCEPT !.schema = n] = [schema |-> n, rows |-> db.rows] BY <1>2
<1>6. [schema |-> n, rows |-> db.rows] \in Database BY <1>2, <1>3, <1>4 DEF Database
<1>7. /\ Raised(db, r) = [schema |-> n, rows |-> db.rows]
      /\ Migrated(db, r) = [schema |-> n, rows |-> db.rows]
      /\ Initialized(db, r) = [schema |-> n, rows |-> db.rows]
  BY <1>3, <1>5 DEF Raised, Migrated, Initialized
<1>8. QED BY <1>4, <1>6, <1>7

DiskFields ==
  {"link", "dirs", "db", "backups", "inst", "receipt", "staged", "pending", "wanted", "env",
   "fragment", "caddy", "unit"}

DiskKeeps(changed) == \A f \in DiskFields \ changed : disk'[f] = disk[f]

\* The empty values are values.
LEMMA NoThings ==
  /\ NoDatabase \in Database /\ NoInstallation \in Installation /\ NoReceipt \in Receipt
  /\ \A op \in {"update", "deploy", "rollback", "setup"},
        state \in {"complete", "failed", "failed_rolled_back"} :
       /\ [NoReceipt EXCEPT !.op = op, !.state = state] \in Receipt
       /\ [NoReceipt EXCEPT !.op = op, !.state = state].op = op
       /\ [NoReceipt EXCEPT !.op = op, !.state = state].state = state
<1>1. NoDatabase \in Database BY HostAssumption DEF NoDatabase, Database
<1>2. NoReceipt \in Receipt BY <1>1 DEF NoReceipt, Receipt
<1>3. QED BY <1>1, <1>2 DEF NoInstallation, Installation, Receipt

LEMMA UnpackDisk ==
  ASSUME TypeOK, Placed, NEW p \in Procs, Unpack(p)
  PROVE  /\ disk' \in Disk
         /\ DiskKeeps({"dirs"})
         /\ \A r \in Releases \ {proc[p].target} : disk'.dirs[r] = disk.dirs[r]
         /\ disk'.dirs[proc[p].target] # "absent"
<1>1. disk \in Disk BY DEF TypeOK
<1>2. proc[p].target \in Releases BY TargetIsRelease DEF Unpack, Writes, At, UpdateLabels
<1>3. QED BY <1>1, <1>2, LocalTypes DEF Unpack, DiskKeeps, DiskFields, TypeOK, Disk

LEMMA EnvironmentDisk ==
  ASSUME TypeOK, Placed, NEW p \in Procs, Environment(p)
  PROVE  /\ disk' \in Disk
         /\ DiskKeeps({"dirs"})
         /\ disk'.dirs = [disk.dirs EXCEPT ![proc[p].target] = "ready"]
<1>1. disk \in Disk BY DEF TypeOK
<1>2. proc[p].target \in Releases BY TargetIsRelease DEF Environment, Writes, At, UpdateLabels
<1>3. QED BY <1>1, <1>2, LocalTypes DEF Environment, Writes, DiskKeeps, DiskFields, TypeOK, Disk

LEMMA EnvironmentFailsDisk ==
  ASSUME TypeOK, Placed, NEW p \in Procs, EnvironmentFails(p)
  PROVE  /\ disk' \in Disk
         /\ DiskKeeps({"dirs"})
         /\ \A r \in Releases \ {proc[p].target} : disk'.dirs[r] = disk.dirs[r]
         /\ disk.dirs[proc[p].target] = "bare"
         /\ disk'.dirs[proc[p].target] = "absent" => proc[p].copied
<1>1. disk \in Disk BY DEF TypeOK
<1>2. proc[p].target \in Releases
  BY TargetIsRelease DEF EnvironmentFails, Writes, At, UpdateLabels
<1>3. QED BY <1>1, <1>2, LocalTypes DEF EnvironmentFails, DiskKeeps, DiskFields, TypeOK, Disk

LEMMA SaveDatabaseDisk ==
  ASSUME TypeOK, Placed, NEW p \in Procs, SaveDatabase(p)
  PROVE  /\ disk' \in Disk
         /\ DiskKeeps({"backups"})
         /\ disk'.backups = disk.backups \cup {disk.db}
<1>1. disk \in Disk BY DEF TypeOK
<1>3. QED BY <1>1, LocalTypes DEF SaveDatabase, Saved, DiskKeeps, DiskFields, TypeOK, Disk

LEMMA MigrateDatabaseDisk ==
  ASSUME TypeOK, Placed, NEW p \in Procs, MigrateDatabase(p)
  PROVE  /\ disk' \in Disk
         /\ DiskKeeps({"db"})
         /\ disk'.db = Migrated(disk.db, proc[p].target)
<1>1. disk \in Disk BY DEF TypeOK
<1>2. proc[p].target \in Releases BY TargetIsRelease DEF MigrateDatabase, Writes, At, UpdateLabels
<1>3. QED
  BY <1>1, <1>2, LocalTypes, RaisedType
     DEF MigrateDatabase, Writes, DiskKeeps, DiskFields, TypeOK, Disk

LEMMA MigrationFailsDisk ==
  ASSUME TypeOK, Placed, NEW p \in Procs, MigrationFails(p)
  PROVE  /\ disk' \in Disk
         /\ DiskKeeps({"db"})
         /\ disk'.db = Migrated(disk.db, proc[p].target)
<1>1. disk \in Disk BY DEF TypeOK
<1>2. proc[p].target \in Releases BY TargetIsRelease DEF MigrationFails, Writes, At, UpdateLabels
<1>3. QED
  BY <1>1, <1>2, LocalTypes, RaisedType
     DEF MigrationFails, Writes, DiskKeeps, DiskFields, TypeOK, Disk

LEMMA SwitchReleaseDisk ==
  ASSUME TypeOK, Placed, NEW p \in Procs, SwitchRelease(p)
  PROVE  /\ disk' \in Disk
         /\ DiskKeeps({"link"})
         /\ disk'.link = proc[p].target
<1>1. disk \in Disk BY DEF TypeOK
<1>2. proc[p].target \in Releases BY TargetIsRelease DEF SwitchRelease, Writes, At, UpdateLabels
<1>3. QED
  BY <1>1, <1>2, LocalTypes
     DEF SwitchRelease, Writes, Switched, DiskKeeps, DiskFields, TypeOK, Disk

LEMMA PublishInstallationDisk ==
  ASSUME TypeOK, Placed, NEW p \in Procs, PublishInstallation(p)
  PROVE  /\ disk' \in Disk
         /\ DiskKeeps({"inst"})
         /\ disk'.inst = proc[p].new
<1>1. disk \in Disk BY DEF TypeOK
<1>3. QED BY <1>1, LocalTypes DEF PublishInstallation, DiskKeeps, DiskFields, TypeOK, Disk

LEMMA WriteReceiptDisk ==
  ASSUME TypeOK, Placed, NEW p \in Procs, WriteReceipt(p)
  PROVE  /\ disk' \in Disk
         /\ DiskKeeps({"receipt"})
         /\ disk'.receipt = Completed(p)
<1>1. disk \in Disk BY DEF TypeOK
<1>2. proc[p].op \in {"update", "deploy"}
  BY DEF Placed, Path, WriteReceipt, Writes, At, UpdateLabels
<1>3. Completed(p) \in Receipt BY <1>2, LocalTypes DEF Completed, Receipt, Installation
<1>4. QED BY <1>1, <1>3 DEF WriteReceipt, Writes, DiskKeeps, DiskFields, Disk

LEMMA UndoSwitchDisk ==
  ASSUME TypeOK, Placed, NEW p \in Procs, UndoSwitch(p)
  PROVE  /\ disk' \in Disk
         /\ DiskKeeps({"link"})
         /\ disk'.link = proc[p].link
<1>1. disk \in Disk BY DEF TypeOK
<1>3. QED
  BY <1>1, LocalTypes DEF UndoSwitch, Writes, Switched, DiskKeeps, DiskFields, TypeOK, Disk

LEMMA UndoUnlinkDisk ==
  ASSUME TypeOK, Placed, NEW p \in Procs, UndoUnlink(p)
  PROVE  /\ disk' \in Disk
         /\ DiskKeeps({"db"})
         /\ disk'.db = NoDatabase
<1>1. disk \in Disk BY DEF TypeOK
<1>3. QED
  BY <1>1, LocalTypes, NoThings DEF UndoUnlink, Writes, DiskKeeps, DiskFields, TypeOK, Disk

LEMMA UndoCopyDisk ==
  ASSUME TypeOK, Placed, NEW p \in Procs, UndoCopy(p)
  PROVE  /\ disk' \in Disk
         /\ DiskKeeps({"db"})
         /\ disk'.db = proc[p].copy
<1>1. disk \in Disk BY DEF TypeOK
<1>3. QED BY <1>1, LocalTypes DEF UndoCopy, Writes, DiskKeeps, DiskFields, TypeOK, Disk

LEMMA UndoPublishDisk ==
  ASSUME TypeOK, Placed, NEW p \in Procs, UndoPublish(p)
  PROVE  /\ disk' \in Disk
         /\ DiskKeeps({"inst"})
         /\ disk'.inst = IF proc[p].published THEN proc[p].inst ELSE disk.inst
<1>1. disk \in Disk BY DEF TypeOK
<1>3. QED BY <1>1, LocalTypes DEF UndoPublish, Writes, DiskKeeps, DiskFields, TypeOK, Disk

LEMMA UndoReceiptDisk ==
  ASSUME TypeOK, Placed, NEW p \in Procs, UndoReceipt(p)
  PROVE  /\ disk' \in Disk
         /\ DiskKeeps({"receipt"})
         /\ disk'.receipt.state \in {"failed", "failed_rolled_back"}
<1>1. disk \in Disk BY DEF TypeOK
<1>2. proc[p].op \in {"update", "deploy"}
  BY DEF Placed, Path, UndoReceipt, Writes, At, UpdateLabels
<1>3. PICK state \in {"failed", "failed_rolled_back"} :
        disk' = [disk EXCEPT !.receipt = [NoReceipt EXCEPT !.op = proc[p].op, !.state = state]]
  BY DEF UndoReceipt, Writes
<1>4. PICK receipt \in Receipt : /\ receipt = [NoReceipt EXCEPT !.op = proc[p].op,
                                               !.state = state]
                                 /\ receipt.state = state
  BY <1>2, NoThings
<1>5. QED BY <1>1, <1>3, <1>4 DEF DiskKeeps, DiskFields, Disk

LEMMA RollbackSaveDisk ==
  ASSUME TypeOK, Placed, NEW p \in Procs, RollbackSave(p)
  PROVE  /\ disk' \in Disk
         /\ DiskKeeps({"backups"})
         /\ disk'.backups = disk.backups \cup {disk.db}
<1>1. disk \in Disk BY DEF TypeOK
<1>3. QED BY <1>1, LocalTypes DEF RollbackSave, Saved, DiskKeeps, DiskFields, TypeOK, Disk

LEMMA RollbackSwitchDisk ==
  ASSUME TypeOK, Placed, NEW p \in Procs, RollbackSwitch(p)
  PROVE  /\ disk' \in Disk
         /\ DiskKeeps({"link"})
         /\ disk'.link = proc[p].target
<1>1. disk \in Disk BY DEF TypeOK
<1>2. proc[p].target \in Releases
  BY TargetIsRelease DEF RollbackSwitch, Writes, At, RollbackLabels
<1>3. QED
  BY <1>1, <1>2, LocalTypes
     DEF RollbackSwitch, Writes, Switched, DiskKeeps, DiskFields, TypeOK, Disk

LEMMA RollbackUnlinkDisk ==
  ASSUME TypeOK, Placed, NEW p \in Procs, RollbackUnlink(p)
  PROVE  /\ disk' \in Disk
         /\ DiskKeeps({"db"})
         /\ disk'.db = NoDatabase
<1>1. disk \in Disk BY DEF TypeOK
<1>3. QED
  BY <1>1, LocalTypes, NoThings DEF RollbackUnlink, Writes, DiskKeeps, DiskFields, TypeOK, Disk

LEMMA RollbackCopyDisk ==
  ASSUME TypeOK, Placed, NEW p \in Procs, RollbackCopy(p)
  PROVE  /\ disk' \in Disk
         /\ DiskKeeps({"db"})
         /\ disk'.db = proc[p].staged
<1>1. disk \in Disk BY DEF TypeOK
<1>3. QED BY <1>1, LocalTypes DEF RollbackCopy, Writes, DiskKeeps, DiskFields, TypeOK, Disk

LEMMA RollbackPublishDisk ==
  ASSUME TypeOK, Placed, NEW p \in Procs, RollbackPublish(p)
  PROVE  /\ disk' \in Disk
         /\ DiskKeeps({"inst"})
         /\ disk'.inst = proc[p].new
<1>1. disk \in Disk BY DEF TypeOK
<1>3. QED BY <1>1, LocalTypes DEF RollbackPublish, DiskKeeps, DiskFields, TypeOK, Disk

LEMMA RollbackReceiptDisk ==
  ASSUME TypeOK, Placed, NEW p \in Procs, RollbackReceipt(p)
  PROVE  /\ disk' \in Disk
         /\ DiskKeeps({"receipt"})
         /\ disk'.receipt.op = "rollback"
<1>1. disk \in Disk BY DEF TypeOK
<1>3. QED
  BY <1>1, LocalTypes, NoThings DEF RollbackReceipt, Writes, DiskKeeps, DiskFields, TypeOK, Disk

LEMMA ReturnSwitchDisk ==
  ASSUME TypeOK, Placed, NEW p \in Procs, ReturnSwitch(p)
  PROVE  /\ disk' \in Disk
         /\ DiskKeeps({"link"})
         /\ disk'.link = proc[p].link
<1>1. disk \in Disk BY DEF TypeOK
<1>3. QED
  BY <1>1, LocalTypes DEF ReturnSwitch, Writes, Switched, DiskKeeps, DiskFields, TypeOK, Disk

LEMMA ReturnUnlinkDisk ==
  ASSUME TypeOK, Placed, NEW p \in Procs, ReturnUnlink(p)
  PROVE  /\ disk' \in Disk
         /\ DiskKeeps({"db"})
         /\ disk'.db = NoDatabase
<1>1. disk \in Disk BY DEF TypeOK
<1>3. QED
  BY <1>1, LocalTypes, NoThings DEF ReturnUnlink, Writes, DiskKeeps, DiskFields, TypeOK, Disk

LEMMA ReturnCopyDisk ==
  ASSUME TypeOK, Placed, NEW p \in Procs, ReturnCopy(p)
  PROVE  /\ disk' \in Disk
         /\ DiskKeeps({"db"})
         /\ disk'.db = proc[p].copy
<1>1. disk \in Disk BY DEF TypeOK
<1>3. QED BY <1>1, LocalTypes DEF ReturnCopy, Writes, DiskKeeps, DiskFields, TypeOK, Disk

LEMMA ReturnPublishDisk ==
  ASSUME TypeOK, Placed, NEW p \in Procs, ReturnPublish(p)
  PROVE  /\ disk' \in Disk
         /\ DiskKeeps({"inst"})
         /\ disk'.inst = proc[p].inst
<1>1. disk \in Disk BY DEF TypeOK
<1>3. QED BY <1>1, LocalTypes DEF ReturnPublish, Writes, DiskKeeps, DiskFields, TypeOK, Disk

LEMMA ReplaceSaveDisk ==
  ASSUME TypeOK, Placed, NEW p \in Procs, ReplaceSave(p)
  PROVE  /\ disk' \in Disk
         /\ DiskKeeps({"backups"})
         /\ disk'.backups = IF disk.db.schema # 0 THEN disk.backups \cup {disk.db}
                ELSE disk.backups
<1>1. disk \in Disk BY DEF TypeOK
<1>3. QED BY <1>1, LocalTypes DEF ReplaceSave, Saved, DiskKeeps, DiskFields, TypeOK, Disk

LEMMA ReplaceCutDisk ==
  ASSUME TypeOK, Placed, NEW p \in Procs, ReplaceCut(p)
  PROVE  /\ disk' \in Disk
         /\ DiskKeeps({"db"})
         /\ disk'.db = proc[p].staged
<1>1. disk \in Disk BY DEF TypeOK
<1>3. QED BY <1>1, LocalTypes DEF ReplaceCut, Writes, DiskKeeps, DiskFields, TypeOK, Disk

LEMMA RestoreCopyDisk ==
  ASSUME TypeOK, Placed, NEW p \in Procs, RestoreCopy(p)
  PROVE  /\ disk' \in Disk
         /\ DiskKeeps({"db"})
         /\ disk'.db = IF proc[p].copied THEN proc[p].copy ELSE NoDatabase
<1>1. disk \in Disk BY DEF TypeOK
<1>3. QED
  BY <1>1, LocalTypes, NoThings DEF RestoreCopy, Writes, DiskKeeps, DiskFields, TypeOK, Disk

LEMMA OptimizeSaveDisk ==
  ASSUME TypeOK, Placed, NEW p \in Procs, OptimizeSave(p)
  PROVE  /\ disk' \in Disk
         /\ DiskKeeps({"backups"})
         /\ disk'.backups = disk.backups \cup {disk.db}
<1>1. disk \in Disk BY DEF TypeOK
<1>3. QED BY <1>1, LocalTypes DEF OptimizeSave, Saved, DiskKeeps, DiskFields, TypeOK, Disk

LEMMA MigrateSaveDisk ==
  ASSUME TypeOK, Placed, NEW p \in Procs, MigrateSave(p)
  PROVE  /\ disk' \in Disk
         /\ DiskKeeps({"backups"})
         /\ disk'.backups = disk.backups \cup {disk.db}
<1>1. disk \in Disk BY DEF TypeOK
<1>3. QED BY <1>1, LocalTypes DEF MigrateSave, Saved, DiskKeeps, DiskFields, TypeOK, Disk

LEMMA MigrateRunDisk ==
  ASSUME TypeOK, Placed, NEW p \in Procs, MigrateRun(p)
  PROVE  /\ disk' \in Disk
         /\ DiskKeeps({"db"})
         /\ disk'.db = Raised(disk.db, proc[p].target)
<1>1. disk \in Disk BY DEF TypeOK
<1>2. proc[p].target \in Releases BY TargetIsRelease DEF MigrateRun, Writes, At, DatabaseLabels
<1>3. QED
  BY <1>1, <1>2, LocalTypes, RaisedType
     DEF MigrateRun, Writes, DiskKeeps, DiskFields, TypeOK, Disk

LEMMA MigrateFailsDisk ==
  ASSUME TypeOK, Placed, NEW p \in Procs, MigrateFails(p)
  PROVE  /\ disk' \in Disk
         /\ DiskKeeps({"db"})
         /\ disk'.db = Raised(disk.db, proc[p].target)
<1>1. disk \in Disk BY DEF TypeOK
<1>2. proc[p].target \in Releases BY TargetIsRelease DEF MigrateFails, Writes, At, DatabaseLabels
<1>3. QED
  BY <1>1, <1>2, LocalTypes, RaisedType
     DEF MigrateFails, Writes, DiskKeeps, DiskFields, TypeOK, Disk

LEMMA StageReleaseDisk ==
  ASSUME TypeOK, Placed, NEW p \in Procs, StageRelease(p)
  PROVE  /\ disk' \in Disk
         /\ DiskKeeps({"dirs", "staged"})
<1>1. disk \in Disk BY DEF TypeOK
<1>2. proc[p].target \in Releases BY TargetIsRelease DEF StageRelease, Writes, At, MenuSteps
<1>3. QED
  BY <1>1, <1>2, LocalTypes DEF StageRelease, Writes, Staged, DiskKeeps, DiskFields, TypeOK,
     Disk

LEMMA StageDatabaseDisk ==
  ASSUME TypeOK, Placed, NEW p \in Procs, StageDatabase(p)
  PROVE  /\ disk' \in Disk
         /\ DiskKeeps({"db"})
         /\ disk.db.rows \subseteq disk'.db.rows
<1>1. disk \in Disk BY DEF TypeOK
<1>2. proc[p].target \in Releases BY TargetIsRelease DEF StageDatabase, Writes, At, MenuSteps
<1>3. PICK rows \in IF disk.db.schema = 0 THEN {{}, {Foreign}} ELSE {disk.db.rows} :
        disk' = [disk EXCEPT !.db = [Initialized(@, proc[p].target) EXCEPT !.rows = rows]]
  BY DEF StageDatabase, Writes
<1>4. disk.db \in Database BY <1>1 DEF Disk
<1>5. disk.db.rows \subseteq rows /\ rows \subseteq 0..MaxWrites
  BY <1>4, HostAssumption DEF Database, Foreign
<1>6. PICK db \in Database : db = Initialized(disk.db, proc[p].target) BY <1>2, <1>4, RaisedType
<1>7. db.schema # 0 BY <1>2, <1>4, <1>6, RaisedType
<1>8. [db EXCEPT !.rows = rows] \in Database /\ [db EXCEPT !.rows = rows].rows = rows
  BY <1>5, <1>7 DEF Database
<1>9. QED BY <1>1, <1>3, <1>5, <1>6, <1>8 DEF DiskKeeps, DiskFields, Disk

LEMMA StageDomainDisk ==
  ASSUME TypeOK, Placed, NEW p \in Procs, StageDomain(p)
  PROVE  /\ disk' \in Disk
         /\ DiskKeeps({"wanted", "pending"})
<1>1. disk \in Disk BY DEF TypeOK
<1>3. QED BY <1>1, LocalTypes DEF StageDomain, Writes, DiskKeeps, DiskFields, TypeOK, Disk

LEMMA StageServiceDisk ==
  ASSUME TypeOK, Placed, NEW p \in Procs, StageService(p)
  PROVE  /\ disk' \in Disk
         /\ DiskKeeps({"pending", "fragment", "inst"})
<1>1. disk \in Disk BY DEF TypeOK
<1>2. proc[p].target \in Releases BY TargetIsRelease DEF StageService, Writes, At, MenuSteps
<1>3. PICK inst \in Installation :
        disk' = [disk EXCEPT !.pending = "service", !.fragment = disk.wanted, !.inst = inst]
  BY <1>1, <1>2, HostAssumption DEF StageService, Writes, Installation, Disk
<1>4. QED BY <1>1, <1>3 DEF DiskKeeps, DiskFields, Disk

LEMMA ActivateStageDisk ==
  ASSUME TypeOK, Placed, NEW p \in Procs, ActivateStage(p)
  PROVE  /\ disk' \in Disk
         /\ DiskKeeps({"dirs", "staged"})
<1>1. disk \in Disk BY DEF TypeOK
<1>2. proc[p].target \in Releases BY TargetIsRelease DEF ActivateStage, Writes, At, ActivateLabels
<1>3. QED
  BY <1>1, <1>2, LocalTypes DEF ActivateStage, Writes, Staged, DiskKeeps, DiskFields, TypeOK,
     Disk

LEMMA ActivateBackupDisk ==
  ASSUME TypeOK, Placed, NEW p \in Procs, ActivateBackup(p)
  PROVE  /\ disk' \in Disk
         /\ DiskKeeps({"backups"})
         /\ disk'.backups = IF disk.db.schema # 0 THEN disk.backups \cup {disk.db}
                ELSE disk.backups
<1>1. disk \in Disk BY DEF TypeOK
<1>3. QED
  BY <1>1, LocalTypes, NoThings DEF ActivateBackup, Saved, DiskKeeps, DiskFields, TypeOK, Disk

LEMMA ActivateSyncDisk ==
  ASSUME TypeOK, Placed, NEW p \in Procs, ActivateSync(p)
  PROVE  /\ disk' \in Disk
         /\ DiskKeeps({"dirs", "caddy"})
         /\ disk'.dirs = [disk.dirs EXCEPT ![proc[p].target] = "ready"]
<1>1. disk \in Disk BY DEF TypeOK
<1>2. proc[p].target \in Releases BY TargetIsRelease DEF ActivateSync, Writes, At, ActivateLabels
<1>3. PICK caddy \in {disk.caddy, disk.fragment} :
        disk' = [disk EXCEPT !.dirs[proc[p].target] = "ready", !.caddy = caddy]
  BY DEF ActivateSync, Writes
<1>4. QED BY <1>1, <1>2, <1>3 DEF DiskKeeps, DiskFields, Disk

LEMMA ActivateRefreshDisk ==
  ASSUME TypeOK, Placed, NEW p \in Procs, ActivateRefresh(p)
  PROVE  /\ disk' \in Disk
         /\ DiskKeeps({"backups"})
         /\ disk'.backups = disk.backups \cup {disk.db}
<1>1. disk \in Disk BY DEF TypeOK
<1>3. QED BY <1>1, LocalTypes DEF ActivateRefresh, Saved, DiskKeeps, DiskFields, TypeOK, Disk

LEMMA ActivateLegacyDisk ==
  ASSUME TypeOK, Placed, NEW p \in Procs, ActivateLegacy(p)
  PROVE  /\ disk' \in Disk
         /\ DiskKeeps({"db"})
         /\ disk'.db = disk.db \/ disk.db.rows \subseteq {Foreign}
<1>1. disk \in Disk BY DEF TypeOK
<1>2. CASE Looks(p, "activate.legacy", "activate.switch")
  BY <1>1, <1>2 DEF Looks, DiskKeeps, DiskFields
<1>3. CASE ~Looks(p, "activate.legacy", "activate.switch")
  <2>1. /\ disk.db.rows \subseteq {Foreign} /\ proc[p].at = "activate.legacy"
        /\ disk' = [disk EXCEPT !.db = Initialized([schema |-> 0, rows |-> {Foreign}],
                                                   proc[p].target)]
    BY <1>3 DEF ActivateLegacy, Writes, At
  <2>2. proc[p].target \in Releases BY <2>1, TargetIsRelease DEF ActivateLabels
  <2>3. Initialized([schema |-> 0, rows |-> {Foreign}], proc[p].target) \in Database
    <3>1. Schema[proc[p].target] \in Nat \ {0} BY <2>2, HostAssumption
    <3>2. 0 < Schema[proc[p].target] BY <3>1
    <3>3. Initialized([schema |-> 0, rows |-> {Foreign}], proc[p].target)
            = [schema |-> Schema[proc[p].target], rows |-> {Foreign}]
      BY <3>2 DEF Initialized
    <3>4. QED BY <3>1, <3>3, HostAssumption DEF Database, Foreign
  <2>4. QED BY <1>1, <2>1, <2>3 DEF DiskKeeps, DiskFields, Disk
<1>4. QED BY <1>2, <1>3

LEMMA ActivateSwitchDisk ==
  ASSUME TypeOK, Placed, NEW p \in Procs, ActivateSwitch(p)
  PROVE  /\ disk' \in Disk
         /\ DiskKeeps({"link"})
         /\ disk'.link = proc[p].target
<1>1. disk \in Disk BY DEF TypeOK
<1>2. proc[p].target \in Releases
  BY TargetIsRelease DEF ActivateSwitch, Writes, At, ActivateLabels
<1>3. QED
  BY <1>1, <1>2, LocalTypes
     DEF ActivateSwitch, Writes, Switched, DiskKeeps, DiskFields, TypeOK, Disk

LEMMA ActivateFilesDisk ==
  ASSUME TypeOK, Placed, NEW p \in Procs, ActivateFiles(p)
  PROVE  /\ disk' \in Disk
         /\ DiskKeeps({"env", "unit"})
         /\ disk'.env = disk.wanted
         /\ disk'.unit = "managed"
<1>1. disk \in Disk BY DEF TypeOK
<1>3. QED BY <1>1, LocalTypes DEF ActivateFiles, Writes, DiskKeeps, DiskFields, TypeOK, Disk

LEMMA ActivatePublishDisk ==
  ASSUME TypeOK, Placed, NEW p \in Procs, ActivatePublish(p)
  PROVE  /\ disk' \in Disk
         /\ DiskKeeps({"inst"})
         /\ disk'.inst.version = Version[proc[p].target]
<1>1. disk \in Disk BY DEF TypeOK
<1>2. proc[p].target \in Releases
  BY TargetIsRelease DEF ActivatePublish, Writes, At, ActivateLabels
<1>3. proc[p].inst \in Installation /\ proc[p].domain \in Nat BY LocalTypes
<1>4. /\ [proc[p].inst EXCEPT !.mode = "managed", !.version = Version[proc[p].target],
                              !.domain = proc[p].domain] \in Installation
      /\ [proc[p].inst EXCEPT !.mode = "managed", !.version = Version[proc[p].target],
                              !.domain = proc[p].domain].version = Version[proc[p].target]
  BY <1>2, <1>3, HostAssumption DEF Installation
<1>5. QED BY <1>1, <1>4 DEF ActivatePublish, Writes, DiskKeeps, DiskFields, Disk

LEMMA ActivateReceiptDisk ==
  ASSUME TypeOK, Placed, NEW p \in Procs, ActivateReceipt(p)
  PROVE  /\ disk' \in Disk
         /\ DiskKeeps({"receipt"})
<1>1. disk \in Disk BY DEF TypeOK
<1>3. QED
  BY <1>1, LocalTypes, NoThings DEF ActivateReceipt, Writes, DiskKeeps, DiskFields, TypeOK, Disk

LEMMA DeactivateLinkDisk ==
  ASSUME TypeOK, Placed, NEW p \in Procs, DeactivateLink(p)
  PROVE  /\ disk' \in Disk
         /\ DiskKeeps({"link"})
         /\ disk'.link = proc[p].link
<1>1. disk \in Disk BY DEF TypeOK
<1>3. QED
  BY <1>1, LocalTypes DEF DeactivateLink, Writes, Switched, DiskKeeps, DiskFields, TypeOK, Disk

LEMMA DeactivateFilesDisk ==
  ASSUME TypeOK, Placed, NEW p \in Procs, DeactivateFiles(p)
  PROVE  /\ disk' \in Disk
         /\ DiskKeeps({"db", "env", "caddy", "unit"})
         /\ disk'.db = proc[p].copy
         /\ disk'.env = proc[p].files.env
         /\ disk'.caddy = proc[p].files.caddy
         /\ disk'.unit = proc[p].files.unit
<1>1. disk \in Disk BY DEF TypeOK
<1>3. QED BY <1>1, LocalTypes DEF DeactivateFiles, Writes, DiskKeeps, DiskFields, TypeOK, Disk

LEMMA DeactivateReceiptDisk ==
  ASSUME TypeOK, Placed, NEW p \in Procs, DeactivateReceipt(p)
  PROVE  /\ disk' \in Disk
         /\ DiskKeeps({"receipt"})
<1>1. disk \in Disk BY DEF TypeOK
<1>3. QED
  BY <1>1, LocalTypes, NoThings
     DEF DeactivateReceipt, Writes, Failed, DiskKeeps, DiskFields, TypeOK, Disk

LEMMA DeactivateRaisesDisk ==
  ASSUME TypeOK, Placed, NEW p \in Procs, DeactivateRaises(p)
  PROVE  /\ disk' \in Disk
         /\ DiskKeeps({"receipt"})
<1>1. disk \in Disk BY DEF TypeOK
<1>3. QED
  BY <1>1, LocalTypes, NoThings DEF DeactivateRaises, Failed, DiskKeeps, DiskFields, TypeOK,
     Disk

LEMMA ConfigureEnvDisk ==
  ASSUME TypeOK, Placed, NEW p \in Procs, ConfigureEnv(p)
  PROVE  /\ disk' \in Disk
         /\ DiskKeeps({"env"})
         /\ disk'.env = proc[p].domain
<1>1. disk \in Disk BY DEF TypeOK
<1>3. QED BY <1>1, LocalTypes DEF ConfigureEnv, Writes, DiskKeeps, DiskFields, TypeOK, Disk

LEMMA ConfigureCaddyDisk ==
  ASSUME TypeOK, Placed, NEW p \in Procs, ConfigureCaddy(p)
  PROVE  /\ disk' \in Disk
         /\ DiskKeeps({"caddy"})
         /\ disk'.caddy = proc[p].domain
<1>1. disk \in Disk BY DEF TypeOK
<1>3. QED BY <1>1, LocalTypes DEF ConfigureCaddy, Writes, DiskKeeps, DiskFields, TypeOK, Disk

LEMMA ConfigurePublishDisk ==
  ASSUME TypeOK, Placed, NEW p \in Procs, ConfigurePublish(p)
  PROVE  /\ disk' \in Disk
         /\ DiskKeeps({"inst"})
         /\ disk'.inst.domain = proc[p].domain
<1>1. disk \in Disk /\ disk.inst \in Installation BY DEF TypeOK, Disk
<1>2. proc[p].domain \in Nat BY LocalTypes
<1>3. /\ [disk.inst EXCEPT !.domain = proc[p].domain] \in Installation
      /\ [disk.inst EXCEPT !.domain = proc[p].domain].domain = proc[p].domain
  BY <1>1, <1>2 DEF Installation
<1>4. disk' = [disk EXCEPT !.inst = [disk.inst EXCEPT !.domain = proc[p].domain]]
  BY <1>1 DEF ConfigurePublish, Writes, Disk
<1>5. QED BY <1>1, <1>3, <1>4 DEF DiskKeeps, DiskFields, Disk

LEMMA ConfigureUndoDisk ==
  ASSUME TypeOK, Placed, NEW p \in Procs, ConfigureUndo(p)
  PROVE  /\ disk' \in Disk
         /\ DiskKeeps({"env", "caddy"})
         /\ disk'.env = proc[p].files.env
         /\ disk'.caddy = proc[p].files.caddy
<1>1. disk \in Disk BY DEF TypeOK
<1>3. QED BY <1>1, LocalTypes DEF ConfigureUndo, Writes, DiskKeeps, DiskFields, TypeOK, Disk

LEMMA UninstallExportDisk ==
  ASSUME TypeOK, Placed, NEW p \in Procs, UninstallExport(p)
  PROVE  /\ disk' \in Disk
         /\ DiskKeeps({"backups"})
         /\ disk'.backups = IF proc[p].copied /\ disk.db.schema # 0
                             THEN disk.backups \cup {disk.db} ELSE disk.backups
<1>1. disk \in Disk BY DEF TypeOK
<1>3. QED
  BY <1>1, LocalTypes DEF UninstallExport, Writes, Saved, DiskKeeps, DiskFields, TypeOK, Disk

LEMMA UninstallRemoveDisk ==
  ASSUME TypeOK, Placed, NEW p \in Procs, UninstallRemove(p)
  PROVE  /\ disk' \in Disk
         /\ DiskKeeps({"unit", "env", "caddy", "link", "dirs"})
<1>1. disk \in Disk BY DEF TypeOK
<1>3. QED BY <1>1, LocalTypes, NoThings DEF UninstallRemove, DiskKeeps, DiskFields, TypeOK, Disk

LEMMA UninstallPurgeDisk ==
  ASSUME TypeOK, Placed, NEW p \in Procs, UninstallPurge(p)
  PROVE  /\ disk' \in Disk
         /\ DiskKeeps({"db", "inst", "receipt", "staged", "pending", "wanted", "fragment"})
         /\ disk'.db = IF proc[p].staged.schema # 0 THEN NoDatabase ELSE disk.db
<1>1. disk \in Disk BY DEF TypeOK
<1>3. QED
  BY <1>1, LocalTypes, NoThings DEF UninstallPurge, Writes, DiskKeeps, DiskFields, TypeOK, Disk

\* A step of p from one of some labels to the next one, and one that ends the operation.

(***************************************************************************)
(* What each step does: where it is taken and where it leads, what it      *)
(* keeps, and what it makes of the disk, the companion, the service, the   *)
(* lock and the bounds. One lemma for each action; the proofs about        *)
(* operations use these and not the actions.                               *)
(***************************************************************************)

Goes(p, from, to) ==
  proc[p].at \in from /\ proc'[p].at = to /\ Keeps(p, {}) /\ lock' = lock

\* A step that ends the operation and gives up the lock.
Ends(p) == proc'[p] = Resting /\ lock' = IF lock = p THEN None ELSE lock

\* The parts of the companion that a step keeps.
CodexFields == {"runtime", "link", "unit", "running", "desired", "state", "digest"}

CodexKeeps(changed) == \A f \in CodexFields \ changed : codex'[f] = codex[f]

\* The steps of an update or a deploy (ActivateStep).
LEMMA UnpackDoes ==
  ASSUME TypeOK, Placed, NEW p \in Procs, Unpack(p)
  PROVE  /\ Moves(p) /\ proc[p].at = "unpack" /\ Keeps(p, {"copied"})
         /\ proc'[p].at = "environment"
         /\ proc'[p].copied = (disk.dirs[proc[p].target] = "absent")
         /\ UNCHANGED <<codex, up, lock, counts, torn>> /\ disk' \in Disk
         /\ DiskKeeps({"dirs"})
         /\ \A r \in Releases \ {proc[p].target} : disk'.dirs[r] = disk.dirs[r]
         /\ disk'.dirs[proc[p].target] # "absent"
<1>1. PICK flag \in BOOLEAN : flag = (disk.dirs[proc[p].target] = "absent") OBVIOUS
<1>2. proc \in [Procs -> Local] /\ proc[p] \in Local /\ Path(proc[p]) BY DEF Placed
<1> DEFINE l == [proc[p] EXCEPT !.at = "environment", !.copied = flag]
<1>3. l \in Local
  <2>1. "environment" \in Labels BY DEF Labels, UpdateLabels
  <2>2. QED BY <1>2, <2>1 DEF Local
<1>4. proc' = [proc EXCEPT ![p] = l] BY <1>1, <1>2 DEF Unpack
<1>5. proc' \in [Procs -> Local] /\ Framed(p) /\ proc'[p] = l BY <1>2, <1>3, <1>4, SetLocal
<1>6. /\ proc[p].at = "unpack" /\ Keeps(p, {"copied"}) /\ Steady(p)
      /\ proc'[p].at = "environment"
      /\ proc'[p].copied = (disk.dirs[proc[p].target] = "absent")
  BY <1>1, <1>2, <1>5 DEF Keeps, Fields, Steady, Local, Unpack, At
<1>7. Path(proc'[p])
  <2>1. Onward(proc[p].at, proc'[p].at) BY <1>6 DEF Onward, UpdateLabels
  <2>2. QED BY <1>2, <1>6, <2>1, OnPath DEF Keeps, Fields
<1>8. Moves(p) BY <1>5, <1>6, <1>7 DEF Moves
<1>9. UNCHANGED <<codex, up, lock, counts, torn>> BY DEF Unpack, At
<1>10. QED BY <1>6, <1>8, <1>9, UnpackDisk

LEMMA EnvironmentDoes ==
  ASSUME TypeOK, Placed, NEW p \in Procs, Environment(p)
  PROVE  /\ Moves(p) /\ Goes(p, {"environment"}, "preflight")
         /\ UNCHANGED <<codex, up, counts, torn>> /\ disk' \in Disk /\ DiskKeeps({"dirs"})
         /\ disk'.dirs = [disk.dirs EXCEPT ![proc[p].target] = "ready"]
<1>1. Moves(p) /\ Goes(p, {"environment"}, "preflight")
  BY GotoOnward DEF Environment, Writes, At, Goes, Onward, UpdateLabels
<1>2. UNCHANGED <<codex, up, counts, torn>> BY DEF Environment, Writes, At
<1>3. QED BY <1>1, <1>2, EnvironmentDisk

LEMMA EnvironmentFailsDoes ==
  ASSUME TypeOK, Placed, NEW p \in Procs, EnvironmentFails(p)
  PROVE  /\ Moves(p) /\ proc[p].at = "environment" /\ Ends(p)
         /\ UNCHANGED <<codex, up, counts, torn>> /\ disk' \in Disk /\ DiskKeeps({"dirs"})
         /\ \A r \in Releases \ {proc[p].target} : disk'.dirs[r] = disk.dirs[r]
         /\ disk.dirs[proc[p].target] = "bare"
         /\ disk'.dirs[proc[p].target] = "absent" => proc[p].copied
<1>1. Moves(p) /\ proc[p].at = "environment" /\ Ends(p)
  BY LeaveRests DEF EnvironmentFails, At, Ends, Leave
<1>2. UNCHANGED <<codex, up, counts, torn>> BY DEF EnvironmentFails, At
<1>3. QED BY <1>1, <1>2, EnvironmentFailsDisk

LEMMA PreflightDoes ==
  ASSUME TypeOK, Placed, NEW p \in Procs, Preflight(p)
  PROVE  /\ Moves(p) /\ proc[p].at = "preflight" /\ Keeps(p, {"copied"})
         /\ proc'[p].at = "stop" /\ proc'[p].copied = FALSE
         /\ UNCHANGED <<disk, codex, up, lock, counts, torn>>
<1>1. proc \in [Procs -> Local] /\ proc[p] \in Local /\ Path(proc[p]) BY DEF Placed
<1> DEFINE l == [proc[p] EXCEPT !.at = "stop", !.copied = FALSE]
<1>2. l \in Local
  <2>1. "stop" \in Labels BY DEF Labels, UpdateLabels
  <2>2. QED BY <1>1, <2>1 DEF Local
<1>3. proc' = [proc EXCEPT ![p] = l] BY <1>1 DEF Preflight
<1>4. proc' \in [Procs -> Local] /\ Framed(p) /\ proc'[p] = l BY <1>1, <1>2, <1>3, SetLocal
<1>5. /\ proc[p].at = "preflight" /\ Keeps(p, {"copied"}) /\ Steady(p)
      /\ proc'[p].at = "stop" /\ proc'[p].copied = FALSE
  BY <1>1, <1>4 DEF Keeps, Fields, Steady, Local, Preflight, At
<1>6. Path(proc'[p])
  <2>1. Onward(proc[p].at, proc'[p].at) BY <1>5 DEF Onward, UpdateLabels
  <2>2. QED BY <1>1, <1>5, <2>1, OnPath DEF Keeps, Fields
<1>7. Moves(p) BY <1>4, <1>5, <1>6 DEF Moves
<1>8. UNCHANGED <<disk, codex, up, lock, counts, torn>> BY DEF Preflight, At
<1>9. QED BY <1>5, <1>7, <1>8

LEMMA StopServiceDoes ==
  ASSUME TypeOK, Placed, NEW p \in Procs, StopService(p)
  PROVE  /\ Moves(p) /\ proc[p].at = "stop" /\ Keeps(p, {"stopped"})
         /\ proc'[p].at = "save" /\ proc'[p].stopped = TRUE /\ up' = None
         /\ UNCHANGED <<disk, codex, lock, counts, torn>>
<1>1. proc \in [Procs -> Local] /\ proc[p] \in Local /\ Path(proc[p]) BY DEF Placed
<1> DEFINE l == [proc[p] EXCEPT !.at = "save", !.stopped = TRUE]
<1>2. l \in Local
  <2>1. "save" \in Labels BY DEF Labels, UpdateLabels
  <2>2. QED BY <1>1, <2>1 DEF Local
<1>3. proc' = [proc EXCEPT ![p] = l] BY <1>1 DEF StopService
<1>4. proc' \in [Procs -> Local] /\ Framed(p) /\ proc'[p] = l BY <1>1, <1>2, <1>3, SetLocal
<1>5. /\ proc[p].at = "stop" /\ Keeps(p, {"stopped"}) /\ Steady(p) /\ proc'[p].at = "save"
      /\ proc'[p].stopped = TRUE
  BY <1>1, <1>4 DEF Keeps, Fields, Steady, Local, StopService, At
<1>6. Path(proc'[p])
  <2>1. Onward(proc[p].at, proc'[p].at) BY <1>5 DEF Onward, UpdateLabels
  <2>2. QED BY <1>1, <1>5, <2>1, OnPath DEF Keeps, Fields
<1>7. Moves(p) BY <1>4, <1>5, <1>6 DEF Moves
<1>8. up' = None /\ UNCHANGED <<disk, codex, lock, counts, torn>>
  BY DEF StopService, At, Stopping
<1>9. QED BY <1>5, <1>7, <1>8

LEMMA SaveDatabaseDoes ==
  ASSUME TypeOK, Placed, NEW p \in Procs, SaveDatabase(p)
  PROVE  /\ Moves(p) /\ proc[p].at = "save" /\ Keeps(p, {"copy", "copied"})
         /\ proc'[p].at = "migrate" /\ proc'[p].copy = disk.db /\ proc'[p].copied = TRUE
         /\ UNCHANGED <<codex, up, lock, counts, torn>> /\ disk' \in Disk
         /\ DiskKeeps({"backups"}) /\ disk'.backups = disk.backups \cup {disk.db}
<1>1. proc \in [Procs -> Local] /\ proc[p] \in Local /\ Path(proc[p]) BY DEF Placed
<1> DEFINE l == [proc[p] EXCEPT !.at = "migrate", !.copy = disk.db, !.copied = TRUE]
<1>2. l \in Local BY <1>1 DEF TypeOK, Local, Disk, Labels, UpdateLabels
<1>3. proc' = [proc EXCEPT ![p] = l] BY <1>1 DEF SaveDatabase
<1>4. proc' \in [Procs -> Local] /\ Framed(p) /\ proc'[p] = l BY <1>1, <1>2, <1>3, SetLocal
<1>5. /\ proc[p].at = "save" /\ Keeps(p, {"copy", "copied"}) /\ Steady(p)
      /\ proc'[p].at = "migrate" /\ proc'[p].copy = disk.db /\ proc'[p].copied = TRUE
  BY <1>1, <1>4 DEF Keeps, Fields, Steady, Local, SaveDatabase, At
<1>6. Path(proc'[p])
  <2>1. Onward(proc[p].at, proc'[p].at) BY <1>5 DEF Onward, UpdateLabels
  <2>2. QED BY <1>1, <1>5, <2>1, OnPath DEF Keeps, Fields
<1>7. Moves(p) BY <1>4, <1>5, <1>6 DEF Moves
<1>8. UNCHANGED <<codex, up, lock, counts, torn>> BY DEF SaveDatabase, At
<1>9. QED BY <1>5, <1>7, <1>8, SaveDatabaseDisk

LEMMA MigrateDatabaseDoes ==
  ASSUME TypeOK, Placed, NEW p \in Procs, MigrateDatabase(p)
  PROVE  /\ Moves(p) /\ Goes(p, {"migrate"}, "switch")
         /\ UNCHANGED <<codex, up, counts, torn>> /\ disk' \in Disk /\ DiskKeeps({"db"})
         /\ disk'.db = Migrated(disk.db, proc[p].target)
<1>1. Moves(p) /\ Goes(p, {"migrate"}, "switch")
  BY GotoOnward DEF MigrateDatabase, Writes, At, Goes, Onward, UpdateLabels
<1>2. UNCHANGED <<codex, up, counts, torn>> BY DEF MigrateDatabase, Writes, At
<1>3. QED BY <1>1, <1>2, MigrateDatabaseDisk

LEMMA MigrationFailsDoes ==
  ASSUME TypeOK, Placed, NEW p \in Procs, MigrationFails(p)
  PROVE  /\ Moves(p) /\ Goes(p, {"migrate"}, "undo.stop")
         /\ UNCHANGED <<codex, up, counts, torn>> /\ disk' \in Disk /\ DiskKeeps({"db"})
         /\ disk'.db = Migrated(disk.db, proc[p].target)
<1>1. Moves(p) /\ Goes(p, {"migrate"}, "undo.stop")
  BY GotoOnward DEF MigrationFails, Writes, At, Goes, Onward, UpdateLabels
<1>2. UNCHANGED <<codex, up, counts, torn>> BY DEF MigrationFails, Writes, At
<1>3. QED BY <1>1, <1>2, MigrationFailsDisk

LEMMA SwitchReleaseDoes ==
  ASSUME TypeOK, Placed, NEW p \in Procs, SwitchRelease(p)
  PROVE  /\ Moves(p) /\ Goes(p, {"switch"}, "start")
         /\ UNCHANGED <<codex, up, counts, torn>> /\ disk' \in Disk /\ DiskKeeps({"link"})
         /\ disk'.link = proc[p].target
<1>1. Moves(p) /\ Goes(p, {"switch"}, "start")
  BY GotoOnward DEF SwitchRelease, Writes, At, Goes, Onward, UpdateLabels
<1>2. UNCHANGED <<codex, up, counts, torn>> BY DEF SwitchRelease, Writes, At
<1>3. QED BY <1>1, <1>2, SwitchReleaseDisk

LEMMA StartServiceDoes ==
  ASSUME TypeOK, Placed, NEW p \in Procs, StartService(p)
  PROVE  /\ Moves(p) /\ Goes(p, {"start"}, "check") /\ up' \in Starting
         /\ UNCHANGED <<disk, codex, counts, torn>>
<1>1. Moves(p) /\ Goes(p, {"start"}, "check")
  BY GotoOnward DEF StartService, Runs, At, Goes, Onward, UpdateLabels
<1>2. up' \in Starting /\ UNCHANGED <<disk, codex, counts, torn>> BY DEF StartService, Runs, At
<1>3. QED BY <1>1, <1>2

LEMMA CheckServiceDoes ==
  ASSUME TypeOK, Placed, NEW p \in Procs, CheckService(p)
  PROVE  /\ Moves(p) /\ Goes(p, {"check"}, "publish") /\ up # None
         /\ UNCHANGED <<disk, codex, up, counts, torn>>
<1>1. Moves(p) /\ Goes(p, {"check"}, "publish")
  BY GotoOnward DEF CheckService, Looks, At, Goes, Onward, UpdateLabels
<1>2. up # None /\ UNCHANGED <<disk, codex, up, counts, torn>> BY DEF CheckService, Looks, At
<1>3. QED BY <1>1, <1>2

LEMMA PublishInstallationDoes ==
  ASSUME TypeOK, Placed, NEW p \in Procs, PublishInstallation(p)
  PROVE  /\ Moves(p) /\ proc[p].at = "publish" /\ Keeps(p, {"ret", "published"})
         /\ proc'[p].at = "codex.read" /\ proc'[p].ret = "receipt"
         /\ proc'[p].published = TRUE /\ UNCHANGED <<codex, up, lock, counts, torn>>
         /\ disk' \in Disk /\ DiskKeeps({"inst"}) /\ disk'.inst = proc[p].new
<1>1. proc \in [Procs -> Local] /\ proc[p] \in Local /\ Path(proc[p]) BY DEF Placed
<1> DEFINE l == [proc[p] EXCEPT !.at = "codex.read", !.ret = "receipt", !.published = TRUE]
<1>2. l \in Local
  <2>1. "codex.read" \in Labels BY DEF Labels, UpdateLabels, ReconcileLabels
  <2>2. QED BY <1>1, <2>1 DEF Local
<1>3. proc' = [proc EXCEPT ![p] = l] BY <1>1 DEF PublishInstallation
<1>4. proc' \in [Procs -> Local] /\ Framed(p) /\ proc'[p] = l BY <1>1, <1>2, <1>3, SetLocal
<1>5. /\ proc[p].at = "publish" /\ Keeps(p, {"ret", "published"}) /\ Steady(p)
      /\ proc'[p].at = "codex.read" /\ proc'[p].ret = "receipt"
      /\ proc'[p].published = TRUE
  BY <1>1, <1>4 DEF Keeps, Fields, Steady, Local, PublishInstallation, At
<1>6. Path(proc'[p])
  BY <1>1, <1>5, LegsApart DEF Path, Steady, UpdateLabels, RollbackLabels, ReconcileLabels,
     EnableLabels, DatabaseLabels, MenuSteps, ActivateLabels, ConfigureLabels,
     UninstallLabels
<1>7. Moves(p) BY <1>4, <1>5, <1>6 DEF Moves
<1>8. UNCHANGED <<codex, up, lock, counts, torn>> BY DEF PublishInstallation, At
<1>9. QED BY <1>5, <1>7, <1>8, PublishInstallationDisk

LEMMA WriteReceiptDoes ==
  ASSUME TypeOK, Placed, NEW p \in Procs, WriteReceipt(p)
  PROVE  /\ Moves(p) /\ Goes(p, {"receipt"}, "return")
         /\ UNCHANGED <<codex, up, counts, torn>> /\ disk' \in Disk
         /\ DiskKeeps({"receipt"}) /\ disk'.receipt = Completed(p)
<1>1. Moves(p) /\ Goes(p, {"receipt"}, "return")
  BY GotoOnward DEF WriteReceipt, Writes, At, Goes, Onward, UpdateLabels
<1>2. UNCHANGED <<codex, up, counts, torn>> BY DEF WriteReceipt, Writes, At
<1>3. QED BY <1>1, <1>2, WriteReceiptDisk

LEMMA ReturnDoes ==
  ASSUME TypeOK, Placed, NEW p \in Procs, Return(p)
  PROVE  /\ Moves(p) /\ proc[p].at \in {"return"} /\ Ends(p)
         /\ UNCHANGED <<disk, codex, up, counts, torn>>
<1>1. Moves(p) /\ proc[p].at \in {"return"} /\ Ends(p)
  BY LeaveRests DEF Return, Returns, At, Ends, Leave
<1>2. UNCHANGED <<disk, codex, up, counts, torn>> BY DEF Return, Returns, At
<1>3. QED BY <1>1, <1>2

LEMMA BodyRaisesDoes ==
  ASSUME TypeOK, Placed, NEW p \in Procs, BodyRaises(p)
  PROVE  /\ Moves(p)
         /\ \/ Goes(p, Guarded, "undo.stop")
            \/ Goes(p, {"preflight", "stop"}, "undo.receipt")
         /\ UNCHANGED <<disk, codex, up, counts, torn>>
<1>1. /\ Moves(p)
      /\ \/ Goes(p, Guarded, "undo.stop")
         \/ Goes(p, {"preflight", "stop"}, "undo.receipt")
  BY GotoOnward DEF BodyRaises, Looks, At, Goes, Onward, UpdateLabels, Guarded
<1>2. UNCHANGED <<disk, codex, up, counts, torn>> BY DEF BodyRaises, Looks, At
<1>3. QED BY <1>1, <1>2

\* The way back of an update or a deploy (UndoStep).
LEMMA UndoStopDoes ==
  ASSUME TypeOK, Placed, NEW p \in Procs, UndoStop(p)
  PROVE  /\ Moves(p) /\ Goes(p, {"undo.stop"}, "undo.switch") /\ up' = None
         /\ UNCHANGED <<disk, codex, counts, torn>>
<1>1. Moves(p) /\ Goes(p, {"undo.stop"}, "undo.switch")
  BY GotoOnward DEF UndoStop, Runs, At, Goes, Onward, UpdateLabels
<1>2. up' = None /\ UNCHANGED <<disk, codex, counts, torn>> BY DEF UndoStop, Runs, At, Stopping
<1>3. QED BY <1>1, <1>2

LEMMA UndoSwitchDoes ==
  ASSUME TypeOK, Placed, NEW p \in Procs, UndoSwitch(p)
  PROVE  /\ Moves(p)
         /\ Goes(p, {"undo.switch"}, IF proc[p].copied THEN "undo.unlink" ELSE "undo.start")
         /\ UNCHANGED <<codex, up, counts, torn>> /\ disk' \in Disk /\ DiskKeeps({"link"})
         /\ disk'.link = proc[p].link
<1>1. /\ Moves(p)
      /\ Goes(p, {"undo.switch"}, IF proc[p].copied THEN "undo.unlink" ELSE "undo.start")
  BY GotoOnward DEF UndoSwitch, Writes, At, Goes, Onward, UpdateLabels
<1>2. UNCHANGED <<codex, up, counts, torn>> BY DEF UndoSwitch, Writes, At
<1>3. QED BY <1>1, <1>2, UndoSwitchDisk

LEMMA UndoUnlinkDoes ==
  ASSUME TypeOK, Placed, NEW p \in Procs, UndoUnlink(p)
  PROVE  /\ Moves(p) /\ Goes(p, {"undo.unlink"}, "undo.copy")
         /\ UNCHANGED <<codex, up, counts, torn>> /\ disk' \in Disk /\ DiskKeeps({"db"})
         /\ disk'.db = NoDatabase
<1>1. Moves(p) /\ Goes(p, {"undo.unlink"}, "undo.copy")
  BY GotoOnward DEF UndoUnlink, Writes, At, Goes, Onward, UpdateLabels
<1>2. UNCHANGED <<codex, up, counts, torn>> BY DEF UndoUnlink, Writes, At
<1>3. QED BY <1>1, <1>2, UndoUnlinkDisk

LEMMA UndoCopyDoes ==
  ASSUME TypeOK, Placed, NEW p \in Procs, UndoCopy(p)
  PROVE  /\ Moves(p) /\ Goes(p, {"undo.copy"}, "undo.start")
         /\ UNCHANGED <<codex, up, counts, torn>> /\ disk' \in Disk /\ DiskKeeps({"db"})
         /\ disk'.db = proc[p].copy
<1>1. Moves(p) /\ Goes(p, {"undo.copy"}, "undo.start")
  BY GotoOnward DEF UndoCopy, Writes, At, Goes, Onward, UpdateLabels
<1>2. UNCHANGED <<codex, up, counts, torn>> BY DEF UndoCopy, Writes, At
<1>3. QED BY <1>1, <1>2, UndoCopyDisk

LEMMA UndoStartDoes ==
  ASSUME TypeOK, Placed, NEW p \in Procs, UndoStart(p)
  PROVE  /\ Moves(p) /\ Goes(p, {"undo.start"}, "undo.publish") /\ up' \in Starting
         /\ UNCHANGED <<disk, codex, counts, torn>>
<1>1. Moves(p) /\ Goes(p, {"undo.start"}, "undo.publish")
  BY GotoOnward DEF UndoStart, Runs, At, Goes, Onward, UpdateLabels
<1>2. up' \in Starting /\ UNCHANGED <<disk, codex, counts, torn>> BY DEF UndoStart, Runs, At
<1>3. QED BY <1>1, <1>2

LEMMA UndoPublishDoes ==
  ASSUME TypeOK, Placed, NEW p \in Procs, UndoPublish(p)
  PROVE  /\ Moves(p) /\ Goes(p, {"undo.publish"}, "undo.receipt")
         /\ UNCHANGED <<codex, up, counts, torn>> /\ disk' \in Disk /\ DiskKeeps({"inst"})
         /\ disk'.inst = IF proc[p].published THEN proc[p].inst ELSE disk.inst
<1>1. Moves(p) /\ Goes(p, {"undo.publish"}, "undo.receipt")
  BY GotoOnward DEF UndoPublish, Writes, At, Goes, Onward, UpdateLabels
<1>2. UNCHANGED <<codex, up, counts, torn>> BY DEF UndoPublish, Writes, At
<1>3. QED BY <1>1, <1>2, UndoPublishDisk

LEMMA UndoReceiptDoes ==
  ASSUME TypeOK, Placed, NEW p \in Procs, UndoReceipt(p)
  PROVE  /\ Moves(p) /\ Goes(p, {"undo.receipt"}, "return")
         /\ UNCHANGED <<codex, up, counts, torn>> /\ disk' \in Disk
         /\ DiskKeeps({"receipt"})
         /\ disk'.receipt.state \in {"failed", "failed_rolled_back"}
<1>1. Moves(p) /\ Goes(p, {"undo.receipt"}, "return")
  BY GotoOnward DEF UndoReceipt, Writes, At, Goes, Onward, UpdateLabels
<1>2. UNCHANGED <<codex, up, counts, torn>> BY DEF UndoReceipt, Writes, At
<1>3. QED BY <1>1, <1>2, UndoReceiptDisk

LEMMA UndoRaisesDoes ==
  ASSUME TypeOK, Placed, NEW p \in Procs, UndoRaises(p)
  PROVE  /\ Moves(p)
         /\ proc[p].at \in {"undo.stop", "undo.switch", "undo.unlink", "undo.copy",
                            "undo.publish", "undo.receipt"} /\ Ends(p)
         /\ torn' = TRUE /\ UNCHANGED <<disk, codex, up, counts>>
<1>1. /\ Moves(p)
      /\ proc[p].at \in {"undo.stop", "undo.switch", "undo.unlink", "undo.copy", "undo.publish",
                         "undo.receipt"} /\ Ends(p)
  BY LeaveRests DEF UndoRaises, Escapes, At, Ends, Leave
<1>2. torn' = TRUE /\ UNCHANGED <<disk, codex, up, counts>> BY DEF UndoRaises, Escapes, At
<1>3. QED BY <1>1, <1>2

\* The steps of a rollback (RollbackStep).
LEMMA RollbackSaveDoes ==
  ASSUME TypeOK, Placed, NEW p \in Procs, RollbackSave(p)
  PROVE  /\ Moves(p) /\ proc[p].at = "rollback.save" /\ Keeps(p, {"copy"})
         /\ proc'[p].at = "rollback.stop" /\ proc'[p].copy = disk.db
         /\ UNCHANGED <<codex, up, lock, counts, torn>> /\ disk' \in Disk
         /\ DiskKeeps({"backups"}) /\ disk'.backups = disk.backups \cup {disk.db}
<1>1. proc \in [Procs -> Local] /\ proc[p] \in Local /\ Path(proc[p]) BY DEF Placed
<1> DEFINE l == [proc[p] EXCEPT !.at = "rollback.stop", !.copy = disk.db]
<1>2. l \in Local BY <1>1 DEF TypeOK, Local, Disk, Labels, RollbackLabels
<1>3. proc' = [proc EXCEPT ![p] = l] BY <1>1 DEF RollbackSave
<1>4. proc' \in [Procs -> Local] /\ Framed(p) /\ proc'[p] = l BY <1>1, <1>2, <1>3, SetLocal
<1>5. /\ proc[p].at = "rollback.save" /\ Keeps(p, {"copy"}) /\ Steady(p)
      /\ proc'[p].at = "rollback.stop" /\ proc'[p].copy = disk.db
  BY <1>1, <1>4 DEF Keeps, Fields, Steady, Local, RollbackSave, At
<1>6. Path(proc'[p])
  <2>1. Onward(proc[p].at, proc'[p].at) BY <1>5 DEF Onward, RollbackLabels
  <2>2. QED BY <1>1, <1>5, <2>1, OnPath DEF Keeps, Fields
<1>7. Moves(p) BY <1>4, <1>5, <1>6 DEF Moves
<1>8. UNCHANGED <<codex, up, lock, counts, torn>> BY DEF RollbackSave, At
<1>9. QED BY <1>5, <1>7, <1>8, RollbackSaveDisk

LEMMA RollbackStopDoes ==
  ASSUME TypeOK, Placed, NEW p \in Procs, RollbackStop(p)
  PROVE  /\ Moves(p) /\ Goes(p, {"rollback.stop"}, "rollback.switch") /\ up' = None
         /\ UNCHANGED <<disk, codex, counts, torn>>
<1>1. Moves(p) /\ Goes(p, {"rollback.stop"}, "rollback.switch")
  BY GotoOnward DEF RollbackStop, Runs, At, Goes, Onward, RollbackLabels
<1>2. up' = None /\ UNCHANGED <<disk, codex, counts, torn>>
  BY DEF RollbackStop, Runs, At, Stopping
<1>3. QED BY <1>1, <1>2

LEMMA RollbackRefusedDoes ==
  ASSUME TypeOK, Placed, NEW p \in Procs, RollbackRefused(p)
  PROVE  /\ Moves(p)
         /\ \/ proc[p].at \in {"rollback.save"} /\ Ends(p)
            \/ proc[p].at \in {"rollback.stop"} /\ Ends(p)
         /\ UNCHANGED <<disk, codex, up, counts, torn>>
<1>1. /\ Moves(p)
      /\ \/ proc[p].at \in {"rollback.save"} /\ Ends(p)
         \/ proc[p].at \in {"rollback.stop"} /\ Ends(p)
  BY LeaveRests DEF RollbackRefused, Returns, At, Ends, Leave
<1>2. UNCHANGED <<disk, codex, up, counts, torn>> BY DEF RollbackRefused, Returns, At
<1>3. QED BY <1>1, <1>2

LEMMA RollbackSwitchDoes ==
  ASSUME TypeOK, Placed, NEW p \in Procs, RollbackSwitch(p)
  PROVE  /\ Moves(p) /\ Goes(p, {"rollback.switch"}, "rollback.unlink")
         /\ UNCHANGED <<codex, up, counts, torn>> /\ disk' \in Disk /\ DiskKeeps({"link"})
         /\ disk'.link = proc[p].target
<1>1. Moves(p) /\ Goes(p, {"rollback.switch"}, "rollback.unlink")
  BY GotoOnward DEF RollbackSwitch, Writes, At, Goes, Onward, RollbackLabels
<1>2. UNCHANGED <<codex, up, counts, torn>> BY DEF RollbackSwitch, Writes, At
<1>3. QED BY <1>1, <1>2, RollbackSwitchDisk

LEMMA RollbackUnlinkDoes ==
  ASSUME TypeOK, Placed, NEW p \in Procs, RollbackUnlink(p)
  PROVE  /\ Moves(p) /\ Goes(p, {"rollback.unlink"}, "rollback.copy")
         /\ UNCHANGED <<codex, up, counts, torn>> /\ disk' \in Disk /\ DiskKeeps({"db"})
         /\ disk'.db = NoDatabase
<1>1. Moves(p) /\ Goes(p, {"rollback.unlink"}, "rollback.copy")
  BY GotoOnward DEF RollbackUnlink, Writes, At, Goes, Onward, RollbackLabels
<1>2. UNCHANGED <<codex, up, counts, torn>> BY DEF RollbackUnlink, Writes, At
<1>3. QED BY <1>1, <1>2, RollbackUnlinkDisk

LEMMA RollbackCopyDoes ==
  ASSUME TypeOK, Placed, NEW p \in Procs, RollbackCopy(p)
  PROVE  /\ Moves(p) /\ Goes(p, {"rollback.copy"}, "rollback.start")
         /\ UNCHANGED <<codex, up, counts, torn>> /\ disk' \in Disk /\ DiskKeeps({"db"})
         /\ disk'.db = proc[p].staged
<1>1. Moves(p) /\ Goes(p, {"rollback.copy"}, "rollback.start")
  BY GotoOnward DEF RollbackCopy, Writes, At, Goes, Onward, RollbackLabels
<1>2. UNCHANGED <<codex, up, counts, torn>> BY DEF RollbackCopy, Writes, At
<1>3. QED BY <1>1, <1>2, RollbackCopyDisk

LEMMA RollbackStartDoes ==
  ASSUME TypeOK, Placed, NEW p \in Procs, RollbackStart(p)
  PROVE  /\ Moves(p) /\ Goes(p, {"rollback.start"}, "rollback.check") /\ up' \in Starting
         /\ UNCHANGED <<disk, codex, counts, torn>>
<1>1. Moves(p) /\ Goes(p, {"rollback.start"}, "rollback.check")
  BY GotoOnward DEF RollbackStart, Runs, At, Goes, Onward, RollbackLabels
<1>2. up' \in Starting /\ UNCHANGED <<disk, codex, counts, torn>> BY DEF RollbackStart, Runs, At
<1>3. QED BY <1>1, <1>2

LEMMA RollbackCheckDoes ==
  ASSUME TypeOK, Placed, NEW p \in Procs, RollbackCheck(p)
  PROVE  /\ Moves(p) /\ Goes(p, {"rollback.check"}, "rollback.publish") /\ up # None
         /\ UNCHANGED <<disk, codex, up, counts, torn>>
<1>1. Moves(p) /\ Goes(p, {"rollback.check"}, "rollback.publish")
  BY GotoOnward DEF RollbackCheck, Looks, At, Goes, Onward, RollbackLabels
<1>2. up # None /\ UNCHANGED <<disk, codex, up, counts, torn>> BY DEF RollbackCheck, Looks, At
<1>3. QED BY <1>1, <1>2

LEMMA RollbackPublishDoes ==
  ASSUME TypeOK, Placed, NEW p \in Procs, RollbackPublish(p)
  PROVE  /\ Moves(p) /\ proc[p].at = "rollback.publish" /\ Keeps(p, {"ret"})
         /\ proc'[p].at = "codex.read" /\ proc'[p].ret = "rollback.receipt"
         /\ UNCHANGED <<codex, up, lock, counts, torn>> /\ disk' \in Disk
         /\ DiskKeeps({"inst"}) /\ disk'.inst = proc[p].new
<1>1. proc \in [Procs -> Local] /\ proc[p] \in Local /\ Path(proc[p]) BY DEF Placed
<1> DEFINE l == [proc[p] EXCEPT !.at = "codex.read", !.ret = "rollback.receipt"]
<1>2. l \in Local
  <2>1. "codex.read" \in Labels BY DEF Labels, RollbackLabels, ReconcileLabels
  <2>2. QED BY <1>1, <2>1 DEF Local
<1>3. proc' = [proc EXCEPT ![p] = l] BY <1>1 DEF RollbackPublish
<1>4. proc' \in [Procs -> Local] /\ Framed(p) /\ proc'[p] = l BY <1>1, <1>2, <1>3, SetLocal
<1>5. /\ proc[p].at = "rollback.publish" /\ Keeps(p, {"ret"}) /\ Steady(p)
      /\ proc'[p].at = "codex.read" /\ proc'[p].ret = "rollback.receipt"
  BY <1>1, <1>4 DEF Keeps, Fields, Steady, Local, RollbackPublish, At
<1>6. Path(proc'[p])
  BY <1>1, <1>5, LegsApart DEF Path, Steady, UpdateLabels, RollbackLabels, ReconcileLabels,
     EnableLabels, DatabaseLabels, MenuSteps, ActivateLabels, ConfigureLabels,
     UninstallLabels
<1>7. Moves(p) BY <1>4, <1>5, <1>6 DEF Moves
<1>8. UNCHANGED <<codex, up, lock, counts, torn>> BY DEF RollbackPublish, At
<1>9. QED BY <1>5, <1>7, <1>8, RollbackPublishDisk

LEMMA RollbackReceiptDoes ==
  ASSUME TypeOK, Placed, NEW p \in Procs, RollbackReceipt(p)
  PROVE  /\ Moves(p) /\ Goes(p, {"rollback.receipt"}, "return")
         /\ UNCHANGED <<codex, up, counts, torn>> /\ disk' \in Disk
         /\ DiskKeeps({"receipt"}) /\ disk'.receipt.op = "rollback"
<1>1. Moves(p) /\ Goes(p, {"rollback.receipt"}, "return")
  BY GotoOnward DEF RollbackReceipt, Writes, At, Goes, Onward, RollbackLabels
<1>2. UNCHANGED <<codex, up, counts, torn>> BY DEF RollbackReceipt, Writes, At
<1>3. QED BY <1>1, <1>2, RollbackReceiptDisk

LEMMA RollbackRaisesDoes ==
  ASSUME TypeOK, Placed, NEW p \in Procs, RollbackRaises(p)
  PROVE  /\ Moves(p)
         /\ Goes(p, {"rollback.switch", "rollback.unlink", "rollback.copy", "rollback.start",
                     "rollback.check", "rollback.publish", "rollback.receipt"}, "return.stop")
         /\ UNCHANGED <<disk, codex, up, counts, torn>>
<1>1. /\ Moves(p)
      /\ Goes(p, {"rollback.switch", "rollback.unlink", "rollback.copy", "rollback.start",
                  "rollback.check", "rollback.publish", "rollback.receipt"}, "return.stop")
  BY GotoOnward DEF RollbackRaises, Looks, At, Goes, Onward, RollbackLabels
<1>2. UNCHANGED <<disk, codex, up, counts, torn>> BY DEF RollbackRaises, Looks, At
<1>3. QED BY <1>1, <1>2

\* The way back of a rollback (ReturnStep).
LEMMA ReturnStopDoes ==
  ASSUME TypeOK, Placed, NEW p \in Procs, ReturnStop(p)
  PROVE  /\ Moves(p) /\ Goes(p, {"return.stop"}, "return.switch") /\ up' = None
         /\ UNCHANGED <<disk, codex, counts, torn>>
<1>1. Moves(p) /\ Goes(p, {"return.stop"}, "return.switch")
  BY GotoOnward DEF ReturnStop, Runs, At, Goes, Onward, RollbackLabels
<1>2. up' = None /\ UNCHANGED <<disk, codex, counts, torn>> BY DEF ReturnStop, Runs, At, Stopping
<1>3. QED BY <1>1, <1>2

LEMMA ReturnSwitchDoes ==
  ASSUME TypeOK, Placed, NEW p \in Procs, ReturnSwitch(p)
  PROVE  /\ Moves(p) /\ Goes(p, {"return.switch"}, "return.unlink")
         /\ UNCHANGED <<codex, up, counts, torn>> /\ disk' \in Disk /\ DiskKeeps({"link"})
         /\ disk'.link = proc[p].link
<1>1. Moves(p) /\ Goes(p, {"return.switch"}, "return.unlink")
  BY GotoOnward DEF ReturnSwitch, Writes, At, Goes, Onward, RollbackLabels
<1>2. UNCHANGED <<codex, up, counts, torn>> BY DEF ReturnSwitch, Writes, At
<1>3. QED BY <1>1, <1>2, ReturnSwitchDisk

LEMMA ReturnUnlinkDoes ==
  ASSUME TypeOK, Placed, NEW p \in Procs, ReturnUnlink(p)
  PROVE  /\ Moves(p) /\ Goes(p, {"return.unlink"}, "return.copy")
         /\ UNCHANGED <<codex, up, counts, torn>> /\ disk' \in Disk /\ DiskKeeps({"db"})
         /\ disk'.db = NoDatabase
<1>1. Moves(p) /\ Goes(p, {"return.unlink"}, "return.copy")
  BY GotoOnward DEF ReturnUnlink, Writes, At, Goes, Onward, RollbackLabels
<1>2. UNCHANGED <<codex, up, counts, torn>> BY DEF ReturnUnlink, Writes, At
<1>3. QED BY <1>1, <1>2, ReturnUnlinkDisk

LEMMA ReturnCopyDoes ==
  ASSUME TypeOK, Placed, NEW p \in Procs, ReturnCopy(p)
  PROVE  /\ Moves(p) /\ Goes(p, {"return.copy"}, "return.start")
         /\ UNCHANGED <<codex, up, counts, torn>> /\ disk' \in Disk /\ DiskKeeps({"db"})
         /\ disk'.db = proc[p].copy
<1>1. Moves(p) /\ Goes(p, {"return.copy"}, "return.start")
  BY GotoOnward DEF ReturnCopy, Writes, At, Goes, Onward, RollbackLabels
<1>2. UNCHANGED <<codex, up, counts, torn>> BY DEF ReturnCopy, Writes, At
<1>3. QED BY <1>1, <1>2, ReturnCopyDisk

LEMMA ReturnStartDoes ==
  ASSUME TypeOK, Placed, NEW p \in Procs, ReturnStart(p)
  PROVE  /\ Moves(p) /\ Goes(p, {"return.start"}, "return.publish") /\ up' \in Starting
         /\ UNCHANGED <<disk, codex, counts, torn>>
<1>1. Moves(p) /\ Goes(p, {"return.start"}, "return.publish")
  BY GotoOnward DEF ReturnStart, Runs, At, Goes, Onward, RollbackLabels
<1>2. up' \in Starting /\ UNCHANGED <<disk, codex, counts, torn>> BY DEF ReturnStart, Runs, At
<1>3. QED BY <1>1, <1>2

LEMMA ReturnPublishDoes ==
  ASSUME TypeOK, Placed, NEW p \in Procs, ReturnPublish(p)
  PROVE  /\ Moves(p) /\ Goes(p, {"return.publish"}, "return")
         /\ UNCHANGED <<codex, up, counts, torn>> /\ disk' \in Disk /\ DiskKeeps({"inst"})
         /\ disk'.inst = proc[p].inst
<1>1. Moves(p) /\ Goes(p, {"return.publish"}, "return")
  BY GotoOnward DEF ReturnPublish, Writes, At, Goes, Onward, RollbackLabels
<1>2. UNCHANGED <<codex, up, counts, torn>> BY DEF ReturnPublish, Writes, At
<1>3. QED BY <1>1, <1>2, ReturnPublishDisk

LEMMA ReturnRaisesDoes ==
  ASSUME TypeOK, Placed, NEW p \in Procs, ReturnRaises(p)
  PROVE  /\ Moves(p)
         /\ proc[p].at \in {"return.stop", "return.switch", "return.unlink", "return.copy",
                            "return.publish"} /\ Ends(p)
         /\ torn' = TRUE /\ UNCHANGED <<disk, codex, up, counts>>
<1>1. /\ Moves(p)
      /\ proc[p].at \in {"return.stop", "return.switch", "return.unlink", "return.copy",
                         "return.publish"} /\ Ends(p)
  BY LeaveRests DEF ReturnRaises, Escapes, At, Ends, Leave
<1>2. torn' = TRUE /\ UNCHANGED <<disk, codex, up, counts>> BY DEF ReturnRaises, Escapes, At
<1>3. QED BY <1>1, <1>2

\* The steps of the companion (CodexStep).
LEMMA DisableDoes ==
  ASSUME TypeOK, Placed, NEW p \in Procs, Disable(p)
  PROVE  /\ Moves(p) /\ Goes(p, {"disable"}, "return")
         /\ UNCHANGED <<disk, up, counts, torn>> /\ codex' \in Companion
         /\ CodexKeeps({"running", "desired", "state"}) /\ codex'.desired = FALSE
<1>1. Moves(p) /\ Goes(p, {"disable"}, "return")
  BY GotoOnward, GotoReturns, GotoEnable DEF Disable, Changes, At, Goes, Onward
<1>2. codex \in Companion BY DEF TypeOK
<1>3. /\ codex' \in Companion /\ CodexKeeps({"running", "desired", "state"})
      /\ codex'.desired = FALSE
  BY <1>2, LocalTypes DEF Disable, Changes, At, CodexKeeps, CodexFields, Companion
<1>4. UNCHANGED <<disk, up, counts, torn>> BY DEF Disable, Changes, At
<1>5. QED BY <1>1, <1>3, <1>4

LEMMA ReconcileKeepsDoes ==
  ASSUME TypeOK, Placed, NEW p \in Procs, ReconcileKeeps(p)
  PROVE  /\ Moves(p) /\ Goes(p, {"codex.read"}, proc[p].ret)
         /\ UNCHANGED <<disk, codex, up, counts, torn>>
<1>1. Moves(p) /\ Goes(p, {"codex.read"}, proc[p].ret)
  BY GotoOnward, GotoReturns, GotoEnable DEF ReconcileKeeps, At, Looks, Goes, Onward,
     ReconcileLabels
<1>2. UNCHANGED <<disk, codex, up, counts, torn>> BY DEF ReconcileKeeps, At, Looks
<1>3. QED BY <1>1, <1>2

LEMMA ReconcileRepairsDoes ==
  ASSUME TypeOK, Placed, NEW p \in Procs, ReconcileRepairs(p)
  PROVE  /\ Moves(p) /\ Goes(p, {"codex.read"}, "stage.aside")
         /\ UNCHANGED <<disk, codex, up, counts, torn>>
<1>1. Moves(p) /\ Goes(p, {"codex.read"}, "stage.aside")
  BY GotoOnward, GotoReturns, GotoEnable DEF ReconcileRepairs, At, Looks, Goes, Onward,
     ReconcileLabels
<1>2. UNCHANGED <<disk, codex, up, counts, torn>> BY DEF ReconcileRepairs, At, Looks
<1>3. QED BY <1>1, <1>2

LEMMA ReconcileRaisesDoes ==
  ASSUME TypeOK, Placed, NEW p \in Procs, ReconcileRaises(p)
  PROVE  /\ Moves(p) /\ Goes(p, {"codex.read"}, proc[p].ret)
         /\ UNCHANGED <<disk, codex, up, counts, torn>>
<1>1. Moves(p) /\ Goes(p, {"codex.read"}, proc[p].ret)
  BY GotoOnward, GotoReturns, GotoEnable DEF ReconcileRaises, Looks, At, Goes, Onward,
     ReconcileLabels
<1>2. UNCHANGED <<disk, codex, up, counts, torn>> BY DEF ReconcileRaises, Looks, At
<1>3. QED BY <1>1, <1>2

LEMMA StageAsideDoes ==
  ASSUME TypeOK, Placed, NEW p \in Procs, StageAside(p)
  PROVE  /\ Moves(p) /\ proc[p].at = "stage.aside" /\ Keeps(p, {"codex"})
         /\ proc'[p].at = "stage.install" /\ proc'[p].codex = codex
         /\ UNCHANGED <<disk, up, lock, counts, torn>> /\ codex' \in Companion
         /\ CodexKeeps({"runtime"}) /\ codex'.runtime = 0
<1>1. proc \in [Procs -> Local] /\ proc[p] \in Local /\ Path(proc[p]) BY DEF Placed
<1> DEFINE l == [proc[p] EXCEPT !.at = "stage.install", !.codex = codex]
<1>2. l \in Local BY <1>1 DEF TypeOK, Local, Disk, Labels, ReconcileLabels
<1>3. proc' = [proc EXCEPT ![p] = l] BY <1>1 DEF StageAside
<1>4. proc' \in [Procs -> Local] /\ Framed(p) /\ proc'[p] = l BY <1>1, <1>2, <1>3, SetLocal
<1>5. /\ proc[p].at = "stage.aside" /\ Keeps(p, {"codex"}) /\ Steady(p)
      /\ proc'[p].at = "stage.install" /\ proc'[p].codex = codex
  BY <1>1, <1>4 DEF Keeps, Fields, Steady, Local, StageAside, At
<1>6. Path(proc'[p])
  <2>1. Onward(proc[p].at, proc'[p].at) BY <1>5 DEF Onward, ReconcileLabels
  <2>2. QED BY <1>1, <1>5, <2>1, OnPath DEF Keeps, Fields
<1>7. Moves(p) BY <1>4, <1>5, <1>6 DEF Moves
<1>8. codex \in Companion BY DEF TypeOK
<1>9. codex' \in Companion /\ CodexKeeps({"runtime"}) /\ codex'.runtime = 0
  BY <1>8, LocalTypes DEF StageAside, At, CodexKeeps, CodexFields, Companion
<1>10. UNCHANGED <<disk, up, lock, counts, torn>> BY DEF StageAside, At
<1>11. QED BY <1>5, <1>7, <1>9, <1>10

LEMMA StageInstallDoes ==
  ASSUME TypeOK, Placed, NEW p \in Procs, StageInstall(p)
  PROVE  /\ Moves(p) /\ Goes(p, {"stage.install"}, "stage.prepare")
         /\ UNCHANGED <<disk, up, counts, torn>> /\ codex' \in Companion
         /\ CodexKeeps({"runtime", "link"}) /\ codex'.runtime = Digest[proc[p].target]
         /\ codex'.link = TRUE
<1>1. Moves(p) /\ Goes(p, {"stage.install"}, "stage.prepare")
  BY GotoOnward, GotoReturns, GotoEnable DEF StageInstall, Changes, At, Goes, Onward,
     ReconcileLabels
<1>2. codex \in Companion BY DEF TypeOK
<1>3. proc[p].target \in Releases
  BY TargetIsRelease DEF StageInstall, Changes, At, ReconcileLabels
<1>4. /\ codex' \in Companion /\ CodexKeeps({"runtime", "link"})
      /\ codex'.runtime = Digest[proc[p].target] /\ codex'.link = TRUE
  BY <1>2, <1>3, DigestAssumption, LocalTypes DEF StageInstall, Changes, At, CodexKeeps,
     CodexFields, Companion
<1>5. UNCHANGED <<disk, up, counts, torn>> BY DEF StageInstall, Changes, At
<1>6. QED BY <1>1, <1>4, <1>5

LEMMA StageInstallFailsDoes ==
  ASSUME TypeOK, Placed, NEW p \in Procs, StageInstallFails(p)
  PROVE  /\ Moves(p) /\ Goes(p, {"stage.install"}, "fail")
         /\ UNCHANGED <<disk, up, counts, torn>> /\ codex' \in Companion
         /\ CodexKeeps({"runtime"}) /\ codex'.runtime = proc[p].codex.runtime
<1>1. Moves(p) /\ Goes(p, {"stage.install"}, "fail")
  BY GotoOnward, GotoReturns, GotoEnable DEF StageInstallFails, Changes, At, Goes, Onward,
     ReconcileLabels
<1>2. codex \in Companion BY DEF TypeOK
<1>3. /\ codex' \in Companion /\ CodexKeeps({"runtime"})
      /\ codex'.runtime = proc[p].codex.runtime
  BY <1>2, LocalTypes DEF StageInstallFails, Changes, At, CodexKeeps, CodexFields, Companion
<1>4. UNCHANGED <<disk, up, counts, torn>> BY DEF StageInstallFails, Changes, At
<1>5. QED BY <1>1, <1>3, <1>4

LEMMA StagePrepareDoes ==
  ASSUME TypeOK, Placed, NEW p \in Procs, StagePrepare(p)
  PROVE  /\ Moves(p)
         /\ Goes(p, {"stage.prepare"}, IF proc[p].op = "enable" THEN "enable.start"
                ELSE "repair.restart")
         /\ UNCHANGED <<disk, up, counts, torn>> /\ codex' \in Companion
         /\ CodexKeeps({"unit"}) /\ codex'.unit = TRUE
<1>1. /\ Moves(p)
      /\ Goes(p, {"stage.prepare"}, IF proc[p].op = "enable" THEN "enable.start"
             ELSE "repair.restart")
  BY GotoOnward, GotoReturns, GotoEnable DEF StagePrepare, At, Goes, Onward,
     ReconcileLabels, EnableLabels
<1>2. codex \in Companion BY DEF TypeOK
<1>3. codex' \in Companion /\ CodexKeeps({"unit"}) /\ codex'.unit = TRUE
  BY <1>2, LocalTypes DEF StagePrepare, At, CodexKeeps, CodexFields, Companion
<1>4. UNCHANGED <<disk, up, counts, torn>> BY DEF StagePrepare, At
<1>5. QED BY <1>1, <1>3, <1>4

LEMMA StagePrepareFailsDoes ==
  ASSUME TypeOK, Placed, NEW p \in Procs, StagePrepareFails(p)
  PROVE  /\ Moves(p) /\ Goes(p, {"stage.prepare"}, "fail")
         /\ UNCHANGED <<disk, up, counts, torn>> /\ codex' \in Companion
         /\ CodexKeeps({"runtime", "link", "unit"})
         /\ codex'.runtime = proc[p].codex.runtime /\ codex'.link = proc[p].codex.link
         /\ codex'.unit = proc[p].codex.unit
<1>1. Moves(p) /\ Goes(p, {"stage.prepare"}, "fail")
  BY GotoOnward, GotoReturns, GotoEnable DEF StagePrepareFails, Changes, At, Goes, Onward,
     ReconcileLabels
<1>2. codex \in Companion BY DEF TypeOK
<1>3. /\ codex' \in Companion /\ CodexKeeps({"runtime", "link", "unit"})
      /\ codex'.runtime = proc[p].codex.runtime /\ codex'.link = proc[p].codex.link
      /\ codex'.unit = proc[p].codex.unit
  BY <1>2, LocalTypes DEF StagePrepareFails, Changes, PutBack, At, CodexKeeps, CodexFields,
     Companion
<1>4. UNCHANGED <<disk, up, counts, torn>> BY DEF StagePrepareFails, Changes, At
<1>5. QED BY <1>1, <1>3, <1>4

LEMMA StageRaisesDoes ==
  ASSUME TypeOK, Placed, NEW p \in Procs, StageRaises(p)
  PROVE  /\ Moves(p) /\ Goes(p, {"stage.aside"}, "fail")
         /\ UNCHANGED <<disk, codex, up, counts, torn>>
<1>1. Moves(p) /\ Goes(p, {"stage.aside"}, "fail")
  BY GotoOnward, GotoReturns, GotoEnable DEF StageRaises, Looks, At, Goes, Onward,
     ReconcileLabels
<1>2. UNCHANGED <<disk, codex, up, counts, torn>> BY DEF StageRaises, Looks, At
<1>3. QED BY <1>1, <1>2

LEMMA StageFailDoes ==
  ASSUME TypeOK, Placed, NEW p \in Procs, StageFail(p)
  PROVE  /\ Moves(p)
         /\ \/ Goes(p, {"fail"}, IF codex.unit THEN "fail.off" ELSE "enable.fail")
            \/ Goes(p, {"fail"}, proc[p].ret)
         /\ UNCHANGED <<disk, up, counts, torn>> /\ codex' \in Companion
         /\ CodexKeeps({"state"})
         /\ codex'.state = "failed" \/ codex' = codex
<1>1. /\ Moves(p)
      /\ \/ Goes(p, {"fail"}, IF codex.unit THEN "fail.off" ELSE "enable.fail")
         \/ Goes(p, {"fail"}, proc[p].ret)
  BY GotoOnward, GotoReturns, GotoEnable DEF StageFail, Looks, Changes, At, Goes, Onward,
     ReconcileLabels, EnableLabels
<1>2. codex \in Companion BY DEF TypeOK
<1>3. /\ codex' \in Companion /\ CodexKeeps({"state"})
      /\ codex'.state = "failed" \/ codex' = codex
  BY <1>2, LocalTypes DEF StageFail, Looks, Changes, At, CodexKeeps, CodexFields, Companion
<1>4. UNCHANGED <<disk, up, counts, torn>> BY DEF StageFail, Looks, Changes, At
<1>5. QED BY <1>1, <1>3, <1>4

LEMMA FailOffDoes ==
  ASSUME TypeOK, Placed, NEW p \in Procs, FailOff(p)
  PROVE  /\ Moves(p) /\ Goes(p, {"fail.off"}, "enable.fail")
         /\ UNCHANGED <<disk, up, counts, torn>> /\ codex' \in Companion
         /\ CodexKeeps({"running"})
<1>1. Moves(p) /\ Goes(p, {"fail.off"}, "enable.fail")
  BY GotoOnward, GotoReturns, GotoEnable DEF FailOff, Changes, At, Goes, Onward,
     EnableLabels
<1>2. codex \in Companion BY DEF TypeOK
<1>3. codex' \in Companion /\ CodexKeeps({"running"})
  BY <1>2, LocalTypes DEF FailOff, Changes, At, CodexKeeps, CodexFields, Companion
<1>4. UNCHANGED <<disk, up, counts, torn>> BY DEF FailOff, Changes, At
<1>5. QED BY <1>1, <1>3, <1>4

LEMMA EnableStartDoes ==
  ASSUME TypeOK, Placed, NEW p \in Procs, EnableStart(p)
  PROVE  /\ Moves(p) /\ Goes(p, {"enable.start"}, "enable.refresh")
         /\ UNCHANGED <<disk, up, counts, torn>> /\ codex' \in Companion
         /\ CodexKeeps({"running"})
<1>1. Moves(p) /\ Goes(p, {"enable.start"}, "enable.refresh")
  BY GotoOnward, GotoReturns, GotoEnable DEF EnableStart, Changes, At, Goes, Onward,
     EnableLabels
<1>2. codex \in Companion BY DEF TypeOK
<1>3. codex' \in Companion /\ CodexKeeps({"running"})
  BY <1>2, LocalTypes DEF EnableStart, Changes, At, CodexKeeps, CodexFields, Companion
<1>4. UNCHANGED <<disk, up, counts, torn>> BY DEF EnableStart, Changes, At
<1>5. QED BY <1>1, <1>3, <1>4

LEMMA EnableRefreshDoes ==
  ASSUME TypeOK, Placed, NEW p \in Procs, EnableRefresh(p)
  PROVE  /\ Moves(p) /\ Goes(p, {"enable.refresh"}, "enable.ready") /\ up' \in Starting
         /\ UNCHANGED <<disk, codex, counts, torn>>
<1>1. Moves(p) /\ Goes(p, {"enable.refresh"}, "enable.ready")
  BY GotoOnward, GotoReturns, GotoEnable DEF EnableRefresh, Runs, At, Goes, Onward,
     EnableLabels
<1>2. up' \in Starting /\ UNCHANGED <<disk, codex, counts, torn>> BY DEF EnableRefresh, Runs, At
<1>3. QED BY <1>1, <1>2

LEMMA EnableReadyDoes ==
  ASSUME TypeOK, Placed, NEW p \in Procs, EnableReady(p)
  PROVE  /\ Moves(p) /\ Goes(p, {"enable.ready"}, "enable.status") /\ up # None
         /\ UNCHANGED <<disk, codex, up, counts, torn>>
<1>1. Moves(p) /\ Goes(p, {"enable.ready"}, "enable.status")
  BY GotoOnward, GotoReturns, GotoEnable DEF EnableReady, Looks, At, Goes, Onward,
     EnableLabels
<1>2. up # None /\ UNCHANGED <<disk, codex, up, counts, torn>> BY DEF EnableReady, Looks, At
<1>3. QED BY <1>1, <1>2

LEMMA EnableStatusDoes ==
  ASSUME TypeOK, Placed, NEW p \in Procs, EnableStatus(p)
  PROVE  /\ Moves(p) /\ Goes(p, {"enable.status"}, "return")
         /\ UNCHANGED <<disk, up, counts, torn>> /\ codex' \in Companion
         /\ CodexKeeps({"state", "desired", "digest"})
         /\ codex'.digest = Digest[proc[p].target]
<1>1. Moves(p) /\ Goes(p, {"enable.status"}, "return")
  BY GotoOnward, GotoReturns, GotoEnable DEF EnableStatus, Changes, At, Goes, Onward,
     EnableLabels
<1>2. codex \in Companion BY DEF TypeOK
<1>3. proc[p].target \in Releases BY TargetIsRelease DEF EnableStatus, Changes, At, EnableLabels
<1>4. /\ codex' \in Companion /\ CodexKeeps({"state", "desired", "digest"})
      /\ codex'.digest = Digest[proc[p].target]
  BY <1>2, <1>3, DigestAssumption, LocalTypes DEF EnableStatus, Changes, At, CodexKeeps,
     CodexFields, Companion
<1>5. UNCHANGED <<disk, up, counts, torn>> BY DEF EnableStatus, Changes, At
<1>6. QED BY <1>1, <1>4, <1>5

LEMMA EnableRaisesDoes ==
  ASSUME TypeOK, Placed, NEW p \in Procs, EnableRaises(p)
  PROVE  /\ Moves(p)
         /\ Goes(p, {"enable.start", "enable.refresh", "enable.ready", "enable.status"},
                 "enable.off")
         /\ UNCHANGED <<disk, codex, up, counts, torn>>
<1>1. /\ Moves(p)
      /\ Goes(p, {"enable.start", "enable.refresh", "enable.ready", "enable.status"},
              "enable.off")
  BY GotoOnward, GotoReturns, GotoEnable DEF EnableRaises, Looks, At, Goes, Onward,
     EnableLabels
<1>2. UNCHANGED <<disk, codex, up, counts, torn>> BY DEF EnableRaises, Looks, At
<1>3. QED BY <1>1, <1>2

LEMMA EnableOffDoes ==
  ASSUME TypeOK, Placed, NEW p \in Procs, EnableOff(p)
  PROVE  /\ Moves(p) /\ Goes(p, {"enable.off"}, "enable.back")
         /\ UNCHANGED <<disk, up, counts, torn>> /\ codex' \in Companion
         /\ CodexKeeps({"running"})
<1>1. Moves(p) /\ Goes(p, {"enable.off"}, "enable.back")
  BY GotoOnward, GotoReturns, GotoEnable DEF EnableOff, Changes, At, Goes, Onward,
     EnableLabels
<1>2. codex \in Companion BY DEF TypeOK
<1>3. codex' \in Companion /\ CodexKeeps({"running"})
  BY <1>2, LocalTypes DEF EnableOff, Changes, At, CodexKeeps, CodexFields, Companion
<1>4. UNCHANGED <<disk, up, counts, torn>> BY DEF EnableOff, Changes, At
<1>5. QED BY <1>1, <1>3, <1>4

LEMMA EnableBackDoes ==
  ASSUME TypeOK, Placed, NEW p \in Procs, EnableBack(p)
  PROVE  /\ Moves(p) /\ Goes(p, {"enable.back"}, "enable.fail")
         /\ UNCHANGED <<disk, up, counts, torn>> /\ codex' \in Companion
         /\ CodexKeeps({"runtime", "link", "unit"})
         /\ codex'.runtime = proc[p].codex.runtime /\ codex'.link = proc[p].codex.link
         /\ codex'.unit = proc[p].codex.unit
<1>1. Moves(p) /\ Goes(p, {"enable.back"}, "enable.fail")
  BY GotoOnward, GotoReturns, GotoEnable DEF EnableBack, Changes, At, Goes, Onward,
     EnableLabels
<1>2. codex \in Companion BY DEF TypeOK
<1>3. /\ codex' \in Companion /\ CodexKeeps({"runtime", "link", "unit"})
      /\ codex'.runtime = proc[p].codex.runtime /\ codex'.link = proc[p].codex.link
      /\ codex'.unit = proc[p].codex.unit
  BY <1>2, LocalTypes DEF EnableBack, Changes, PutBack, At, CodexKeeps, CodexFields,
     Companion
<1>4. UNCHANGED <<disk, up, counts, torn>> BY DEF EnableBack, Changes, At
<1>5. QED BY <1>1, <1>3, <1>4

LEMMA EnableFailDoes ==
  ASSUME TypeOK, Placed, NEW p \in Procs, EnableFail(p)
  PROVE  /\ Moves(p) /\ Goes(p, {"enable.fail"}, "return")
         /\ UNCHANGED <<disk, up, counts, torn>> /\ codex' \in Companion
         /\ CodexKeeps({"state", "desired"}) /\ codex'.desired = FALSE
<1>1. Moves(p) /\ Goes(p, {"enable.fail"}, "return")
  BY GotoOnward, GotoReturns, GotoEnable DEF EnableFail, Changes, At, Goes, Onward,
     EnableLabels
<1>2. codex \in Companion BY DEF TypeOK
<1>3. codex' \in Companion /\ CodexKeeps({"state", "desired"}) /\ codex'.desired = FALSE
  BY <1>2, LocalTypes DEF EnableFail, Changes, At, CodexKeeps, CodexFields, Companion
<1>4. UNCHANGED <<disk, up, counts, torn>> BY DEF EnableFail, Changes, At
<1>5. QED BY <1>1, <1>3, <1>4

LEMMA RepairRestartDoes ==
  ASSUME TypeOK, Placed, NEW p \in Procs, RepairRestart(p)
  PROVE  /\ Moves(p) /\ Goes(p, {"repair.restart"}, "repair.status")
         /\ UNCHANGED <<disk, up, counts, torn>> /\ codex' \in Companion
         /\ CodexKeeps({"running"})
<1>1. Moves(p) /\ Goes(p, {"repair.restart"}, "repair.status")
  BY GotoOnward, GotoReturns, GotoEnable DEF RepairRestart, Changes, At, Goes, Onward,
     ReconcileLabels
<1>2. codex \in Companion BY DEF TypeOK
<1>3. codex' \in Companion /\ CodexKeeps({"running"})
  BY <1>2, LocalTypes DEF RepairRestart, Changes, At, CodexKeeps, CodexFields, Companion
<1>4. UNCHANGED <<disk, up, counts, torn>> BY DEF RepairRestart, Changes, At
<1>5. QED BY <1>1, <1>3, <1>4

LEMMA RepairStatusDoes ==
  ASSUME TypeOK, Placed, NEW p \in Procs, RepairStatus(p)
  PROVE  /\ Moves(p) /\ Goes(p, {"repair.status"}, proc[p].ret)
         /\ UNCHANGED <<disk, up, counts, torn>> /\ codex' \in Companion
         /\ CodexKeeps({"state", "digest"}) /\ codex'.digest = Digest[proc[p].target]
<1>1. Moves(p) /\ Goes(p, {"repair.status"}, proc[p].ret)
  BY GotoOnward, GotoReturns, GotoEnable DEF RepairStatus, Changes, At, Goes, Onward,
     ReconcileLabels
<1>2. codex \in Companion BY DEF TypeOK
<1>3. proc[p].target \in Releases
  BY TargetIsRelease DEF RepairStatus, Changes, At, ReconcileLabels
<1>4. /\ codex' \in Companion /\ CodexKeeps({"state", "digest"})
      /\ codex'.digest = Digest[proc[p].target]
  BY <1>2, <1>3, DigestAssumption, LocalTypes DEF RepairStatus, Changes, At, CodexKeeps,
     CodexFields, Companion
<1>5. UNCHANGED <<disk, up, counts, torn>> BY DEF RepairStatus, Changes, At
<1>6. QED BY <1>1, <1>4, <1>5

LEMMA RepairRaisesDoes ==
  ASSUME TypeOK, Placed, NEW p \in Procs, RepairRaises(p)
  PROVE  /\ Moves(p) /\ Goes(p, {"repair.restart", "repair.status"}, "repair.back")
         /\ UNCHANGED <<disk, codex, up, counts, torn>>
<1>1. Moves(p) /\ Goes(p, {"repair.restart", "repair.status"}, "repair.back")
  BY GotoOnward, GotoReturns, GotoEnable DEF RepairRaises, Looks, At, Goes, Onward,
     ReconcileLabels
<1>2. UNCHANGED <<disk, codex, up, counts, torn>> BY DEF RepairRaises, Looks, At
<1>3. QED BY <1>1, <1>2

LEMMA RepairBackDoes ==
  ASSUME TypeOK, Placed, NEW p \in Procs, RepairBack(p)
  PROVE  /\ Moves(p) /\ Goes(p, {"repair.back"}, "repair.again")
         /\ UNCHANGED <<disk, up, counts, torn>> /\ codex' \in Companion
         /\ CodexKeeps({"runtime", "link", "unit"})
         /\ codex'.runtime = proc[p].codex.runtime /\ codex'.link = proc[p].codex.link
         /\ codex'.unit = proc[p].codex.unit
<1>1. Moves(p) /\ Goes(p, {"repair.back"}, "repair.again")
  BY GotoOnward, GotoReturns, GotoEnable DEF RepairBack, Changes, At, Goes, Onward,
     ReconcileLabels
<1>2. codex \in Companion BY DEF TypeOK
<1>3. /\ codex' \in Companion /\ CodexKeeps({"runtime", "link", "unit"})
      /\ codex'.runtime = proc[p].codex.runtime /\ codex'.link = proc[p].codex.link
      /\ codex'.unit = proc[p].codex.unit
  BY <1>2, LocalTypes DEF RepairBack, Changes, PutBack, At, CodexKeeps, CodexFields,
     Companion
<1>4. UNCHANGED <<disk, up, counts, torn>> BY DEF RepairBack, Changes, At
<1>5. QED BY <1>1, <1>3, <1>4

LEMMA RepairAgainDoes ==
  ASSUME TypeOK, Placed, NEW p \in Procs, RepairAgain(p)
  PROVE  /\ Moves(p) /\ Goes(p, {"repair.again"}, "repair.fail")
         /\ UNCHANGED <<disk, up, counts, torn>> /\ codex' \in Companion
         /\ CodexKeeps({"running"})
<1>1. Moves(p) /\ Goes(p, {"repair.again"}, "repair.fail")
  BY GotoOnward, GotoReturns, GotoEnable DEF RepairAgain, Changes, At, Goes, Onward,
     ReconcileLabels
<1>2. codex \in Companion BY DEF TypeOK
<1>3. codex' \in Companion /\ CodexKeeps({"running"})
  BY <1>2, LocalTypes DEF RepairAgain, Changes, At, CodexKeeps, CodexFields, Companion
<1>4. UNCHANGED <<disk, up, counts, torn>> BY DEF RepairAgain, Changes, At
<1>5. QED BY <1>1, <1>3, <1>4

LEMMA RepairFailDoes ==
  ASSUME TypeOK, Placed, NEW p \in Procs, RepairFail(p)
  PROVE  /\ Moves(p) /\ Goes(p, {"repair.fail"}, proc[p].ret)
         /\ UNCHANGED <<disk, up, counts, torn>> /\ codex' \in Companion
         /\ CodexKeeps({"state"}) /\ codex'.state = "failed"
<1>1. Moves(p) /\ Goes(p, {"repair.fail"}, proc[p].ret)
  BY GotoOnward, GotoReturns, GotoEnable DEF RepairFail, Changes, At, Goes, Onward,
     ReconcileLabels
<1>2. codex \in Companion BY DEF TypeOK
<1>3. codex' \in Companion /\ CodexKeeps({"state"}) /\ codex'.state = "failed"
  BY <1>2, LocalTypes DEF RepairFail, Changes, At, CodexKeeps, CodexFields, Companion
<1>4. UNCHANGED <<disk, up, counts, torn>> BY DEF RepairFail, Changes, At
<1>5. QED BY <1>1, <1>3, <1>4

LEMMA CodexRaisesDoes ==
  ASSUME TypeOK, Placed, NEW p \in Procs, CodexRaises(p)
  PROVE  /\ Moves(p)
         /\ Ends(p) \/ Goes(p, ReconcileLabels, proc[p].ret)
         /\ torn' = TRUE /\ UNCHANGED <<disk, codex, up, counts>>
<1>1. \/ proc[p].at \in ReconcileLabels
      \/ proc[p].op \in {"enable", "repair", "disable"}
  BY DEF CodexRaises, At, Placed, Path, ReconcileLabels, EnableLabels
<1>2. /\ torn' = TRUE
      /\ \/ Leave(p)
         \/ proc[p].at \in ReconcileLabels /\ Goto(p, proc[p].ret) /\ lock' = lock
  BY <1>1 DEF CodexRaises
<1>3. /\ Moves(p)
      /\ Ends(p) \/ Goes(p, ReconcileLabels, proc[p].ret)
  BY <1>2, LeaveRests, GotoReturns DEF Goes, Ends, Leave
<1>4. UNCHANGED <<disk, codex, up, counts>> BY DEF CodexRaises, At
<1>5. QED BY <1>2, <1>3, <1>4

\* The operations on the database (DatabaseStep).
LEMMA ReplaceLockDoes ==
  ASSUME TypeOK, Placed, NEW p \in Procs, ReplaceLock(p)
  PROVE  /\ Moves(p) /\ proc[p].at = "replace.lock" /\ Keeps(p, {"active"})
         /\ proc'[p].at = "replace.stop" /\ proc'[p].active = (up # None)
         /\ lock = None /\ lock' = p /\ UNCHANGED <<disk, codex, up, counts, torn>>
<1>1. PICK flag \in BOOLEAN : flag = (up # None) OBVIOUS
<1>2. proc \in [Procs -> Local] /\ proc[p] \in Local /\ Path(proc[p]) BY DEF Placed
<1> DEFINE l == [proc[p] EXCEPT !.at = "replace.stop", !.active = flag]
<1>3. l \in Local
  <2>1. "replace.stop" \in Labels BY DEF Labels, DatabaseLabels
  <2>2. QED BY <1>2, <2>1 DEF Local
<1>4. proc' = [proc EXCEPT ![p] = l] BY <1>1, <1>2 DEF ReplaceLock
<1>5. proc' \in [Procs -> Local] /\ Framed(p) /\ proc'[p] = l BY <1>2, <1>3, <1>4, SetLocal
<1>6. /\ proc[p].at = "replace.lock" /\ Keeps(p, {"active"}) /\ Steady(p)
      /\ proc'[p].at = "replace.stop" /\ proc'[p].active = (up # None)
  BY <1>1, <1>2, <1>5 DEF Keeps, Fields, Steady, Local, ReplaceLock, At
<1>7. Path(proc'[p])
  <2>1. Onward(proc[p].at, proc'[p].at) BY <1>6 DEF Onward, DatabaseLabels
  <2>2. QED BY <1>2, <1>6, <2>1, OnPath DEF Keeps, Fields
<1>8. Moves(p) BY <1>5, <1>6, <1>7 DEF Moves
<1>9. lock = None /\ lock' = p /\ UNCHANGED <<disk, codex, up, counts, torn>>
  BY DEF ReplaceLock, At
<1>10. QED BY <1>6, <1>8, <1>9

LEMMA ReplaceRefusedDoes ==
  ASSUME TypeOK, Placed, NEW p \in Procs, ReplaceRefused(p)
  PROVE  /\ Moves(p) /\ proc[p].at \in {"replace.lock"} /\ Ends(p)
         /\ UNCHANGED <<disk, codex, up, counts, torn>>
<1>1. Moves(p) /\ proc[p].at \in {"replace.lock"} /\ Ends(p)
  BY LeaveRests DEF ReplaceRefused, Returns, At, Ends, Leave
<1>2. UNCHANGED <<disk, codex, up, counts, torn>> BY DEF ReplaceRefused, Returns, At
<1>3. QED BY <1>1, <1>2

LEMMA ReplaceStopDoes ==
  ASSUME TypeOK, Placed, NEW p \in Procs, ReplaceStop(p)
  PROVE  /\ Moves(p) /\ proc[p].at = "replace.stop" /\ Keeps(p, {"stopped"})
         /\ proc'[p].at = "replace.save" /\ proc'[p].stopped = (up # None) /\ up' = None
         /\ UNCHANGED <<disk, codex, lock, counts, torn>>
<1>1. PICK flag \in BOOLEAN : flag = (up # None) OBVIOUS
<1>2. proc \in [Procs -> Local] /\ proc[p] \in Local /\ Path(proc[p]) BY DEF Placed
<1> DEFINE l == [proc[p] EXCEPT !.at = "replace.save", !.stopped = flag]
<1>3. l \in Local
  <2>1. "replace.save" \in Labels BY DEF Labels, DatabaseLabels
  <2>2. QED BY <1>2, <2>1 DEF Local
<1>4. proc' = [proc EXCEPT ![p] = l] BY <1>1, <1>2 DEF ReplaceStop
<1>5. proc' \in [Procs -> Local] /\ Framed(p) /\ proc'[p] = l BY <1>2, <1>3, <1>4, SetLocal
<1>6. /\ proc[p].at = "replace.stop" /\ Keeps(p, {"stopped"}) /\ Steady(p)
      /\ proc'[p].at = "replace.save" /\ proc'[p].stopped = (up # None)
  BY <1>1, <1>2, <1>5 DEF Keeps, Fields, Steady, Local, ReplaceStop, At
<1>7. Path(proc'[p])
  <2>1. Onward(proc[p].at, proc'[p].at) BY <1>6 DEF Onward, DatabaseLabels
  <2>2. QED BY <1>2, <1>6, <2>1, OnPath DEF Keeps, Fields
<1>8. Moves(p) BY <1>5, <1>6, <1>7 DEF Moves
<1>9. up' = None /\ UNCHANGED <<disk, codex, lock, counts, torn>>
  BY DEF ReplaceStop, At, Stopping
<1>10. QED BY <1>6, <1>8, <1>9

LEMMA ReplaceSaveDoes ==
  ASSUME TypeOK, Placed, NEW p \in Procs, ReplaceSave(p)
  PROVE  /\ Moves(p) /\ proc[p].at = "replace.save" /\ Keeps(p, {"copied", "copy"})
         /\ proc'[p].at = "replace.cut" /\ proc'[p].copied = (disk.db.schema # 0)
         /\ proc'[p].copy = disk.db /\ UNCHANGED <<codex, up, lock, counts, torn>>
         /\ disk' \in Disk /\ DiskKeeps({"backups"})
         /\ disk'.backups = IF disk.db.schema # 0 THEN disk.backups \cup {disk.db}
                ELSE disk.backups
<1>1. PICK flag \in BOOLEAN : flag = (disk.db.schema # 0) OBVIOUS
<1>2. proc \in [Procs -> Local] /\ proc[p] \in Local /\ Path(proc[p]) BY DEF Placed
<1> DEFINE l == [proc[p] EXCEPT !.at = "replace.cut", !.copied = flag, !.copy = disk.db]
<1>3. l \in Local
  <2>1. "replace.cut" \in Labels BY DEF Labels, DatabaseLabels
  <2>2. disk.db \in Database
    BY DEF TypeOK, Disk
  <2>3. QED BY <1>2, <2>1, <2>2 DEF Local
<1>4. proc' = [proc EXCEPT ![p] = l] BY <1>1, <1>2 DEF ReplaceSave
<1>5. proc' \in [Procs -> Local] /\ Framed(p) /\ proc'[p] = l BY <1>2, <1>3, <1>4, SetLocal
<1>6. /\ proc[p].at = "replace.save" /\ Keeps(p, {"copied", "copy"}) /\ Steady(p)
      /\ proc'[p].at = "replace.cut" /\ proc'[p].copied = (disk.db.schema # 0)
      /\ proc'[p].copy = disk.db
  BY <1>1, <1>2, <1>5 DEF Keeps, Fields, Steady, Local, ReplaceSave, At
<1>7. Path(proc'[p])
  <2>1. Onward(proc[p].at, proc'[p].at) BY <1>6 DEF Onward, DatabaseLabels
  <2>2. QED BY <1>2, <1>6, <2>1, OnPath DEF Keeps, Fields
<1>8. Moves(p) BY <1>5, <1>6, <1>7 DEF Moves
<1>9. UNCHANGED <<codex, up, lock, counts, torn>> BY DEF ReplaceSave, At
<1>10. QED BY <1>6, <1>8, <1>9, ReplaceSaveDisk

LEMMA ReplaceCutDoes ==
  ASSUME TypeOK, Placed, NEW p \in Procs, ReplaceCut(p)
  PROVE  /\ Moves(p) /\ Goes(p, {"replace.cut"}, "runtime.prepare")
         /\ UNCHANGED <<codex, up, counts, torn>> /\ disk' \in Disk
         /\ DiskKeeps({"db"}) /\ disk'.db = proc[p].staged
<1>1. Moves(p) /\ Goes(p, {"replace.cut"}, "runtime.prepare")
  BY GotoOnward DEF ReplaceCut, Writes, At, Goes, Onward, DatabaseLabels
<1>2. UNCHANGED <<codex, up, counts, torn>> BY DEF ReplaceCut, Writes, At
<1>3. QED BY <1>1, <1>2, ReplaceCutDisk

LEMMA RuntimePrepareDoes ==
  ASSUME TypeOK, Placed, NEW p \in Procs, RuntimePrepare(p)
  PROVE  /\ Moves(p)
         /\ Goes(p, {"runtime.prepare"}, IF proc[p].active THEN "runtime.start" ELSE "return")
         /\ UNCHANGED <<disk, codex, up, counts, torn>>
<1>1. /\ Moves(p)
      /\ Goes(p, {"runtime.prepare"}, IF proc[p].active THEN "runtime.start" ELSE "return")
  BY GotoOnward DEF RuntimePrepare, Looks, At, Goes, Onward, DatabaseLabels
<1>2. UNCHANGED <<disk, codex, up, counts, torn>> BY DEF RuntimePrepare, Looks, At
<1>3. QED BY <1>1, <1>2

LEMMA RuntimeStartDoes ==
  ASSUME TypeOK, Placed, NEW p \in Procs, RuntimeStart(p)
  PROVE  /\ Moves(p) /\ Goes(p, {"runtime.start"}, "runtime.check") /\ up' \in Starting
         /\ UNCHANGED <<disk, codex, counts, torn>>
<1>1. Moves(p) /\ Goes(p, {"runtime.start"}, "runtime.check")
  BY GotoOnward DEF RuntimeStart, Runs, At, Goes, Onward, DatabaseLabels
<1>2. up' \in Starting /\ UNCHANGED <<disk, codex, counts, torn>> BY DEF RuntimeStart, Runs, At
<1>3. QED BY <1>1, <1>2

LEMMA RuntimeCheckDoes ==
  ASSUME TypeOK, Placed, NEW p \in Procs, RuntimeCheck(p)
  PROVE  /\ Moves(p) /\ Goes(p, {"runtime.check"}, "return") /\ up # None
         /\ UNCHANGED <<disk, codex, up, counts, torn>>
<1>1. Moves(p) /\ Goes(p, {"runtime.check"}, "return")
  BY GotoOnward DEF RuntimeCheck, Looks, At, Goes, Onward, DatabaseLabels
<1>2. up # None /\ UNCHANGED <<disk, codex, up, counts, torn>> BY DEF RuntimeCheck, Looks, At
<1>3. QED BY <1>1, <1>2

LEMMA ReplaceRaisesDoes ==
  ASSUME TypeOK, Placed, NEW p \in Procs, ReplaceRaises(p)
  PROVE  /\ Moves(p)
         /\ \/ Goes(p, {"replace.stop", "replace.save", "replace.cut", "optimize.save"},
                    IF proc[p].stopped THEN "replace.resume" ELSE "return")
            \/ Goes(p, {"replace.cut", "runtime.prepare", "runtime.start", "runtime.check"},
                    IF proc[p].active THEN "restore.stop" ELSE "restore.copy")
         /\ UNCHANGED <<disk, codex, up, counts, torn>>
<1>1. /\ Moves(p)
      /\ \/ Goes(p, {"replace.stop", "replace.save", "replace.cut", "optimize.save"},
                 IF proc[p].stopped THEN "replace.resume" ELSE "return")
         \/ Goes(p, {"replace.cut", "runtime.prepare", "runtime.start", "runtime.check"},
                 IF proc[p].active THEN "restore.stop" ELSE "restore.copy")
  BY GotoOnward DEF ReplaceRaises, Looks, At, Goes, Onward, DatabaseLabels
<1>2. UNCHANGED <<disk, codex, up, counts, torn>> BY DEF ReplaceRaises, Looks, At
<1>3. QED BY <1>1, <1>2

LEMMA ReplaceResumeDoes ==
  ASSUME TypeOK, Placed, NEW p \in Procs, ReplaceResume(p)
  PROVE  /\ Moves(p) /\ Goes(p, {"replace.resume"}, "return") /\ up' \in Starting
         /\ UNCHANGED <<disk, codex, counts, torn>>
<1>1. Moves(p) /\ Goes(p, {"replace.resume"}, "return")
  BY GotoOnward DEF ReplaceResume, Runs, At, Goes, Onward, DatabaseLabels
<1>2. up' \in Starting /\ UNCHANGED <<disk, codex, counts, torn>> BY DEF ReplaceResume, Runs, At
<1>3. QED BY <1>1, <1>2

LEMMA RestoreStopDoes ==
  ASSUME TypeOK, Placed, NEW p \in Procs, RestoreStop(p)
  PROVE  /\ Moves(p) /\ Goes(p, {"restore.stop"}, "restore.copy") /\ up' = None
         /\ UNCHANGED <<disk, codex, counts, torn>>
<1>1. Moves(p) /\ Goes(p, {"restore.stop"}, "restore.copy")
  BY GotoOnward DEF RestoreStop, Runs, At, Goes, Onward, DatabaseLabels
<1>2. up' = None /\ UNCHANGED <<disk, codex, counts, torn>>
  BY DEF RestoreStop, Runs, At, Stopping
<1>3. QED BY <1>1, <1>2

LEMMA RestoreCopyDoes ==
  ASSUME TypeOK, Placed, NEW p \in Procs, RestoreCopy(p)
  PROVE  /\ Moves(p) /\ Goes(p, {"restore.copy"}, "restore.prepare")
         /\ UNCHANGED <<codex, up, counts, torn>> /\ disk' \in Disk /\ DiskKeeps({"db"})
         /\ disk'.db = IF proc[p].copied THEN proc[p].copy ELSE NoDatabase
<1>1. Moves(p) /\ Goes(p, {"restore.copy"}, "restore.prepare")
  BY GotoOnward DEF RestoreCopy, Writes, At, Goes, Onward, DatabaseLabels
<1>2. UNCHANGED <<codex, up, counts, torn>> BY DEF RestoreCopy, Writes, At
<1>3. QED BY <1>1, <1>2, RestoreCopyDisk

LEMMA RestorePrepareDoes ==
  ASSUME TypeOK, Placed, NEW p \in Procs, RestorePrepare(p)
  PROVE  /\ Moves(p)
         /\ Goes(p, {"restore.prepare"}, IF proc[p].active THEN "restore.start" ELSE "return")
         /\ UNCHANGED <<disk, codex, up, counts, torn>>
<1>1. /\ Moves(p)
      /\ Goes(p, {"restore.prepare"}, IF proc[p].active THEN "restore.start" ELSE "return")
  BY GotoOnward DEF RestorePrepare, Looks, At, Goes, Onward, DatabaseLabels
<1>2. UNCHANGED <<disk, codex, up, counts, torn>> BY DEF RestorePrepare, Looks, At
<1>3. QED BY <1>1, <1>2

LEMMA RestoreStartDoes ==
  ASSUME TypeOK, Placed, NEW p \in Procs, RestoreStart(p)
  PROVE  /\ Moves(p)
         /\ Goes(p, {"restore.start"}, IF proc[p].op = "migrate" THEN "return"
                ELSE "restore.check")
         /\ up' \in Starting /\ UNCHANGED <<disk, codex, counts, torn>>
<1>1. /\ Moves(p)
      /\ Goes(p, {"restore.start"}, IF proc[p].op = "migrate" THEN "return" ELSE "restore.check")
  BY GotoOnward DEF RestoreStart, Runs, At, Goes, Onward, UpdateLabels, DatabaseLabels
<1>2. up' \in Starting /\ UNCHANGED <<disk, codex, counts, torn>> BY DEF RestoreStart, Runs, At
<1>3. QED BY <1>1, <1>2

LEMMA RestoreCheckDoes ==
  ASSUME TypeOK, Placed, NEW p \in Procs, RestoreCheck(p)
  PROVE  /\ Moves(p) /\ Goes(p, {"restore.check"}, "return") /\ up # None
         /\ UNCHANGED <<disk, codex, up, counts, torn>>
<1>1. Moves(p) /\ Goes(p, {"restore.check"}, "return")
  BY GotoOnward DEF RestoreCheck, Looks, At, Goes, Onward, DatabaseLabels
<1>2. up # None /\ UNCHANGED <<disk, codex, up, counts, torn>> BY DEF RestoreCheck, Looks, At
<1>3. QED BY <1>1, <1>2

LEMMA RestoreRaisesDoes ==
  ASSUME TypeOK, Placed, NEW p \in Procs, RestoreRaises(p)
  PROVE  /\ Moves(p)
         /\ proc[p].at \in {"restore.stop", "restore.copy", "restore.prepare",
                            "restore.check"} /\ Ends(p)
         /\ torn' = TRUE /\ UNCHANGED <<disk, codex, up, counts>>
<1>1. /\ Moves(p)
      /\ proc[p].at \in {"restore.stop", "restore.copy", "restore.prepare",
                         "restore.check"} /\ Ends(p)
  BY LeaveRests DEF RestoreRaises, Escapes, At, Ends, Leave
<1>2. torn' = TRUE /\ UNCHANGED <<disk, codex, up, counts>> BY DEF RestoreRaises, Escapes, At
<1>3. QED BY <1>1, <1>2

LEMMA OptimizeStopDoes ==
  ASSUME TypeOK, Placed, NEW p \in Procs, OptimizeStop(p)
  PROVE  /\ Moves(p) /\ proc[p].at = "optimize.stop" /\ Keeps(p, {"stopped"})
         /\ proc'[p].at = "optimize.directory" /\ proc'[p].stopped = proc[p].active
         /\ up' = None /\ UNCHANGED <<disk, codex, lock, counts, torn>>
<1>1. proc \in [Procs -> Local] /\ proc[p] \in Local /\ Path(proc[p]) BY DEF Placed
<1> DEFINE l == [proc[p] EXCEPT !.at = "optimize.directory", !.stopped = proc[p].active]
<1>2. l \in Local
  <2>1. "optimize.directory" \in Labels BY DEF Labels, DatabaseLabels
  <2>2. QED BY <1>1, <2>1 DEF Local
<1>3. proc' = [proc EXCEPT ![p] = l] BY <1>1 DEF OptimizeStop
<1>4. proc' \in [Procs -> Local] /\ Framed(p) /\ proc'[p] = l BY <1>1, <1>2, <1>3, SetLocal
<1>5. /\ proc[p].at = "optimize.stop" /\ Keeps(p, {"stopped"}) /\ Steady(p)
      /\ proc'[p].at = "optimize.directory" /\ proc'[p].stopped = proc[p].active
  BY <1>1, <1>4 DEF Keeps, Fields, Steady, Local, OptimizeStop, At
<1>6. Path(proc'[p])
  <2>1. Onward(proc[p].at, proc'[p].at) BY <1>5 DEF Onward, DatabaseLabels
  <2>2. QED BY <1>1, <1>5, <2>1, OnPath DEF Keeps, Fields
<1>7. Moves(p) BY <1>4, <1>5, <1>6 DEF Moves
<1>8. up' = None /\ UNCHANGED <<disk, codex, lock, counts, torn>>
  BY DEF OptimizeStop, At, Stopping
<1>9. QED BY <1>5, <1>7, <1>8

LEMMA OptimizeDirectoryDoes ==
  ASSUME TypeOK, Placed, NEW p \in Procs, OptimizeDirectory(p)
  PROVE  /\ Moves(p) /\ Goes(p, {"optimize.directory"}, "optimize.save")
         /\ UNCHANGED <<disk, codex, up, counts, torn>>
<1>1. Moves(p) /\ Goes(p, {"optimize.directory"}, "optimize.save")
  BY GotoOnward DEF OptimizeDirectory, Looks, At, Goes, Onward, DatabaseLabels
<1>2. UNCHANGED <<disk, codex, up, counts, torn>> BY DEF OptimizeDirectory, Looks, At
<1>3. QED BY <1>1, <1>2

LEMMA OptimizeSaveDoes ==
  ASSUME TypeOK, Placed, NEW p \in Procs, OptimizeSave(p)
  PROVE  /\ Moves(p) /\ proc[p].at = "optimize.save"
         /\ Keeps(p, {"copied", "copy", "staged"}) /\ proc'[p].at = "replace.cut"
         /\ proc'[p].copied = TRUE /\ proc'[p].copy = disk.db /\ proc'[p].staged = disk.db
         /\ UNCHANGED <<codex, up, lock, counts, torn>> /\ disk' \in Disk
         /\ DiskKeeps({"backups"}) /\ disk'.backups = disk.backups \cup {disk.db}
<1>1. proc \in [Procs -> Local] /\ proc[p] \in Local /\ Path(proc[p]) BY DEF Placed
<1> DEFINE l == [proc[p] EXCEPT !.at = "replace.cut", !.copied = TRUE, !.copy = disk.db,
                 !.staged = disk.db]
<1>2. l \in Local
  <2>1. "replace.cut" \in Labels BY DEF Labels, DatabaseLabels
  <2>2. disk.db \in Database
    BY DEF TypeOK, Disk
  <2>3. QED BY <1>1, <2>1, <2>2 DEF Local
<1>3. proc' = [proc EXCEPT ![p] = l] BY <1>1 DEF OptimizeSave
<1>4. proc' \in [Procs -> Local] /\ Framed(p) /\ proc'[p] = l BY <1>1, <1>2, <1>3, SetLocal
<1>5. /\ proc[p].at = "optimize.save" /\ Keeps(p, {"copied", "copy", "staged"})
      /\ Steady(p) /\ proc'[p].at = "replace.cut" /\ proc'[p].copied = TRUE
      /\ proc'[p].copy = disk.db /\ proc'[p].staged = disk.db
  BY <1>1, <1>4 DEF Keeps, Fields, Steady, Local, OptimizeSave, At
<1>6. Path(proc'[p])
  <2>1. Onward(proc[p].at, proc'[p].at) BY <1>5 DEF Onward, DatabaseLabels
  <2>2. QED BY <1>1, <1>5, <2>1, OnPath DEF Keeps, Fields
<1>7. Moves(p) BY <1>4, <1>5, <1>6 DEF Moves
<1>8. UNCHANGED <<codex, up, lock, counts, torn>> BY DEF OptimizeSave, At
<1>9. QED BY <1>5, <1>7, <1>8, OptimizeSaveDisk

LEMMA StopRefusedDoes ==
  ASSUME TypeOK, Placed, NEW p \in Procs, StopRefused(p)
  PROVE  /\ Moves(p)
         /\ \/ proc[p].at \in {"optimize.stop"} /\ Ends(p)
            \/ proc[p].at \in {"migrate.stop"} /\ Ends(p)
         /\ UNCHANGED <<disk, codex, up, counts, torn>>
<1>1. /\ Moves(p)
      /\ \/ proc[p].at \in {"optimize.stop"} /\ Ends(p)
         \/ proc[p].at \in {"migrate.stop"} /\ Ends(p)
  BY LeaveRests DEF StopRefused, Returns, At, Ends, Leave
<1>2. UNCHANGED <<disk, codex, up, counts, torn>> BY DEF StopRefused, Returns, At
<1>3. QED BY <1>1, <1>2

LEMMA MigrateStopDoes ==
  ASSUME TypeOK, Placed, NEW p \in Procs, MigrateStop(p)
  PROVE  /\ Moves(p) /\ Goes(p, {"migrate.stop"}, "migrate.save") /\ up' = None
         /\ UNCHANGED <<disk, codex, counts, torn>>
<1>1. Moves(p) /\ Goes(p, {"migrate.stop"}, "migrate.save")
  BY GotoOnward DEF MigrateStop, Runs, At, Goes, Onward, DatabaseLabels
<1>2. up' = None /\ UNCHANGED <<disk, codex, counts, torn>>
  BY DEF MigrateStop, Runs, At, Stopping
<1>3. QED BY <1>1, <1>2

LEMMA MigrateSaveDoes ==
  ASSUME TypeOK, Placed, NEW p \in Procs, MigrateSave(p)
  PROVE  /\ Moves(p) /\ proc[p].at = "migrate.save"
         /\ Keeps(p, {"copied", "copy"}) /\ proc'[p].at = "migrate.run"
         /\ proc'[p].copied = TRUE /\ proc'[p].copy = disk.db
         /\ UNCHANGED <<codex, up, lock, counts, torn>> /\ disk' \in Disk
         /\ DiskKeeps({"backups"}) /\ disk'.backups = disk.backups \cup {disk.db}
<1>1. proc \in [Procs -> Local] /\ proc[p] \in Local /\ Path(proc[p]) BY DEF Placed
<1> DEFINE l == [proc[p] EXCEPT !.at = "migrate.run", !.copied = TRUE, !.copy = disk.db]
<1>2. l \in Local
  <2>1. "migrate.run" \in Labels BY DEF Labels, DatabaseLabels
  <2>2. disk.db \in Database
    BY DEF TypeOK, Disk
  <2>3. QED BY <1>1, <2>1, <2>2 DEF Local
<1>3. proc' = [proc EXCEPT ![p] = l] BY <1>1 DEF MigrateSave
<1>4. proc' \in [Procs -> Local] /\ Framed(p) /\ proc'[p] = l BY <1>1, <1>2, <1>3, SetLocal
<1>5. /\ proc[p].at = "migrate.save" /\ Keeps(p, {"copied", "copy"})
      /\ Steady(p) /\ proc'[p].at = "migrate.run" /\ proc'[p].copied = TRUE
      /\ proc'[p].copy = disk.db
  BY <1>1, <1>4 DEF Keeps, Fields, Steady, Local, MigrateSave, At
<1>6. Path(proc'[p])
  <2>1. Onward(proc[p].at, proc'[p].at) BY <1>5 DEF Onward, DatabaseLabels
  <2>2. QED BY <1>1, <1>5, <2>1, OnPath DEF Keeps, Fields
<1>7. Moves(p) BY <1>4, <1>5, <1>6 DEF Moves
<1>8. UNCHANGED <<codex, up, lock, counts, torn>> BY DEF MigrateSave, At
<1>9. QED BY <1>5, <1>7, <1>8, MigrateSaveDisk

LEMMA MigrateRunDoes ==
  ASSUME TypeOK, Placed, NEW p \in Procs, MigrateRun(p)
  PROVE  /\ Moves(p) /\ Goes(p, {"migrate.run"}, "runtime.prepare")
         /\ UNCHANGED <<codex, up, counts, torn>> /\ disk' \in Disk /\ DiskKeeps({"db"})
         /\ disk'.db = Raised(disk.db, proc[p].target)
<1>1. Moves(p) /\ Goes(p, {"migrate.run"}, "runtime.prepare")
  BY GotoOnward DEF MigrateRun, Writes, At, Goes, Onward, DatabaseLabels
<1>2. UNCHANGED <<codex, up, counts, torn>> BY DEF MigrateRun, Writes, At
<1>3. QED BY <1>1, <1>2, MigrateRunDisk

LEMMA MigrateFailsDoes ==
  ASSUME TypeOK, Placed, NEW p \in Procs, MigrateFails(p)
  PROVE  /\ Moves(p)
         /\ Goes(p, {"migrate.run"}, IF proc[p].active THEN "restore.stop" ELSE "restore.copy")
         /\ UNCHANGED <<codex, up, counts, torn>> /\ disk' \in Disk /\ DiskKeeps({"db"})
         /\ disk'.db = Raised(disk.db, proc[p].target)
<1>1. /\ Moves(p)
      /\ Goes(p, {"migrate.run"}, IF proc[p].active THEN "restore.stop" ELSE "restore.copy")
  BY GotoOnward DEF MigrateFails, Writes, At, Goes, Onward, DatabaseLabels
<1>2. UNCHANGED <<codex, up, counts, torn>> BY DEF MigrateFails, Writes, At
<1>3. QED BY <1>1, <1>2, MigrateFailsDisk

LEMMA BackupRaisesDoes ==
  ASSUME TypeOK, Placed, NEW p \in Procs, BackupRaises(p)
  PROVE  /\ Moves(p)
         /\ \/ proc[p].at \in {"optimize.directory"} /\ Ends(p)
            \/ proc[p].at \in {"migrate.save"} /\ Ends(p)
         /\ torn' = TRUE /\ UNCHANGED <<disk, codex, up, counts>>
<1>1. /\ Moves(p)
      /\ \/ proc[p].at \in {"optimize.directory"} /\ Ends(p)
         \/ proc[p].at \in {"migrate.save"} /\ Ends(p)
  BY LeaveRests DEF BackupRaises, Escapes, At, Ends, Leave
<1>2. torn' = TRUE /\ UNCHANGED <<disk, codex, up, counts>> BY DEF BackupRaises, Escapes, At
<1>3. QED BY <1>1, <1>2

LEMMA MutateDoes ==
  ASSUME TypeOK, Placed, NEW p \in Procs, Mutate(p)
  PROVE  /\ Moves(p) /\ Goes(p, {"mutate"}, "return")
         /\ up' \in (IF proc[p].op = "stop" THEN Stopping ELSE Starting)
         /\ UNCHANGED <<disk, codex, counts, torn>>
<1>1. Moves(p) /\ Goes(p, {"mutate"}, "return") BY GotoOnward DEF Mutate, Runs, At, Goes, Onward
<1>2. /\ up' \in (IF proc[p].op = "stop" THEN Stopping ELSE Starting)
      /\ UNCHANGED <<disk, codex, counts, torn>>
  BY DEF Mutate, Runs, At
<1>3. QED BY <1>1, <1>2

\* The staging steps of setup, activation, configuration and uninstall (SetupStep).
LEMMA StageReleaseDoes ==
  ASSUME TypeOK, Placed, NEW p \in Procs, StageRelease(p)
  PROVE  /\ Moves(p) /\ Goes(p, {"setup.release"}, Then(p, "setup.database"))
         /\ UNCHANGED <<codex, up, counts, torn>> /\ disk' \in Disk
         /\ DiskKeeps({"dirs", "staged"})
<1>1. Moves(p) /\ Goes(p, {"setup.release"}, Then(p, "setup.database"))
  BY GotoOnward DEF StageRelease, Writes, At, Goes, Onward, MenuSteps, Then
<1>2. UNCHANGED <<codex, up, counts, torn>> BY DEF StageRelease, Writes, At
<1>3. QED BY <1>1, <1>2, StageReleaseDisk

LEMMA StageDatabaseDoes ==
  ASSUME TypeOK, Placed, NEW p \in Procs, StageDatabase(p)
  PROVE  /\ Moves(p) /\ Goes(p, {"setup.database"}, Then(p, "setup.domain"))
         /\ UNCHANGED <<codex, up, counts, torn>> /\ disk' \in Disk /\ DiskKeeps({"db"})
         /\ disk.db.rows \subseteq disk'.db.rows
<1>1. Moves(p) /\ Goes(p, {"setup.database"}, Then(p, "setup.domain"))
  BY GotoOnward DEF StageDatabase, Writes, At, Goes, Onward, MenuSteps, Then
<1>2. UNCHANGED <<codex, up, counts, torn>> BY DEF StageDatabase, Writes, At
<1>3. QED BY <1>1, <1>2, StageDatabaseDisk

LEMMA StageDomainDoes ==
  ASSUME TypeOK, Placed, NEW p \in Procs, StageDomain(p)
  PROVE  /\ Moves(p) /\ Goes(p, {"setup.domain"}, Then(p, "setup.service"))
         /\ UNCHANGED <<codex, up, counts, torn>> /\ disk' \in Disk
         /\ DiskKeeps({"wanted", "pending"})
<1>1. Moves(p) /\ Goes(p, {"setup.domain"}, Then(p, "setup.service"))
  BY GotoOnward DEF StageDomain, Writes, At, Goes, Onward, MenuSteps, Then
<1>2. UNCHANGED <<codex, up, counts, torn>> BY DEF StageDomain, Writes, At
<1>3. QED BY <1>1, <1>2, StageDomainDisk

LEMMA StageServiceDoes ==
  ASSUME TypeOK, Placed, NEW p \in Procs, StageService(p)
  PROVE  /\ Moves(p) /\ Goes(p, {"setup.service"}, "return")
         /\ UNCHANGED <<codex, up, counts, torn>> /\ disk' \in Disk
         /\ DiskKeeps({"pending", "fragment", "inst"})
<1>1. Moves(p) /\ Goes(p, {"setup.service"}, "return")
  BY GotoOnward DEF StageService, Writes, At, Goes, Onward, MenuSteps
<1>2. UNCHANGED <<codex, up, counts, torn>> BY DEF StageService, Writes, At
<1>3. QED BY <1>1, <1>2, StageServiceDisk

LEMMA SetupRaisesDoes ==
  ASSUME TypeOK, Placed, NEW p \in Procs, SetupRaises(p)
  PROVE  /\ Moves(p) /\ proc[p].at \in MenuSteps /\ Ends(p)
         /\ UNCHANGED <<disk, codex, up, counts, torn>>
<1>1. Moves(p) /\ proc[p].at \in MenuSteps /\ Ends(p)
  BY LeaveRests DEF SetupRaises, Returns, At, Ends, Leave, MenuSteps
<1>2. UNCHANGED <<disk, codex, up, counts, torn>> BY DEF SetupRaises, Returns, At
<1>3. QED BY <1>1, <1>2

LEMMA ActivateStageDoes ==
  ASSUME TypeOK, Placed, NEW p \in Procs, ActivateStage(p)
  PROVE  /\ Moves(p) /\ Goes(p, {"activate.stage"}, "activate.backup")
         /\ UNCHANGED <<codex, up, counts, torn>> /\ disk' \in Disk
         /\ DiskKeeps({"dirs", "staged"})
<1>1. Moves(p) /\ Goes(p, {"activate.stage"}, "activate.backup")
  BY GotoOnward DEF ActivateStage, Writes, At, Goes, Onward, ActivateLabels
<1>2. UNCHANGED <<codex, up, counts, torn>> BY DEF ActivateStage, Writes, At
<1>3. QED BY <1>1, <1>2, ActivateStageDisk

LEMMA ActivateBackupDoes ==
  ASSUME TypeOK, Placed, NEW p \in Procs, ActivateBackup(p)
  PROVE  /\ Moves(p) /\ proc[p].at = "activate.backup"
         /\ Keeps(p, {"copy", "link", "files", "active"}) /\ proc'[p].at = "activate.sync"
         /\ proc'[p].copy = disk.db /\ proc'[p].link = disk.link
         /\ proc'[p].files = [env |-> disk.env, caddy |-> disk.caddy, unit |-> disk.unit]
         /\ proc'[p].active = (up # None) /\ UNCHANGED <<codex, up, lock, counts, torn>>
         /\ disk' \in Disk /\ DiskKeeps({"backups"})
         /\ disk'.backups = IF disk.db.schema # 0 THEN disk.backups \cup {disk.db}
                ELSE disk.backups
<1>1. PICK flag \in BOOLEAN : flag = (up # None) OBVIOUS
<1>2. proc \in [Procs -> Local] /\ proc[p] \in Local /\ Path(proc[p]) BY DEF Placed
<1> DEFINE l == [proc[p] EXCEPT !.at = "activate.sync", !.copy = disk.db, !.link = disk.link,
                 !.files = [env |-> disk.env, caddy |-> disk.caddy, unit |-> disk.unit],
                 !.active = flag]
<1>3. l \in Local
  <2>1. "activate.sync" \in Labels BY DEF Labels, ActivateLabels
  <2>2. /\ disk.db \in Database /\ disk.link \in Releases \cup {None}
        /\ [env |-> disk.env, caddy |-> disk.caddy, unit |-> disk.unit]
             \in [env : Nat, caddy : Nat, unit : {"none", "managed"}]
    BY DEF TypeOK, Disk
  <2>3. QED BY <1>2, <2>1, <2>2 DEF Local
<1>4. proc' = [proc EXCEPT ![p] = l] BY <1>1, <1>2 DEF ActivateBackup
<1>5. proc' \in [Procs -> Local] /\ Framed(p) /\ proc'[p] = l BY <1>2, <1>3, <1>4, SetLocal
<1>6. /\ proc[p].at = "activate.backup" /\ Keeps(p, {"copy", "link", "files", "active"})
      /\ Steady(p) /\ proc'[p].at = "activate.sync" /\ proc'[p].copy = disk.db
      /\ proc'[p].link = disk.link
      /\ proc'[p].files = [env |-> disk.env, caddy |-> disk.caddy, unit |-> disk.unit]
      /\ proc'[p].active = (up # None)
  BY <1>1, <1>2, <1>5 DEF Keeps, Fields, Steady, Local, ActivateBackup, At
<1>7. Path(proc'[p])
  <2>1. Onward(proc[p].at, proc'[p].at) BY <1>6 DEF Onward, ActivateLabels
  <2>2. QED BY <1>2, <1>6, <2>1, OnPath DEF Keeps, Fields
<1>8. Moves(p) BY <1>5, <1>6, <1>7 DEF Moves
<1>9. UNCHANGED <<codex, up, lock, counts, torn>> BY DEF ActivateBackup, At
<1>10. QED BY <1>6, <1>8, <1>9, ActivateBackupDisk

LEMMA ActivateSyncDoes ==
  ASSUME TypeOK, Placed, NEW p \in Procs, ActivateSync(p)
  PROVE  /\ Moves(p) /\ Goes(p, {"activate.sync"}, "activate.stop")
         /\ UNCHANGED <<codex, up, counts, torn>> /\ disk' \in Disk
         /\ DiskKeeps({"dirs", "caddy"})
         /\ disk'.dirs = [disk.dirs EXCEPT ![proc[p].target] = "ready"]
<1>1. Moves(p) /\ Goes(p, {"activate.sync"}, "activate.stop")
  BY GotoOnward DEF ActivateSync, Writes, At, Goes, Onward, ActivateLabels
<1>2. UNCHANGED <<codex, up, counts, torn>> BY DEF ActivateSync, Writes, At
<1>3. QED BY <1>1, <1>2, ActivateSyncDisk

LEMMA ActivateStopDoes ==
  ASSUME TypeOK, Placed, NEW p \in Procs, ActivateStop(p)
  PROVE  /\ Moves(p)
         /\ Goes(p, {"activate.stop"}, IF up = None THEN "activate.legacy"
                ELSE "activate.refresh")
         /\ up' = None /\ UNCHANGED <<disk, codex, counts, torn>>
<1>1. /\ Moves(p)
      /\ Goes(p, {"activate.stop"}, IF up = None THEN "activate.legacy" ELSE "activate.refresh")
  BY GotoOnward DEF ActivateStop, Runs, At, Goes, Onward, ActivateLabels
<1>2. up' = None /\ UNCHANGED <<disk, codex, counts, torn>>
  BY DEF ActivateStop, Runs, At, Stopping
<1>3. QED BY <1>1, <1>2

LEMMA ActivateRefreshDoes ==
  ASSUME TypeOK, Placed, NEW p \in Procs, ActivateRefresh(p)
  PROVE  /\ Moves(p) /\ proc[p].at = "activate.refresh" /\ Keeps(p, {"copy"})
         /\ proc'[p].at = "activate.legacy" /\ proc'[p].copy = disk.db
         /\ UNCHANGED <<codex, up, lock, counts, torn>> /\ disk' \in Disk
         /\ DiskKeeps({"backups"}) /\ disk'.backups = disk.backups \cup {disk.db}
<1>1. proc \in [Procs -> Local] /\ proc[p] \in Local /\ Path(proc[p]) BY DEF Placed
<1> DEFINE l == [proc[p] EXCEPT !.at = "activate.legacy", !.copy = disk.db]
<1>2. l \in Local
  <2>1. "activate.legacy" \in Labels BY DEF Labels, ActivateLabels
  <2>2. disk.db \in Database
    BY DEF TypeOK, Disk
  <2>3. QED BY <1>1, <2>1, <2>2 DEF Local
<1>3. proc' = [proc EXCEPT ![p] = l] BY <1>1 DEF ActivateRefresh
<1>4. proc' \in [Procs -> Local] /\ Framed(p) /\ proc'[p] = l BY <1>1, <1>2, <1>3, SetLocal
<1>5. /\ proc[p].at = "activate.refresh" /\ Keeps(p, {"copy"}) /\ Steady(p)
      /\ proc'[p].at = "activate.legacy" /\ proc'[p].copy = disk.db
  BY <1>1, <1>4 DEF Keeps, Fields, Steady, Local, ActivateRefresh, At
<1>6. Path(proc'[p])
  <2>1. Onward(proc[p].at, proc'[p].at) BY <1>5 DEF Onward, ActivateLabels
  <2>2. QED BY <1>1, <1>5, <2>1, OnPath DEF Keeps, Fields
<1>7. Moves(p) BY <1>4, <1>5, <1>6 DEF Moves
<1>8. UNCHANGED <<codex, up, lock, counts, torn>> BY DEF ActivateRefresh, At
<1>9. QED BY <1>5, <1>7, <1>8, ActivateRefreshDisk

LEMMA ActivateLegacyDoes ==
  ASSUME TypeOK, Placed, NEW p \in Procs, ActivateLegacy(p)
  PROVE  /\ Moves(p)
         /\ \/ Goes(p, {"activate.legacy"}, "activate.switch")
            \/ Goes(p, {"activate.legacy"}, "activate.switch")
         /\ UNCHANGED <<codex, up, counts, torn>> /\ disk' \in Disk /\ DiskKeeps({"db"})
         /\ disk'.db = disk.db \/ disk.db.rows \subseteq {Foreign}
<1>1. /\ Moves(p)
      /\ \/ Goes(p, {"activate.legacy"}, "activate.switch")
         \/ Goes(p, {"activate.legacy"}, "activate.switch")
  BY GotoOnward DEF ActivateLegacy, Looks, Writes, At, Goes, Onward, ActivateLabels
<1>2. UNCHANGED <<codex, up, counts, torn>> BY DEF ActivateLegacy, Looks, Writes, At
<1>3. QED BY <1>1, <1>2, ActivateLegacyDisk

LEMMA ActivateSwitchDoes ==
  ASSUME TypeOK, Placed, NEW p \in Procs, ActivateSwitch(p)
  PROVE  /\ Moves(p) /\ Goes(p, {"activate.switch"}, "activate.files")
         /\ UNCHANGED <<codex, up, counts, torn>> /\ disk' \in Disk /\ DiskKeeps({"link"})
         /\ disk'.link = proc[p].target
<1>1. Moves(p) /\ Goes(p, {"activate.switch"}, "activate.files")
  BY GotoOnward DEF ActivateSwitch, Writes, At, Goes, Onward, ActivateLabels
<1>2. UNCHANGED <<codex, up, counts, torn>> BY DEF ActivateSwitch, Writes, At
<1>3. QED BY <1>1, <1>2, ActivateSwitchDisk

LEMMA ActivateFilesDoes ==
  ASSUME TypeOK, Placed, NEW p \in Procs, ActivateFiles(p)
  PROVE  /\ Moves(p) /\ Goes(p, {"activate.files"}, "activate.restart")
         /\ UNCHANGED <<codex, up, counts, torn>> /\ disk' \in Disk
         /\ DiskKeeps({"env", "unit"}) /\ disk'.env = disk.wanted /\ disk'.unit = "managed"
<1>1. Moves(p) /\ Goes(p, {"activate.files"}, "activate.restart")
  BY GotoOnward DEF ActivateFiles, Writes, At, Goes, Onward, ActivateLabels
<1>2. UNCHANGED <<codex, up, counts, torn>> BY DEF ActivateFiles, Writes, At
<1>3. QED BY <1>1, <1>2, ActivateFilesDisk

LEMMA ActivateRestartDoes ==
  ASSUME TypeOK, Placed, NEW p \in Procs, ActivateRestart(p)
  PROVE  /\ Moves(p) /\ Goes(p, {"activate.restart"}, "activate.check") /\ up' \in Starting
         /\ UNCHANGED <<disk, codex, counts, torn>>
<1>1. Moves(p) /\ Goes(p, {"activate.restart"}, "activate.check")
  BY GotoOnward DEF ActivateRestart, Runs, At, Goes, Onward, ActivateLabels
<1>2. up' \in Starting /\ UNCHANGED <<disk, codex, counts, torn>>
  BY DEF ActivateRestart, Runs, At
<1>3. QED BY <1>1, <1>2

LEMMA ActivateCheckDoes ==
  ASSUME TypeOK, Placed, NEW p \in Procs, ActivateCheck(p)
  PROVE  /\ Moves(p) /\ Goes(p, {"activate.check"}, "activate.publish") /\ up # None
         /\ UNCHANGED <<disk, codex, up, counts, torn>>
<1>1. Moves(p) /\ Goes(p, {"activate.check"}, "activate.publish")
  BY GotoOnward DEF ActivateCheck, Looks, At, Goes, Onward, ActivateLabels
<1>2. up # None /\ UNCHANGED <<disk, codex, up, counts, torn>> BY DEF ActivateCheck, Looks, At
<1>3. QED BY <1>1, <1>2

LEMMA ActivatePublishDoes ==
  ASSUME TypeOK, Placed, NEW p \in Procs, ActivatePublish(p)
  PROVE  /\ Moves(p) /\ Goes(p, {"activate.publish"}, "activate.receipt")
         /\ UNCHANGED <<codex, up, counts, torn>> /\ disk' \in Disk /\ DiskKeeps({"inst"})
         /\ disk'.inst.version = Version[proc[p].target]
<1>1. Moves(p) /\ Goes(p, {"activate.publish"}, "activate.receipt")
  BY GotoOnward DEF ActivatePublish, Writes, At, Goes, Onward, ActivateLabels
<1>2. UNCHANGED <<codex, up, counts, torn>> BY DEF ActivatePublish, Writes, At
<1>3. QED BY <1>1, <1>2, ActivatePublishDisk

LEMMA ActivateReceiptDoes ==
  ASSUME TypeOK, Placed, NEW p \in Procs, ActivateReceipt(p)
  PROVE  /\ Moves(p) /\ Goes(p, {"activate.receipt"}, "return")
         /\ UNCHANGED <<codex, up, counts, torn>> /\ disk' \in Disk
         /\ DiskKeeps({"receipt"})
<1>1. Moves(p) /\ Goes(p, {"activate.receipt"}, "return")
  BY GotoOnward DEF ActivateReceipt, Writes, At, Goes, Onward, ActivateLabels
<1>2. UNCHANGED <<codex, up, counts, torn>> BY DEF ActivateReceipt, Writes, At
<1>3. QED BY <1>1, <1>2, ActivateReceiptDisk

LEMMA ActivateRaisesDoes ==
  ASSUME TypeOK, Placed, NEW p \in Procs, ActivateRaises(p)
  PROVE  /\ Moves(p)
         /\ \/ proc[p].at \in {"activate.stage", "activate.backup"} /\ Ends(p)
            \/ Goes(p, {"activate.sync", "activate.stop", "activate.refresh", "activate.legacy",
                        "activate.switch", "activate.files", "activate.restart",
                        "activate.check"}, "deactivate.stop")
            \/ proc[p].at \in {"activate.publish", "activate.receipt"} /\ Ends(p)
         /\ (torn => torn') /\ torn' \in BOOLEAN
         /\ proc[p].at \in {"activate.publish", "activate.receipt"} => torn' = TRUE
         /\ UNCHANGED <<disk, codex, up, counts>>
<1>1. /\ Moves(p)
      /\ \/ proc[p].at \in {"activate.stage", "activate.backup"} /\ Ends(p)
         \/ Goes(p, {"activate.sync", "activate.stop", "activate.refresh", "activate.legacy",
                     "activate.switch", "activate.files", "activate.restart", "activate.check"},
                 "deactivate.stop")
         \/ proc[p].at \in {"activate.publish", "activate.receipt"} /\ Ends(p)
  <2>1. CASE \E label \in {"activate.stage", "activate.backup"} : Returns(p, label)
    <3>1. Leave(p) /\ proc[p].at \in {"activate.stage", "activate.backup"}
      BY <2>1 DEF Returns, At
    <3>2. QED BY <3>1, LeaveRests DEF Ends, Leave
  <2>2. CASE \E label \in {"activate.sync", "activate.stop", "activate.refresh",
                           "activate.legacy",
                   "activate.switch", "activate.files", "activate.restart", "activate.check"} :
               Looks(p, label, "deactivate.stop")
    <3>1. proc[p].at \in {"activate.sync", "activate.stop", "activate.refresh", "activate.legacy",
                   "activate.switch", "activate.files", "activate.restart", "activate.check"}
          /\ Goto(p, "deactivate.stop") /\ lock' = lock
      BY <2>2 DEF Looks, At
    <3>2. Onward(proc[p].at, "deactivate.stop") BY <3>1 DEF Onward, ActivateLabels
    <3>3. Moves(p) /\ proc'[p].at = "deactivate.stop" /\ Keeps(p, {})
      BY <3>1, <3>2, GotoOnward
    <3>4. Goes(p, {"activate.sync", "activate.stop", "activate.refresh", "activate.legacy",
                   "activate.switch", "activate.files", "activate.restart", "activate.check"},
               "deactivate.stop")
      BY <3>1, <3>3 DEF Goes
    <3>5. QED BY <3>3, <3>4
  <2>3. CASE \E label \in {"activate.publish", "activate.receipt"} : Escapes(p, label)
    <3>1. Leave(p) /\ proc[p].at \in {"activate.publish", "activate.receipt"}
      BY <2>3 DEF Escapes, At
    <3>2. QED BY <3>1, LeaveRests DEF Ends, Leave
  <2>4. QED BY <2>1, <2>2, <2>3 DEF ActivateRaises
<1>2. /\ (torn => torn') /\ torn' \in BOOLEAN
      /\ proc[p].at \in {"activate.publish", "activate.receipt"} => torn' = TRUE
      /\ UNCHANGED <<disk, codex, up, counts>>
  BY DEF ActivateRaises, Returns, Looks, Escapes, At, TypeOK
<1>3. QED BY <1>1, <1>2

LEMMA DeactivateStopDoes ==
  ASSUME TypeOK, Placed, NEW p \in Procs, DeactivateStop(p)
  PROVE  /\ Moves(p) /\ Goes(p, {"deactivate.stop"}, "deactivate.link")
         /\ up' \in (IF disk.unit = "managed" THEN Stopping ELSE {up})
         /\ UNCHANGED <<disk, codex, counts, torn>>
<1>1. Moves(p) /\ Goes(p, {"deactivate.stop"}, "deactivate.link")
  BY GotoOnward DEF DeactivateStop, Runs, At, Goes, Onward, ActivateLabels
<1>2. /\ up' \in (IF disk.unit = "managed" THEN Stopping ELSE {up})
      /\ UNCHANGED <<disk, codex, counts, torn>>
  BY DEF DeactivateStop, Runs, At
<1>3. QED BY <1>1, <1>2

LEMMA DeactivateLinkDoes ==
  ASSUME TypeOK, Placed, NEW p \in Procs, DeactivateLink(p)
  PROVE  /\ Moves(p) /\ Goes(p, {"deactivate.link"}, "deactivate.files")
         /\ UNCHANGED <<codex, up, counts, torn>> /\ disk' \in Disk /\ DiskKeeps({"link"})
         /\ disk'.link = proc[p].link
<1>1. Moves(p) /\ Goes(p, {"deactivate.link"}, "deactivate.files")
  BY GotoOnward DEF DeactivateLink, Writes, At, Goes, Onward, ActivateLabels
<1>2. UNCHANGED <<codex, up, counts, torn>> BY DEF DeactivateLink, Writes, At
<1>3. QED BY <1>1, <1>2, DeactivateLinkDisk

LEMMA DeactivateFilesDoes ==
  ASSUME TypeOK, Placed, NEW p \in Procs, DeactivateFiles(p)
  PROVE  /\ Moves(p)
         /\ Goes(p, {"deactivate.files"}, IF proc[p].active THEN "deactivate.start"
                ELSE "deactivate.receipt")
         /\ UNCHANGED <<codex, up, counts, torn>> /\ disk' \in Disk
         /\ DiskKeeps({"db", "env", "caddy", "unit"}) /\ disk'.db = proc[p].copy
         /\ disk'.env = proc[p].files.env /\ disk'.caddy = proc[p].files.caddy
         /\ disk'.unit = proc[p].files.unit
<1>1. /\ Moves(p)
      /\ Goes(p, {"deactivate.files"}, IF proc[p].active THEN "deactivate.start"
             ELSE "deactivate.receipt")
  BY GotoOnward DEF DeactivateFiles, Writes, At, Goes, Onward, ActivateLabels
<1>2. UNCHANGED <<codex, up, counts, torn>> BY DEF DeactivateFiles, Writes, At
<1>3. QED BY <1>1, <1>2, DeactivateFilesDisk

LEMMA DeactivateStartDoes ==
  ASSUME TypeOK, Placed, NEW p \in Procs, DeactivateStart(p)
  PROVE  /\ Moves(p) /\ Goes(p, {"deactivate.start"}, "deactivate.receipt")
         /\ up' \in Starting /\ UNCHANGED <<disk, codex, counts, torn>>
<1>1. Moves(p) /\ Goes(p, {"deactivate.start"}, "deactivate.receipt")
  BY GotoOnward DEF DeactivateStart, Runs, At, Goes, Onward, ActivateLabels
<1>2. up' \in Starting /\ UNCHANGED <<disk, codex, counts, torn>>
  BY DEF DeactivateStart, Runs, At
<1>3. QED BY <1>1, <1>2

LEMMA DeactivateReceiptDoes ==
  ASSUME TypeOK, Placed, NEW p \in Procs, DeactivateReceipt(p)
  PROVE  /\ Moves(p) /\ Goes(p, {"deactivate.receipt"}, "return")
         /\ UNCHANGED <<codex, up, counts, torn>> /\ disk' \in Disk
         /\ DiskKeeps({"receipt"})
<1>1. Moves(p) /\ Goes(p, {"deactivate.receipt"}, "return")
  BY GotoOnward DEF DeactivateReceipt, Writes, At, Goes, Onward, ActivateLabels
<1>2. UNCHANGED <<codex, up, counts, torn>> BY DEF DeactivateReceipt, Writes, At
<1>3. QED BY <1>1, <1>2, DeactivateReceiptDisk

LEMMA DeactivateRaisesDoes ==
  ASSUME TypeOK, Placed, NEW p \in Procs, DeactivateRaises(p)
  PROVE  /\ Moves(p)
         /\ proc[p].at \in {"deactivate.stop", "deactivate.link", "deactivate.files",
                            "deactivate.start"}
         /\ Ends(p) /\ torn' = TRUE /\ UNCHANGED <<codex, up, counts>> /\ disk' \in Disk
         /\ DiskKeeps({"receipt"})
<1>1. /\ Moves(p)
      /\ proc[p].at \in {"deactivate.stop", "deactivate.link", "deactivate.files",
                         "deactivate.start"}
      /\ Ends(p)
  BY LeaveRests DEF DeactivateRaises, At, Ends, Leave
<1>2. torn' = TRUE /\ UNCHANGED <<codex, up, counts>> BY DEF DeactivateRaises, At
<1>3. QED BY <1>1, <1>2, DeactivateRaisesDisk

LEMMA ConfigureEnvDoes ==
  ASSUME TypeOK, Placed, NEW p \in Procs, ConfigureEnv(p)
  PROVE  /\ Moves(p) /\ Goes(p, {"configure.env"}, "configure.caddy")
         /\ UNCHANGED <<codex, up, counts, torn>> /\ disk' \in Disk /\ DiskKeeps({"env"})
         /\ disk'.env = proc[p].domain
<1>1. Moves(p) /\ Goes(p, {"configure.env"}, "configure.caddy")
  BY GotoOnward DEF ConfigureEnv, Writes, At, Goes, Onward, ConfigureLabels
<1>2. UNCHANGED <<codex, up, counts, torn>> BY DEF ConfigureEnv, Writes, At
<1>3. QED BY <1>1, <1>2, ConfigureEnvDisk

LEMMA ConfigureCaddyDoes ==
  ASSUME TypeOK, Placed, NEW p \in Procs, ConfigureCaddy(p)
  PROVE  /\ Moves(p) /\ Goes(p, {"configure.caddy"}, "configure.restart")
         /\ UNCHANGED <<codex, up, counts, torn>> /\ disk' \in Disk /\ DiskKeeps({"caddy"})
         /\ disk'.caddy = proc[p].domain
<1>1. Moves(p) /\ Goes(p, {"configure.caddy"}, "configure.restart")
  BY GotoOnward DEF ConfigureCaddy, Writes, At, Goes, Onward, ConfigureLabels
<1>2. UNCHANGED <<codex, up, counts, torn>> BY DEF ConfigureCaddy, Writes, At
<1>3. QED BY <1>1, <1>2, ConfigureCaddyDisk

LEMMA ConfigureRestartDoes ==
  ASSUME TypeOK, Placed, NEW p \in Procs, ConfigureRestart(p)
  PROVE  /\ Moves(p) /\ Goes(p, {"configure.restart"}, "configure.publish")
         /\ up' \in Starting /\ UNCHANGED <<disk, codex, counts, torn>>
<1>1. Moves(p) /\ Goes(p, {"configure.restart"}, "configure.publish")
  BY GotoOnward DEF ConfigureRestart, Runs, At, Goes, Onward, ConfigureLabels
<1>2. up' \in Starting /\ UNCHANGED <<disk, codex, counts, torn>>
  BY DEF ConfigureRestart, Runs, At
<1>3. QED BY <1>1, <1>2

LEMMA ConfigurePublishDoes ==
  ASSUME TypeOK, Placed, NEW p \in Procs, ConfigurePublish(p)
  PROVE  /\ Moves(p) /\ Goes(p, {"configure.publish"}, "return")
         /\ UNCHANGED <<codex, up, counts, torn>> /\ disk' \in Disk /\ DiskKeeps({"inst"})
         /\ disk'.inst.domain = proc[p].domain
<1>1. Moves(p) /\ Goes(p, {"configure.publish"}, "return")
  BY GotoOnward DEF ConfigurePublish, Writes, At, Goes, Onward, ConfigureLabels
<1>2. UNCHANGED <<codex, up, counts, torn>> BY DEF ConfigurePublish, Writes, At
<1>3. QED BY <1>1, <1>2, ConfigurePublishDisk

LEMMA ConfigureFailsDoes ==
  ASSUME TypeOK, Placed, NEW p \in Procs, ConfigureFails(p)
  PROVE  /\ Moves(p) /\ Goes(p, {"configure.restart"}, "configure.undo")
         /\ UNCHANGED <<disk, codex, up, counts, torn>>
<1>1. Moves(p) /\ Goes(p, {"configure.restart"}, "configure.undo")
  BY GotoOnward DEF ConfigureFails, Looks, At, Goes, Onward, ConfigureLabels
<1>2. UNCHANGED <<disk, codex, up, counts, torn>> BY DEF ConfigureFails, Looks, At
<1>3. QED BY <1>1, <1>2

LEMMA ConfigureUndoDoes ==
  ASSUME TypeOK, Placed, NEW p \in Procs, ConfigureUndo(p)
  PROVE  /\ Moves(p)
         /\ Goes(p, {"configure.undo"}, IF proc[p].active THEN "configure.again" ELSE "return")
         /\ UNCHANGED <<codex, up, counts, torn>> /\ disk' \in Disk
         /\ DiskKeeps({"env", "caddy"}) /\ disk'.env = proc[p].files.env
         /\ disk'.caddy = proc[p].files.caddy
<1>1. /\ Moves(p)
      /\ Goes(p, {"configure.undo"}, IF proc[p].active THEN "configure.again" ELSE "return")
  BY GotoOnward DEF ConfigureUndo, Writes, At, Goes, Onward, ConfigureLabels
<1>2. UNCHANGED <<codex, up, counts, torn>> BY DEF ConfigureUndo, Writes, At
<1>3. QED BY <1>1, <1>2, ConfigureUndoDisk

LEMMA ConfigureAgainDoes ==
  ASSUME TypeOK, Placed, NEW p \in Procs, ConfigureAgain(p)
  PROVE  /\ Moves(p) /\ Goes(p, {"configure.again"}, "return") /\ up' \in Starting
         /\ UNCHANGED <<disk, codex, counts, torn>>
<1>1. Moves(p) /\ Goes(p, {"configure.again"}, "return")
  BY GotoOnward DEF ConfigureAgain, Runs, At, Goes, Onward, ConfigureLabels
<1>2. up' \in Starting /\ UNCHANGED <<disk, codex, counts, torn>> BY DEF ConfigureAgain, Runs, At
<1>3. QED BY <1>1, <1>2

LEMMA ConfigureRaisesDoes ==
  ASSUME TypeOK, Placed, NEW p \in Procs, ConfigureRaises(p)
  PROVE  /\ Moves(p)
         /\ \/ proc[p].at \in {"configure.env"} /\ Ends(p)
            \/ proc[p].at \in {"configure.caddy", "configure.publish",
                               "configure.undo"} /\ Ends(p)
         /\ (torn => torn') /\ torn' \in BOOLEAN
         /\ proc[p].at \in {"configure.caddy", "configure.publish",
                            "configure.undo"} => torn' = TRUE
         /\ UNCHANGED <<disk, codex, up, counts>>
<1>1. /\ Moves(p)
      /\ \/ proc[p].at \in {"configure.env"} /\ Ends(p)
         \/ proc[p].at \in {"configure.caddy", "configure.publish", "configure.undo"} /\ Ends(p)
  BY LeaveRests DEF ConfigureRaises, Returns, Escapes, At, Ends, Leave
<1>2. /\ (torn => torn') /\ torn' \in BOOLEAN
      /\ proc[p].at \in {"configure.caddy", "configure.publish", "configure.undo"} => torn' = TRUE
      /\ UNCHANGED <<disk, codex, up, counts>>
  BY DEF ConfigureRaises, Returns, Escapes, At, TypeOK
<1>3. QED BY <1>1, <1>2

LEMMA UninstallLockDoes ==
  ASSUME TypeOK, Placed, NEW p \in Procs, UninstallLock(p)
  PROVE  /\ Moves(p) /\ proc[p].at = "uninstall.lock" /\ Keeps(p, {"active"})
         /\ proc'[p].at = "uninstall.stop" /\ proc'[p].active = (up # None)
         /\ lock = None /\ lock' = p /\ UNCHANGED <<disk, codex, up, counts, torn>>
<1>1. PICK flag \in BOOLEAN : flag = (up # None) OBVIOUS
<1>2. proc \in [Procs -> Local] /\ proc[p] \in Local /\ Path(proc[p]) BY DEF Placed
<1> DEFINE l == [proc[p] EXCEPT !.at = "uninstall.stop", !.active = flag]
<1>3. l \in Local
  <2>1. "uninstall.stop" \in Labels BY DEF Labels, UninstallLabels
  <2>2. QED BY <1>2, <2>1 DEF Local
<1>4. proc' = [proc EXCEPT ![p] = l] BY <1>1, <1>2 DEF UninstallLock
<1>5. proc' \in [Procs -> Local] /\ Framed(p) /\ proc'[p] = l BY <1>2, <1>3, <1>4, SetLocal
<1>6. /\ proc[p].at = "uninstall.lock" /\ Keeps(p, {"active"}) /\ Steady(p)
      /\ proc'[p].at = "uninstall.stop" /\ proc'[p].active = (up # None)
  BY <1>1, <1>2, <1>5 DEF Keeps, Fields, Steady, Local, UninstallLock, At
<1>7. Path(proc'[p])
  <2>1. Onward(proc[p].at, proc'[p].at) BY <1>6 DEF Onward, UninstallLabels
  <2>2. QED BY <1>2, <1>6, <2>1, OnPath DEF Keeps, Fields
<1>8. Moves(p) BY <1>5, <1>6, <1>7 DEF Moves
<1>9. lock = None /\ lock' = p /\ UNCHANGED <<disk, codex, up, counts, torn>>
  BY DEF UninstallLock, At
<1>10. QED BY <1>6, <1>8, <1>9

LEMMA UninstallRefusedDoes ==
  ASSUME TypeOK, Placed, NEW p \in Procs, UninstallRefused(p)
  PROVE  /\ Moves(p)
         /\ \/ proc[p].at \in {"uninstall.lock"} /\ Ends(p)
            \/ proc[p].at \in {"uninstall.stop"} /\ Ends(p)
         /\ UNCHANGED <<disk, codex, up, counts, torn>>
<1>1. /\ Moves(p)
      /\ \/ proc[p].at \in {"uninstall.lock"} /\ Ends(p)
         \/ proc[p].at \in {"uninstall.stop"} /\ Ends(p)
  BY LeaveRests DEF UninstallRefused, Returns, At, Ends, Leave
<1>2. UNCHANGED <<disk, codex, up, counts, torn>> BY DEF UninstallRefused, Returns, At
<1>3. QED BY <1>1, <1>2

LEMMA UninstallStopDoes ==
  ASSUME TypeOK, Placed, NEW p \in Procs, UninstallStop(p)
  PROVE  /\ Moves(p) /\ Goes(p, {"uninstall.stop"}, "uninstall.export") /\ up' = None
         /\ UNCHANGED <<disk, codex, counts, torn>>
<1>1. Moves(p) /\ Goes(p, {"uninstall.stop"}, "uninstall.export")
  BY GotoOnward DEF UninstallStop, Runs, At, Goes, Onward, UninstallLabels
<1>2. up' = None /\ UNCHANGED <<disk, codex, counts, torn>>
  BY DEF UninstallStop, Runs, At, Stopping
<1>3. QED BY <1>1, <1>2

LEMMA UninstallExportDoes ==
  ASSUME TypeOK, Placed, NEW p \in Procs, UninstallExport(p)
  PROVE  /\ Moves(p) /\ Goes(p, {"uninstall.export"}, "uninstall.disable")
         /\ UNCHANGED <<codex, up, counts, torn>> /\ disk' \in Disk
         /\ DiskKeeps({"backups"})
         /\ disk'.backups = IF proc[p].copied /\ disk.db.schema # 0
                             THEN disk.backups \cup {disk.db} ELSE disk.backups
<1>1. Moves(p) /\ Goes(p, {"uninstall.export"}, "uninstall.disable")
  BY GotoOnward DEF UninstallExport, Writes, At, Goes, Onward, UninstallLabels
<1>2. UNCHANGED <<codex, up, counts, torn>> BY DEF UninstallExport, Writes, At
<1>3. QED BY <1>1, <1>2, UninstallExportDisk

LEMMA UninstallExportFailsDoes ==
  ASSUME TypeOK, Placed, NEW p \in Procs, UninstallExportFails(p)
  PROVE  /\ Moves(p)
         /\ Goes(p, {"uninstall.export"}, IF proc[p].active THEN "uninstall.resume" ELSE "return")
         /\ UNCHANGED <<disk, codex, up, counts, torn>>
<1>1. /\ Moves(p)
      /\ Goes(p, {"uninstall.export"}, IF proc[p].active THEN "uninstall.resume" ELSE "return")
  BY GotoOnward DEF UninstallExportFails, Looks, At, Goes, Onward, UninstallLabels
<1>2. UNCHANGED <<disk, codex, up, counts, torn>> BY DEF UninstallExportFails, Looks, At
<1>3. QED BY <1>1, <1>2

LEMMA UninstallResumeDoes ==
  ASSUME TypeOK, Placed, NEW p \in Procs, UninstallResume(p)
  PROVE  /\ Moves(p) /\ Goes(p, {"uninstall.resume"}, "return") /\ up' \in Starting
         /\ UNCHANGED <<disk, codex, counts, torn>>
<1>1. Moves(p) /\ Goes(p, {"uninstall.resume"}, "return")
  BY GotoOnward DEF UninstallResume, Runs, At, Goes, Onward, UninstallLabels
<1>2. up' \in Starting /\ UNCHANGED <<disk, codex, counts, torn>>
  BY DEF UninstallResume, Runs, At
<1>3. QED BY <1>1, <1>2

LEMMA UninstallDisableDoes ==
  ASSUME TypeOK, Placed, NEW p \in Procs, UninstallDisable(p)
  PROVE  /\ Moves(p) /\ Goes(p, {"uninstall.disable"}, "uninstall.remove") /\ up' = None
         /\ UNCHANGED <<disk, counts, torn>> /\ codex' \in Companion
         /\ CodexKeeps({"running"})
<1>1. Moves(p) /\ Goes(p, {"uninstall.disable"}, "uninstall.remove")
  BY GotoOnward DEF UninstallDisable, At, Goes, Onward, UninstallLabels
<1>2. codex \in Companion BY DEF TypeOK
<1>3. codex' \in Companion /\ CodexKeeps({"running"})
  BY <1>2, LocalTypes DEF UninstallDisable, At, CodexKeeps, CodexFields, Companion
<1>4. up' = None /\ UNCHANGED <<disk, counts, torn>> BY DEF UninstallDisable, At, Stopping
<1>5. QED BY <1>1, <1>3, <1>4

LEMMA UninstallRemoveDoes ==
  ASSUME TypeOK, Placed, NEW p \in Procs, UninstallRemove(p)
  PROVE  /\ Moves(p)
         /\ Goes(p, {"uninstall.remove"}, IF proc[p].published THEN "uninstall.purge"
                ELSE "return")
         /\ UNCHANGED <<up, counts, torn>> /\ codex' \in Companion
         /\ CodexKeeps({"runtime", "link", "unit", "desired", "state", "digest"})
         /\ disk' \in Disk /\ DiskKeeps({"unit", "env", "caddy", "link", "dirs"})
<1>1. /\ Moves(p)
      /\ Goes(p, {"uninstall.remove"}, IF proc[p].published THEN "uninstall.purge" ELSE "return")
  BY GotoOnward DEF UninstallRemove, At, Goes, Onward, UninstallLabels
<1>2. codex \in Companion BY DEF TypeOK
<1>3. PICK desired \in BOOLEAN, unit \in BOOLEAN, state \in {"none", "complete",
                                                             "failed"}, digest \in Nat :
        codex' = [codex EXCEPT !.runtime = 0, !.link = FALSE, !.unit = unit, !.desired = desired,
                               !.state = state, !.digest = digest]
  <2> DEFINE gone    == proc[p].codex.state # "none"
             unit    == IF proc[p].codex.unit THEN FALSE ELSE codex.unit
             desired == IF gone THEN FALSE ELSE codex.desired
             state   == IF gone THEN "none" ELSE codex.state
             digest  == IF gone THEN 0 ELSE codex.digest
  <2>1. codex.desired \in BOOLEAN /\ codex.unit \in BOOLEAN /\ codex.digest \in Nat
        /\ codex.state \in {"none", "complete", "failed"}
    BY <1>2 DEF Companion
  <2>2. /\ unit \in BOOLEAN /\ desired \in BOOLEAN /\ digest \in Nat
        /\ state \in {"none", "complete", "failed"}
    BY <2>1
  <2>3. codex' = [codex EXCEPT !.runtime = 0, !.link = FALSE, !.unit = unit,
                               !.desired = desired, !.state = state, !.digest = digest]
    BY DEF UninstallRemove
  <2> HIDE DEF unit, desired, state, digest
  <2>4. QED BY <2>2, <2>3
<1>4. /\ codex' \in Companion
      /\ CodexKeeps({"runtime", "link", "unit", "desired", "state", "digest"})
  BY <1>2, <1>3 DEF CodexKeeps, CodexFields, Companion
<1>5. UNCHANGED <<up, counts, torn>> BY DEF UninstallRemove, At
<1>6. QED BY <1>1, <1>4, <1>5, UninstallRemoveDisk

LEMMA UninstallPurgeDoes ==
  ASSUME TypeOK, Placed, NEW p \in Procs, UninstallPurge(p)
  PROVE  /\ Moves(p) /\ Goes(p, {"uninstall.purge"}, "return")
         /\ UNCHANGED <<codex, up, counts, torn>> /\ disk' \in Disk
         /\ DiskKeeps({"db", "inst", "receipt", "staged", "pending", "wanted", "fragment"})
         /\ disk'.db = IF proc[p].staged.schema # 0 THEN NoDatabase ELSE disk.db
<1>1. Moves(p) /\ Goes(p, {"uninstall.purge"}, "return")
  BY GotoOnward DEF UninstallPurge, Writes, At, Goes, Onward, UninstallLabels
<1>2. UNCHANGED <<codex, up, counts, torn>> BY DEF UninstallPurge, Writes, At
<1>3. QED BY <1>1, <1>2, UninstallPurgeDisk

LEMMA UninstallRaisesDoes ==
  ASSUME TypeOK, Placed, NEW p \in Procs, UninstallRaises(p)
  PROVE  /\ Moves(p) /\ proc[p].at \in {"uninstall.remove", "uninstall.purge"} /\ Ends(p)
         /\ torn' = TRUE /\ UNCHANGED <<disk, codex, up, counts>>
<1>1. Moves(p) /\ proc[p].at \in {"uninstall.remove", "uninstall.purge"} /\ Ends(p)
  BY LeaveRests DEF UninstallRaises, Escapes, At, Ends, Leave
<1>2. torn' = TRUE /\ UNCHANGED <<disk, codex, up, counts>> BY DEF UninstallRaises, Escapes, At
<1>3. QED BY <1>1, <1>2

\* What a new operation starts with.

(***************************************************************************)
(* How each operation begins: at which step, with or without the lock, and *)
(* with which locals.                                                      *)
(***************************************************************************)

Begun(p, op) ==
  /\ proc' \in [Procs -> Local] /\ Framed(p) /\ Path(proc'[p])
  /\ proc'[p].op = op /\ proc'[p].before = disk /\ (proc'[p].was => up # None)
  /\ op \in Kinds
  /\ UNCHANGED <<disk, codex, up, writes, crashes, torn>>
  /\ ops' = ops + 1 /\ ops < MaxOps

LEMMA BeginSets ==
  ASSUME TypeOK, NEW p \in Procs, NEW op \in Operations, NEW locals \in Local,
         Begin(p, op, locals)
  PROVE  /\ proc' \in [Procs -> Local] /\ Framed(p)
         /\ proc'[p].op = op /\ proc'[p].before = disk /\ proc'[p].at = locals.at
         /\ proc'[p].was => up # None
         /\ \A f \in Fields \ {"op", "was", "before"} : proc'[p][f] = locals[f]
<1>1. PICK flag \in BOOLEAN : flag = (up # None) OBVIOUS
<1> DEFINE l == [locals EXCEPT !.op = op, !.was = flag, !.before = disk]
<1>2. proc \in [Procs -> Local] /\ disk \in Disk BY DEF TypeOK
<1>3. l \in Local BY <1>2 DEF Local
<1>4. proc' = [proc EXCEPT ![p] = l] BY <1>1 DEF Begin
<1>5. proc' \in [Procs -> Local] /\ Framed(p) /\ proc'[p] = l BY <1>2, <1>3, <1>4, SetLocal
<1>6. QED BY <1>1, <1>5 DEF Fields, Local

\* A database that import and reset stage.
LEMMA FreshRaised ==
  ASSUME NEW r \in Releases, NEW rows \in SUBSET {Foreign}
  PROVE  /\ Raised([schema |-> 0, rows |-> rows], r) \in Database
         /\ Raised([schema |-> 0, rows |-> rows], r).schema = Schema[r]
<1>1. Schema[r] \in Nat \ {0} /\ 0 < Schema[r] BY HostAssumption
<1>2. Raised([schema |-> 0, rows |-> rows], r) = [schema |-> Schema[r], rows |-> rows]
  BY <1>1 DEF Raised
<1>3. rows \subseteq 0..MaxWrites BY HostAssumption DEF Foreign
<1>4. [schema |-> Schema[r], rows |-> rows] \in Database BY <1>1, <1>3 DEF Database
<1>5. QED BY <1>2, <1>4

LEMMA BeginUpdateDoes ==
  ASSUME TypeOK, Placed, NEW p \in Procs, BeginUpdate(p)
  PROVE  \E r \in Releases \ Checkouts :
           /\ Begun(p, "update") /\ disk.inst.mode = "managed"
           /\ Version[r] > disk.inst.version /\ lock = None /\ lock' = p
           /\ proc'[p].at = "unpack" /\ proc'[p].target = r /\ proc'[p].link = disk.link
           /\ proc'[p].inst = disk.inst /\ proc'[p].new.version = Version[r]
           /\ proc'[p].new.mode = disk.inst.mode /\ proc'[p].copied = FALSE
           /\ proc'[p].published = FALSE
<1>1. PICK r \in Releases \ Checkouts :
        /\ disk.inst.mode = "managed" /\ Version[r] > disk.inst.version
        /\ BeginLocked(p, "update", [Resting EXCEPT !.at = "unpack", !.target = r,
                                     !.link = disk.link, !.inst = disk.inst,
                                     !.new = [disk.inst EXCEPT !.version = Version[r],
                                              !.rel = r]])
  BY DEF BeginUpdate, Captured
<1> DEFINE locals == [Resting EXCEPT !.at = "unpack", !.target = r, !.link = disk.link,
                      !.inst = disk.inst, !.new = [disk.inst EXCEPT !.version = Version[r],
                                                   !.rel = r]]
<1>2. /\ disk \in Disk /\ codex \in Companion /\ up \in Releases \cup {None}
      /\ disk.link \in Releases \cup {None} /\ disk.inst \in Installation /\ disk.db \in Database
      /\ disk.receipt \in Receipt
  BY DEF TypeOK, Disk
<1>3. /\ [disk.inst EXCEPT !.version = Version[r], !.rel = r] \in Installation
      /\ [disk.inst EXCEPT !.version = Version[r], !.rel = r].version = Version[r]
      /\ [disk.inst EXCEPT !.version = Version[r], !.rel = r].mode = disk.inst.mode
  BY <1>1, <1>2, HostAssumption DEF Installation, Receipt
<1>4. locals \in Local
  BY RestingIsPlaced, <1>1, <1>2, <1>3, HostAssumption DEF Local, Labels, UpdateLabels
<1>5. /\ proc' \in [Procs -> Local] /\ Framed(p)
      /\ proc'[p].op = "update" /\ proc'[p].before = disk /\ proc'[p].at = locals.at
      /\ proc'[p].was => up # None
      /\ \A f \in Fields \ {"op", "was", "before"} : proc'[p][f] = locals[f]
  BY <1>1, <1>4, BeginSets DEF BeginLocked, Operations
<1>6. /\ proc'[p].target = r /\ proc'[p].link = disk.link /\ proc'[p].inst = disk.inst
      /\ proc'[p].new = [disk.inst EXCEPT !.version = Version[r], !.rel = r]
      /\ proc'[p].at = "unpack" /\ proc'[p].copied = FALSE /\ proc'[p].ret = "return"
      /\ proc'[p].published = FALSE
  <2>1. /\ locals.target = r /\ locals.link = disk.link /\ locals.inst = disk.inst
        /\ locals.new = [disk.inst EXCEPT !.version = Version[r], !.rel = r]
        /\ locals.at = "unpack" /\ locals.copied = FALSE /\ locals.ret = "return"
        /\ locals.published = FALSE
    BY DEF Resting
  <2>2. QED BY <1>5, <2>1 DEF Fields
<1>7. proc'[p].target \in Releases BY <1>1, <1>2, <1>6
<1>8. Path(proc'[p])
  BY <1>1, <1>5, <1>6, <1>7 DEF Path, Aimed, UpdateLabels, RollbackLabels, ReconcileLabels,
     EnableLabels, DatabaseLabels, MenuSteps, ActivateLabels, ConfigureLabels,
     UninstallLabels
<1>9. Begun(p, "update") /\ lock = None /\ lock' = p
  BY <1>1, <1>5, <1>8 DEF Begun, BeginLocked, Begin
<1>10. QED BY <1>1, <1>6, <1>9, <1>3

LEMMA BeginDeployDoes ==
  ASSUME TypeOK, Placed, NEW p \in Procs, BeginDeploy(p)
  PROVE  \E r \in Checkouts :
           /\ Begun(p, "deploy") /\ disk.inst.mode = "managed" /\ lock = None /\ lock' = p
           /\ proc'[p].at = "unpack" /\ proc'[p].target = r /\ proc'[p].link = disk.link
           /\ proc'[p].inst = disk.inst /\ proc'[p].new.version = Version[r]
           /\ proc'[p].new.mode = disk.inst.mode /\ proc'[p].copied = FALSE
           /\ proc'[p].published = FALSE
<1>1. PICK r \in Checkouts :
        /\ disk.inst.mode = "managed"
        /\ BeginLocked(p, "deploy", [Resting EXCEPT !.at = "unpack", !.target = r,
                                     !.link = disk.link, !.inst = disk.inst,
                                     !.new = [disk.inst EXCEPT !.version = Version[r],
                                              !.rel = r]])
  BY DEF BeginDeploy, Captured
<1> DEFINE locals == [Resting EXCEPT !.at = "unpack", !.target = r, !.link = disk.link,
                      !.inst = disk.inst, !.new = [disk.inst EXCEPT !.version = Version[r],
                                                   !.rel = r]]
<1>2. /\ disk \in Disk /\ codex \in Companion /\ up \in Releases \cup {None}
      /\ disk.link \in Releases \cup {None} /\ disk.inst \in Installation /\ disk.db \in Database
      /\ disk.receipt \in Receipt
  BY DEF TypeOK, Disk
<1>3. /\ [disk.inst EXCEPT !.version = Version[r], !.rel = r] \in Installation
      /\ [disk.inst EXCEPT !.version = Version[r], !.rel = r].version = Version[r]
      /\ [disk.inst EXCEPT !.version = Version[r], !.rel = r].mode = disk.inst.mode
  BY <1>1, <1>2, HostAssumption DEF Installation, Receipt
<1>4. locals \in Local
  BY RestingIsPlaced, <1>1, <1>2, <1>3, HostAssumption DEF Local, Labels, UpdateLabels
<1>5. /\ proc' \in [Procs -> Local] /\ Framed(p)
      /\ proc'[p].op = "deploy" /\ proc'[p].before = disk /\ proc'[p].at = locals.at
      /\ proc'[p].was => up # None
      /\ \A f \in Fields \ {"op", "was", "before"} : proc'[p][f] = locals[f]
  BY <1>1, <1>4, BeginSets DEF BeginLocked, Operations
<1>6. /\ proc'[p].target = r /\ proc'[p].link = disk.link /\ proc'[p].inst = disk.inst
      /\ proc'[p].new = [disk.inst EXCEPT !.version = Version[r], !.rel = r]
      /\ proc'[p].at = "unpack" /\ proc'[p].copied = FALSE /\ proc'[p].ret = "return"
      /\ proc'[p].published = FALSE
  <2>1. /\ locals.target = r /\ locals.link = disk.link /\ locals.inst = disk.inst
        /\ locals.new = [disk.inst EXCEPT !.version = Version[r], !.rel = r]
        /\ locals.at = "unpack" /\ locals.copied = FALSE /\ locals.ret = "return"
        /\ locals.published = FALSE
    BY DEF Resting
  <2>2. QED BY <1>5, <2>1 DEF Fields
<1>7. proc'[p].target \in Releases BY <1>1, <1>2, <1>6, HostAssumption
<1>8. Path(proc'[p])
  BY <1>1, <1>5, <1>6, <1>7 DEF Path, Aimed, UpdateLabels, RollbackLabels, ReconcileLabels,
     EnableLabels, DatabaseLabels, MenuSteps, ActivateLabels, ConfigureLabels,
     UninstallLabels
<1>9. Begun(p, "deploy") /\ lock = None /\ lock' = p
  BY <1>1, <1>5, <1>8 DEF Begun, BeginLocked, Begin
<1>10. QED BY <1>1, <1>6, <1>9, <1>3

LEMMA BeginRollbackDoes ==
  ASSUME TypeOK, Placed, NEW p \in Procs, BeginRollback(p)
  PROVE  /\ Begun(p, "rollback") /\ disk.receipt.op \in {"update", "deploy"}
         /\ disk.receipt.state = "complete" /\ disk.receipt.link # None
         /\ disk.dirs[disk.receipt.link] # "absent" /\ disk.inst.mode = "managed"
         /\ lock = None /\ lock' = p /\ proc'[p].at = "rollback.save"
         /\ proc'[p].target = disk.receipt.link /\ proc'[p].link = disk.link
         /\ proc'[p].inst = disk.inst /\ proc'[p].staged = disk.receipt.copy
         /\ proc'[p].new.version = disk.receipt.version
         /\ proc'[p].new.mode = disk.inst.mode /\ proc'[p].copied = FALSE
         /\ proc'[p].published = FALSE
<1>1. /\ disk.receipt.op \in {"update", "deploy"} /\ disk.receipt.state = "complete"
      /\ disk.receipt.link # None /\ disk.dirs[disk.receipt.link] # "absent"
      /\ disk.inst.mode = "managed"
      /\ BeginLocked(p, "rollback", [Resting EXCEPT !.at = "rollback.save",
                                     !.target = disk.receipt.link, !.link = disk.link,
                                     !.inst = disk.inst, !.staged = disk.receipt.copy,
                                     !.new = [disk.inst EXCEPT !.version = disk.receipt.version,
                                              !.rel = disk.receipt.rel]])
  BY DEF BeginRollback
<1>2. /\ disk \in Disk /\ codex \in Companion /\ up \in Releases \cup {None}
      /\ disk.link \in Releases \cup {None} /\ disk.inst \in Installation /\ disk.db \in Database
      /\ disk.receipt \in Receipt
  BY DEF TypeOK, Disk
<1>3. PICK v \in Nat, rel \in Releases \cup {None}, r \in Releases \cup {None}, c \in Database :
        /\ v = disk.receipt.version /\ rel = disk.receipt.rel
        /\ r = disk.receipt.link /\ c = disk.receipt.copy
  BY <1>2 DEF Receipt
<1>4. /\ [disk.inst EXCEPT !.version = v, !.rel = rel] \in Installation
      /\ [disk.inst EXCEPT !.version = v, !.rel = rel].version = v
      /\ [disk.inst EXCEPT !.version = v, !.rel = rel].mode = disk.inst.mode
  BY <1>2, <1>3 DEF Installation
<1>5. PICK i \in Installation : /\ i = [disk.inst EXCEPT !.version = v, !.rel = rel]
                               /\ i.version = v /\ i.mode = disk.inst.mode
  BY <1>4
<1> DEFINE first == [Resting EXCEPT !.at = "rollback.save", !.target = r, !.link = disk.link]
<1>6. /\ first \in Local /\ first.at = "rollback.save" /\ first.target = r /\ first.link = disk.link
      /\ first.copied = FALSE /\ first.ret = "return" /\ first.published = FALSE
  BY RestingIsPlaced, <1>2, <1>3 DEF Local, Labels, RollbackLabels, Resting
<1> DEFINE locals == [first EXCEPT !.inst = disk.inst, !.staged = c, !.new = i]
<1>7. BeginLocked(p, "rollback", locals) BY <1>1, <1>3, <1>5
<1> HIDE DEF first
<1>8. locals \in Local BY <1>2, <1>6, HostAssumption DEF Local
<1>9. /\ proc' \in [Procs -> Local] /\ Framed(p)
      /\ proc'[p].op = "rollback" /\ proc'[p].before = disk /\ proc'[p].at = locals.at
      /\ proc'[p].was => up # None
      /\ \A f \in Fields \ {"op", "was", "before"} : proc'[p][f] = locals[f]
  BY <1>7, <1>8, BeginSets DEF BeginLocked, Operations
<1>10. /\ locals.at = "rollback.save" /\ locals.target = r /\ locals.link = disk.link
      /\ locals.inst = disk.inst /\ locals.staged = c /\ locals.new = i
      /\ locals.copied = FALSE /\ locals.ret = "return" /\ locals.published = FALSE
  BY <1>6 DEF Local
<1> HIDE DEF locals
<1>11. /\ proc'[p].target = r /\ proc'[p].link = disk.link /\ proc'[p].inst = disk.inst
      /\ proc'[p].staged = c /\ proc'[p].new = i /\ proc'[p].at = "rollback.save"
      /\ proc'[p].copied = FALSE /\ proc'[p].ret = "return" /\ proc'[p].published = FALSE
  BY <1>9, <1>10 DEF Fields
<1>12. proc'[p].target \in Releases BY <1>7, <1>2, <1>11, <1>3, <1>1, HostAssumption
<1>13. Path(proc'[p])
  BY <1>7, <1>9, <1>11, <1>12 DEF Path, Aimed, UpdateLabels, RollbackLabels,
     ReconcileLabels, EnableLabels, DatabaseLabels, MenuSteps, ActivateLabels,
     ConfigureLabels, UninstallLabels
<1>14. Begun(p, "rollback") /\ lock = None /\ lock' = p
  BY <1>7, <1>9, <1>13 DEF Begun, BeginLocked, Begin
<1>15. QED BY <1>7, <1>11, <1>14, <1>1, <1>3, <1>5

LEMMA BeginEnableDoes ==
  ASSUME TypeOK, Placed, NEW p \in Procs, BeginEnable(p)
  PROVE  /\ Begun(p, "enable") /\ disk.link # None /\ lock = None /\ lock' = p
         /\ proc'[p].at = "stage.aside" /\ proc'[p].ret = "return"
         /\ proc'[p].target = disk.link /\ proc'[p].copied = FALSE
<1>1. /\ disk.link # None
      /\ BeginLocked(p, "enable", [Resting EXCEPT !.at = "stage.aside", !.ret = "return",
                                   !.target = disk.link])
  BY DEF BeginEnable
<1> DEFINE locals == [Resting EXCEPT !.at = "stage.aside", !.ret = "return", !.target = disk.link]
<1>2. /\ disk \in Disk /\ codex \in Companion /\ up \in Releases \cup {None}
      /\ disk.link \in Releases \cup {None} /\ disk.inst \in Installation /\ disk.db \in Database
      /\ disk.receipt \in Receipt
  BY DEF TypeOK, Disk
<1>3. locals \in Local
  BY RestingIsPlaced, <1>1, <1>2, HostAssumption DEF Local, Labels, ReconcileLabels
<1>4. /\ proc' \in [Procs -> Local] /\ Framed(p)
      /\ proc'[p].op = "enable" /\ proc'[p].before = disk /\ proc'[p].at = locals.at
      /\ proc'[p].was => up # None
      /\ \A f \in Fields \ {"op", "was", "before"} : proc'[p][f] = locals[f]
  BY <1>1, <1>3, BeginSets DEF BeginLocked, Operations
<1>5. /\ proc'[p].ret = "return" /\ proc'[p].target = disk.link
      /\ proc'[p].at = "stage.aside" /\ proc'[p].copied = FALSE
  <2>1. /\ locals.ret = "return" /\ locals.target = disk.link
        /\ locals.at = "stage.aside" /\ locals.copied = FALSE
    BY DEF Resting
  <2>2. QED BY <1>4, <2>1 DEF Fields
<1>6. proc'[p].target \in Releases BY <1>1, <1>2, <1>5, HostAssumption
<1>7. Path(proc'[p])
  BY <1>1, <1>4, <1>5, <1>6 DEF Path, Aimed, UpdateLabels, RollbackLabels, ReconcileLabels,
     EnableLabels, DatabaseLabels, MenuSteps, ActivateLabels, ConfigureLabels,
     UninstallLabels
<1>8. Begun(p, "enable") /\ lock = None /\ lock' = p
  BY <1>1, <1>4, <1>7 DEF Begun, BeginLocked, Begin
<1>9. QED BY <1>1, <1>5, <1>8

LEMMA BeginRepairDoes ==
  ASSUME TypeOK, Placed, NEW p \in Procs, BeginRepair(p)
  PROVE  /\ Begun(p, "repair") /\ disk.link # None /\ lock = None /\ lock' = p
         /\ proc'[p].at = "stage.aside" /\ proc'[p].ret = "return"
         /\ proc'[p].target = disk.link /\ proc'[p].copied = FALSE
<1>1. /\ disk.link # None
      /\ BeginLocked(p, "repair", [Resting EXCEPT !.at = "stage.aside", !.ret = "return",
                                   !.target = disk.link])
  BY DEF BeginRepair
<1> DEFINE locals == [Resting EXCEPT !.at = "stage.aside", !.ret = "return", !.target = disk.link]
<1>2. /\ disk \in Disk /\ codex \in Companion /\ up \in Releases \cup {None}
      /\ disk.link \in Releases \cup {None} /\ disk.inst \in Installation /\ disk.db \in Database
      /\ disk.receipt \in Receipt
  BY DEF TypeOK, Disk
<1>3. locals \in Local
  BY RestingIsPlaced, <1>1, <1>2, HostAssumption DEF Local, Labels, ReconcileLabels
<1>4. /\ proc' \in [Procs -> Local] /\ Framed(p)
      /\ proc'[p].op = "repair" /\ proc'[p].before = disk /\ proc'[p].at = locals.at
      /\ proc'[p].was => up # None
      /\ \A f \in Fields \ {"op", "was", "before"} : proc'[p][f] = locals[f]
  BY <1>1, <1>3, BeginSets DEF BeginLocked, Operations
<1>5. /\ proc'[p].ret = "return" /\ proc'[p].target = disk.link
      /\ proc'[p].at = "stage.aside" /\ proc'[p].copied = FALSE
  <2>1. /\ locals.ret = "return" /\ locals.target = disk.link
        /\ locals.at = "stage.aside" /\ locals.copied = FALSE
    BY DEF Resting
  <2>2. QED BY <1>4, <2>1 DEF Fields
<1>6. proc'[p].target \in Releases BY <1>1, <1>2, <1>5, HostAssumption
<1>7. Path(proc'[p])
  BY <1>1, <1>4, <1>5, <1>6 DEF Path, Aimed, UpdateLabels, RollbackLabels, ReconcileLabels,
     EnableLabels, DatabaseLabels, MenuSteps, ActivateLabels, ConfigureLabels,
     UninstallLabels
<1>8. Begun(p, "repair") /\ lock = None /\ lock' = p
  BY <1>1, <1>4, <1>7 DEF Begun, BeginLocked, Begin
<1>9. QED BY <1>1, <1>5, <1>8

LEMMA BeginDisableDoes ==
  ASSUME TypeOK, Placed, NEW p \in Procs, BeginDisable(p)
  PROVE  /\ Begun(p, "disable") /\ lock = None /\ lock' = p /\ proc'[p].at = "disable"
         /\ proc'[p].copied = FALSE
<1>1. BeginLocked(p, "disable", [Resting EXCEPT !.at = "disable"])
  BY DEF BeginDisable
<1> DEFINE locals == [Resting EXCEPT !.at = "disable"]
<1>2. /\ disk \in Disk /\ codex \in Companion /\ up \in Releases \cup {None}
      /\ disk.link \in Releases \cup {None} /\ disk.inst \in Installation /\ disk.db \in Database
      /\ disk.receipt \in Receipt
  BY DEF TypeOK, Disk
<1>3. locals \in Local BY RestingIsPlaced, <1>1, <1>2 DEF Local, Labels
<1>4. /\ proc' \in [Procs -> Local] /\ Framed(p)
      /\ proc'[p].op = "disable" /\ proc'[p].before = disk /\ proc'[p].at = locals.at
      /\ proc'[p].was => up # None
      /\ \A f \in Fields \ {"op", "was", "before"} : proc'[p][f] = locals[f]
  BY <1>1, <1>3, BeginSets DEF BeginLocked, Operations
<1>5. proc'[p].at = "disable" /\ proc'[p].copied = FALSE /\ proc'[p].ret = "return"
  <2>1. locals.at = "disable" /\ locals.copied = FALSE /\ locals.ret = "return"
    BY DEF Resting
  <2>2. QED BY <1>4, <2>1 DEF Fields
<1>6. Path(proc'[p])
  BY <1>1, <1>4, <1>5 DEF Path, Aimed, UpdateLabels, RollbackLabels, ReconcileLabels,
     EnableLabels, DatabaseLabels, MenuSteps, ActivateLabels, ConfigureLabels,
     UninstallLabels
<1>7. Begun(p, "disable") /\ lock = None /\ lock' = p
  BY <1>1, <1>4, <1>6 DEF Begun, BeginLocked, Begin
<1>8. QED BY <1>1, <1>5, <1>7

LEMMA BeginImportDoes ==
  ASSUME TypeOK, Placed, NEW p \in Procs, BeginImport(p)
  PROVE  /\ Begun(p, "import") /\ disk.link # None /\ lock' = lock
         /\ proc'[p].at = "replace.lock" /\ proc'[p].target = disk.link
         /\ proc'[p].staged = Raised([schema |-> 0, rows |-> {Foreign}], disk.link)
         /\ proc'[p].copied = FALSE
<1>1. /\ disk.link # None
      /\ BeginUnlocked(p, "import", [Resting EXCEPT !.at = "replace.lock", !.target = disk.link,
                                     !.staged = Raised([schema |-> 0, rows |-> {Foreign}],
                                                       disk.link)])
  BY DEF BeginImport, Staging
<1> DEFINE locals == [Resting EXCEPT !.at = "replace.lock", !.target = disk.link,
                      !.staged = Raised([schema |-> 0, rows |-> {Foreign}], disk.link)]
<1>2. /\ disk \in Disk /\ codex \in Companion /\ up \in Releases \cup {None}
      /\ disk.link \in Releases \cup {None} /\ disk.inst \in Installation /\ disk.db \in Database
      /\ disk.receipt \in Receipt
  BY DEF TypeOK, Disk
<1>3. Raised([schema |-> 0, rows |-> {Foreign}], disk.link) \in Database
  BY <1>1, <1>2, HostAssumption, FreshRaised
<1>4. locals \in Local
  BY RestingIsPlaced, <1>1, <1>2, <1>3, HostAssumption DEF Local, Labels, DatabaseLabels
<1>5. /\ proc' \in [Procs -> Local] /\ Framed(p)
      /\ proc'[p].op = "import" /\ proc'[p].before = disk /\ proc'[p].at = locals.at
      /\ proc'[p].was => up # None
      /\ \A f \in Fields \ {"op", "was", "before"} : proc'[p][f] = locals[f]
  BY <1>1, <1>4, BeginSets DEF BeginUnlocked, Operations
<1>6. /\ proc'[p].target = disk.link
      /\ proc'[p].staged = Raised([schema |-> 0, rows |-> {Foreign}], disk.link)
      /\ proc'[p].at = "replace.lock" /\ proc'[p].copied = FALSE /\ proc'[p].ret = "return"
  <2>1. /\ locals.target = disk.link
        /\ locals.staged = Raised([schema |-> 0, rows |-> {Foreign}], disk.link)
        /\ locals.at = "replace.lock" /\ locals.copied = FALSE /\ locals.ret = "return"
    BY DEF Resting
  <2>2. QED BY <1>5, <2>1 DEF Fields
<1>7. proc'[p].target \in Releases BY <1>1, <1>2, <1>6, HostAssumption
<1>8. Path(proc'[p])
  BY <1>1, <1>5, <1>6, <1>7 DEF Path, Aimed, UpdateLabels, RollbackLabels, ReconcileLabels,
     EnableLabels, DatabaseLabels, MenuSteps, ActivateLabels, ConfigureLabels,
     UninstallLabels
<1>9. Begun(p, "import") /\ lock' = lock BY <1>1, <1>5, <1>8 DEF Begun, BeginUnlocked, Begin
<1>10. QED BY <1>1, <1>6, <1>9

LEMMA BeginResetDoes ==
  ASSUME TypeOK, Placed, NEW p \in Procs, BeginReset(p)
  PROVE  /\ Begun(p, "reset") /\ disk.link # None /\ lock' = lock
         /\ proc'[p].at = "replace.lock" /\ proc'[p].target = disk.link
         /\ proc'[p].staged = Raised([schema |-> 0, rows |-> {}], disk.link)
         /\ proc'[p].copied = FALSE
<1>1. /\ disk.link # None
      /\ BeginUnlocked(p, "reset", [Resting EXCEPT !.at = "replace.lock", !.target = disk.link,
                                    !.staged = Raised([schema |-> 0, rows |-> {}], disk.link)])
  BY DEF BeginReset, Staging
<1> DEFINE locals == [Resting EXCEPT !.at = "replace.lock", !.target = disk.link,
                      !.staged = Raised([schema |-> 0, rows |-> {}], disk.link)]
<1>2. /\ disk \in Disk /\ codex \in Companion /\ up \in Releases \cup {None}
      /\ disk.link \in Releases \cup {None} /\ disk.inst \in Installation /\ disk.db \in Database
      /\ disk.receipt \in Receipt
  BY DEF TypeOK, Disk
<1>3. Raised([schema |-> 0, rows |-> {}], disk.link) \in Database
  BY <1>1, <1>2, HostAssumption, FreshRaised
<1>4. locals \in Local
  BY RestingIsPlaced, <1>1, <1>2, <1>3, HostAssumption DEF Local, Labels, DatabaseLabels
<1>5. /\ proc' \in [Procs -> Local] /\ Framed(p)
      /\ proc'[p].op = "reset" /\ proc'[p].before = disk /\ proc'[p].at = locals.at
      /\ proc'[p].was => up # None
      /\ \A f \in Fields \ {"op", "was", "before"} : proc'[p][f] = locals[f]
  BY <1>1, <1>4, BeginSets DEF BeginUnlocked, Operations
<1>6. /\ proc'[p].target = disk.link
      /\ proc'[p].staged = Raised([schema |-> 0, rows |-> {}], disk.link)
      /\ proc'[p].at = "replace.lock" /\ proc'[p].copied = FALSE /\ proc'[p].ret = "return"
  <2>1. /\ locals.target = disk.link
        /\ locals.staged = Raised([schema |-> 0, rows |-> {}], disk.link)
        /\ locals.at = "replace.lock" /\ locals.copied = FALSE /\ locals.ret = "return"
    BY DEF Resting
  <2>2. QED BY <1>5, <2>1 DEF Fields
<1>7. proc'[p].target \in Releases BY <1>1, <1>2, <1>6, HostAssumption
<1>8. Path(proc'[p])
  BY <1>1, <1>5, <1>6, <1>7 DEF Path, Aimed, UpdateLabels, RollbackLabels, ReconcileLabels,
     EnableLabels, DatabaseLabels, MenuSteps, ActivateLabels, ConfigureLabels,
     UninstallLabels
<1>9. Begun(p, "reset") /\ lock' = lock BY <1>1, <1>5, <1>8 DEF Begun, BeginUnlocked, Begin
<1>10. QED BY <1>1, <1>6, <1>9

LEMMA BeginOptimizeDoes ==
  ASSUME TypeOK, Placed, NEW p \in Procs, BeginOptimize(p)
  PROVE  /\ Begun(p, "optimize") /\ disk.link # None /\ disk.db.schema # 0
         /\ lock = None /\ lock' = p /\ proc'[p].at = "optimize.stop"
         /\ proc'[p].target = disk.link /\ proc'[p].active = (up # None)
         /\ proc'[p].copied = FALSE
<1>1. PICK flag \in BOOLEAN : flag = (up # None) OBVIOUS
<1>2. /\ disk.link # None /\ disk.db.schema # 0
      /\ BeginLocked(p, "optimize", [Resting EXCEPT !.at = "optimize.stop", !.target = disk.link,
                                     !.active = flag])
  BY <1>1 DEF BeginOptimize
<1> DEFINE locals == [Resting EXCEPT !.at = "optimize.stop", !.target = disk.link,
                      !.active = flag]
<1>3. /\ disk \in Disk /\ codex \in Companion /\ up \in Releases \cup {None}
      /\ disk.link \in Releases \cup {None} /\ disk.inst \in Installation /\ disk.db \in Database
      /\ disk.receipt \in Receipt
  BY DEF TypeOK, Disk
<1>4. locals \in Local
  BY RestingIsPlaced, <1>2, <1>3, HostAssumption DEF Local, Labels, DatabaseLabels
<1>5. /\ proc' \in [Procs -> Local] /\ Framed(p)
      /\ proc'[p].op = "optimize" /\ proc'[p].before = disk /\ proc'[p].at = locals.at
      /\ proc'[p].was => up # None
      /\ \A f \in Fields \ {"op", "was", "before"} : proc'[p][f] = locals[f]
  BY <1>2, <1>4, BeginSets DEF BeginLocked, Operations
<1>6. /\ proc'[p].target = disk.link /\ proc'[p].active = flag
      /\ proc'[p].at = "optimize.stop" /\ proc'[p].copied = FALSE
      /\ proc'[p].ret = "return"
  <2>1. /\ locals.target = disk.link /\ locals.active = flag
        /\ locals.at = "optimize.stop" /\ locals.copied = FALSE
        /\ locals.ret = "return"
    BY DEF Resting
  <2>2. QED BY <1>5, <2>1 DEF Fields
<1>7. proc'[p].target \in Releases BY <1>2, <1>3, <1>6, HostAssumption
<1>8. Path(proc'[p])
  BY <1>2, <1>5, <1>6, <1>7 DEF Path, Aimed, UpdateLabels, RollbackLabels, ReconcileLabels,
     EnableLabels, DatabaseLabels, MenuSteps, ActivateLabels, ConfigureLabels,
     UninstallLabels
<1>9. Begun(p, "optimize") /\ lock = None /\ lock' = p
  BY <1>2, <1>5, <1>8 DEF Begun, BeginLocked, Begin
<1>10. QED BY <1>1, <1>2, <1>6, <1>9

LEMMA BeginMigrateDoes ==
  ASSUME TypeOK, Placed, NEW p \in Procs, BeginMigrate(p)
  PROVE  /\ Begun(p, "migrate") /\ disk.link # None /\ disk.db.schema # 0
         /\ lock = None /\ lock' = p /\ proc'[p].at = "migrate.stop"
         /\ proc'[p].target = disk.link /\ proc'[p].active = (up # None)
         /\ proc'[p].copied = FALSE
<1>1. PICK flag \in BOOLEAN : flag = (up # None) OBVIOUS
<1>2. /\ disk.link # None /\ disk.db.schema # 0
      /\ BeginLocked(p, "migrate", [Resting EXCEPT !.at = "migrate.stop", !.target = disk.link,
                                    !.active = flag])
  BY <1>1 DEF BeginMigrate
<1> DEFINE locals == [Resting EXCEPT !.at = "migrate.stop", !.target = disk.link, !.active = flag]
<1>3. /\ disk \in Disk /\ codex \in Companion /\ up \in Releases \cup {None}
      /\ disk.link \in Releases \cup {None} /\ disk.inst \in Installation /\ disk.db \in Database
      /\ disk.receipt \in Receipt
  BY DEF TypeOK, Disk
<1>4. locals \in Local
  BY RestingIsPlaced, <1>2, <1>3, HostAssumption DEF Local, Labels, DatabaseLabels
<1>5. /\ proc' \in [Procs -> Local] /\ Framed(p)
      /\ proc'[p].op = "migrate" /\ proc'[p].before = disk /\ proc'[p].at = locals.at
      /\ proc'[p].was => up # None
      /\ \A f \in Fields \ {"op", "was", "before"} : proc'[p][f] = locals[f]
  BY <1>2, <1>4, BeginSets DEF BeginLocked, Operations
<1>6. /\ proc'[p].target = disk.link /\ proc'[p].active = flag
      /\ proc'[p].at = "migrate.stop" /\ proc'[p].copied = FALSE /\ proc'[p].ret = "return"
  <2>1. /\ locals.target = disk.link /\ locals.active = flag
        /\ locals.at = "migrate.stop" /\ locals.copied = FALSE /\ locals.ret = "return"
    BY DEF Resting
  <2>2. QED BY <1>5, <2>1 DEF Fields
<1>7. proc'[p].target \in Releases BY <1>2, <1>3, <1>6, HostAssumption
<1>8. Path(proc'[p])
  BY <1>2, <1>5, <1>6, <1>7 DEF Path, Aimed, UpdateLabels, RollbackLabels, ReconcileLabels,
     EnableLabels, DatabaseLabels, MenuSteps, ActivateLabels, ConfigureLabels,
     UninstallLabels
<1>9. Begun(p, "migrate") /\ lock = None /\ lock' = p
  BY <1>2, <1>5, <1>8 DEF Begun, BeginLocked, Begin
<1>10. QED BY <1>1, <1>2, <1>6, <1>9

LEMMA BeginServiceDoes ==
  ASSUME TypeOK, Placed, NEW p \in Procs, BeginService(p)
  PROVE  \E action \in {"start", "stop", "restart"} :
           /\ Begun(p, action) /\ lock = None /\ lock' = p /\ proc'[p].at = "mutate"
           /\ proc'[p].copied = FALSE
<1>1. PICK action \in {"start", "stop", "restart"} :
        BeginLocked(p, action, [Resting EXCEPT !.at = "mutate"])
  BY DEF BeginService
<1> DEFINE locals == [Resting EXCEPT !.at = "mutate"]
<1>2. /\ disk \in Disk /\ codex \in Companion /\ up \in Releases \cup {None}
      /\ disk.link \in Releases \cup {None} /\ disk.inst \in Installation /\ disk.db \in Database
      /\ disk.receipt \in Receipt
  BY DEF TypeOK, Disk
<1>3. locals \in Local BY RestingIsPlaced, <1>1, <1>2 DEF Local, Labels
<1>4. /\ proc' \in [Procs -> Local] /\ Framed(p)
      /\ proc'[p].op = action /\ proc'[p].before = disk /\ proc'[p].at = locals.at
      /\ proc'[p].was => up # None
      /\ \A f \in Fields \ {"op", "was", "before"} : proc'[p][f] = locals[f]
  BY <1>1, <1>3, BeginSets DEF BeginLocked, Operations
<1>5. proc'[p].at = "mutate" /\ proc'[p].copied = FALSE /\ proc'[p].ret = "return"
  <2>1. locals.at = "mutate" /\ locals.copied = FALSE /\ locals.ret = "return"
    BY DEF Resting
  <2>2. QED BY <1>4, <2>1 DEF Fields
<1>6. Path(proc'[p])
  BY <1>1, <1>4, <1>5 DEF Path, Aimed, UpdateLabels, RollbackLabels, ReconcileLabels,
     EnableLabels, DatabaseLabels, MenuSteps, ActivateLabels, ConfigureLabels,
     UninstallLabels
<1>7. Begun(p, action) /\ lock = None /\ lock' = p
  BY <1>1, <1>4, <1>6 DEF Begun, BeginLocked, Begin
<1>8. QED BY <1>1, <1>5, <1>7

LEMMA BeginSetupDoes ==
  ASSUME TypeOK, Placed, NEW p \in Procs, BeginSetup(p)
  PROVE  \E r \in Published, d \in Domains :
           /\ Begun(p, "setup") /\ lock' = lock /\ proc'[p].at = "setup.release"
           /\ proc'[p].target = r /\ proc'[p].domain = d /\ proc'[p].copied = FALSE
<1>1. PICK r \in Published, d \in Domains :
        BeginUnlocked(p, "setup", [Resting EXCEPT !.at = "setup.release", !.target = r,
                                   !.domain = d])
  BY DEF BeginSetup
<1> DEFINE locals == [Resting EXCEPT !.at = "setup.release", !.target = r, !.domain = d]
<1>2. /\ disk \in Disk /\ codex \in Companion /\ up \in Releases \cup {None}
      /\ disk.link \in Releases \cup {None} /\ disk.inst \in Installation /\ disk.db \in Database
      /\ disk.receipt \in Receipt
  BY DEF TypeOK, Disk
<1>3. locals \in Local
  BY RestingIsPlaced, <1>1, <1>2, HostAssumption, DomainsAssumption DEF Local, Labels,
     MenuSteps, Published, Disk
<1>4. /\ proc' \in [Procs -> Local] /\ Framed(p)
      /\ proc'[p].op = "setup" /\ proc'[p].before = disk /\ proc'[p].at = locals.at
      /\ proc'[p].was => up # None
      /\ \A f \in Fields \ {"op", "was", "before"} : proc'[p][f] = locals[f]
  BY <1>1, <1>3, BeginSets DEF BeginUnlocked, Operations
<1>5. /\ proc'[p].target = r /\ proc'[p].domain = d /\ proc'[p].at = "setup.release"
      /\ proc'[p].copied = FALSE /\ proc'[p].ret = "return"
  <2>1. /\ locals.target = r /\ locals.domain = d /\ locals.at = "setup.release"
        /\ locals.copied = FALSE /\ locals.ret = "return"
    BY DEF Resting
  <2>2. QED BY <1>4, <2>1 DEF Fields
<1>6. proc'[p].target \in Releases BY <1>1, <1>2, <1>5 DEF Published
<1>7. Path(proc'[p])
  BY <1>1, <1>4, <1>5, <1>6 DEF Path, Aimed, UpdateLabels, RollbackLabels, ReconcileLabels,
     EnableLabels, DatabaseLabels, MenuSteps, ActivateLabels, ConfigureLabels,
     UninstallLabels
<1>8. Begun(p, "setup") /\ lock' = lock BY <1>1, <1>4, <1>7 DEF Begun, BeginUnlocked, Begin
<1>9. QED BY <1>1, <1>5, <1>8

LEMMA BeginMenuDoes ==
  ASSUME TypeOK, Placed, NEW p \in Procs, BeginMenu(p)
  PROVE  \E r \in Published, d \in Domains, step \in MenuSteps :
           /\ Begun(p, "menu") /\ lock = None /\ lock' = p /\ proc'[p].at = step
           /\ proc'[p].target = r /\ proc'[p].domain = d /\ proc'[p].copied = FALSE
<1>1. PICK r \in Published, d \in Domains, step \in MenuSteps :
        BeginLocked(p, "menu", [Resting EXCEPT !.at = step, !.target = r, !.domain = d])
  BY DEF BeginMenu
<1> DEFINE locals == [Resting EXCEPT !.at = step, !.target = r, !.domain = d]
<1>2. /\ disk \in Disk /\ codex \in Companion /\ up \in Releases \cup {None}
      /\ disk.link \in Releases \cup {None} /\ disk.inst \in Installation /\ disk.db \in Database
      /\ disk.receipt \in Receipt
  BY DEF TypeOK, Disk
<1>3. locals \in Local
  BY RestingIsPlaced, <1>1, <1>2, HostAssumption, DomainsAssumption DEF Local, Labels,
     MenuSteps, Published, Disk
<1>4. /\ proc' \in [Procs -> Local] /\ Framed(p)
      /\ proc'[p].op = "menu" /\ proc'[p].before = disk /\ proc'[p].at = locals.at
      /\ proc'[p].was => up # None
      /\ \A f \in Fields \ {"op", "was", "before"} : proc'[p][f] = locals[f]
  BY <1>1, <1>3, BeginSets DEF BeginLocked, Operations
<1>5. /\ proc'[p].target = r /\ proc'[p].domain = d /\ proc'[p].at = step
      /\ proc'[p].copied = FALSE /\ proc'[p].ret = "return"
  <2>1. /\ locals.target = r /\ locals.domain = d /\ locals.at = step
        /\ locals.copied = FALSE /\ locals.ret = "return"
    BY DEF Resting
  <2>2. QED BY <1>4, <2>1 DEF Fields
<1>6. proc'[p].target \in Releases BY <1>1, <1>2, <1>5 DEF Published
<1>7. Path(proc'[p])
  BY <1>1, <1>4, <1>5, <1>6 DEF Path, Aimed, UpdateLabels, RollbackLabels, ReconcileLabels,
     EnableLabels, DatabaseLabels, MenuSteps, ActivateLabels, ConfigureLabels,
     UninstallLabels
<1>8. Begun(p, "menu") /\ lock = None /\ lock' = p
  BY <1>1, <1>4, <1>7 DEF Begun, BeginLocked, Begin
<1>9. QED BY <1>1, <1>5, <1>8

LEMMA BeginActivateDoes ==
  ASSUME TypeOK, Placed, NEW p \in Procs, BeginActivate(p)
  PROVE  \E r \in Published :
           /\ Begun(p, "activate") /\ disk.pending = "service" /\ disk.staged # None
           /\ lock = None /\ lock' = p /\ proc'[p].at = "activate.stage"
           /\ proc'[p].target = r /\ proc'[p].inst = disk.inst
           /\ proc'[p].domain = disk.wanted /\ proc'[p].copied = FALSE
<1>1. PICK r \in Published :
        /\ disk.pending = "service" /\ disk.staged # None
        /\ BeginLocked(p, "activate", [Resting EXCEPT !.at = "activate.stage", !.target = r,
                                       !.inst = disk.inst, !.domain = disk.wanted])
  BY DEF BeginActivate
<1> DEFINE locals == [Resting EXCEPT !.at = "activate.stage", !.target = r, !.inst = disk.inst,
                      !.domain = disk.wanted]
<1>2. /\ disk \in Disk /\ codex \in Companion /\ up \in Releases \cup {None}
      /\ disk.link \in Releases \cup {None} /\ disk.inst \in Installation /\ disk.db \in Database
      /\ disk.receipt \in Receipt
  BY DEF TypeOK, Disk
<1>3. locals \in Local
  BY RestingIsPlaced, <1>1, <1>2, HostAssumption, DomainsAssumption DEF Local, Labels,
     ActivateLabels, Published, Disk
<1>4. /\ proc' \in [Procs -> Local] /\ Framed(p)
      /\ proc'[p].op = "activate" /\ proc'[p].before = disk /\ proc'[p].at = locals.at
      /\ proc'[p].was => up # None
      /\ \A f \in Fields \ {"op", "was", "before"} : proc'[p][f] = locals[f]
  BY <1>1, <1>3, BeginSets DEF BeginLocked, Operations
<1>5. /\ proc'[p].target = r /\ proc'[p].inst = disk.inst /\ proc'[p].domain = disk.wanted
      /\ proc'[p].at = "activate.stage" /\ proc'[p].copied = FALSE
      /\ proc'[p].ret = "return"
  <2>1. /\ locals.target = r /\ locals.inst = disk.inst /\ locals.domain = disk.wanted
        /\ locals.at = "activate.stage" /\ locals.copied = FALSE
        /\ locals.ret = "return"
    BY DEF Resting
  <2>2. QED BY <1>4, <2>1 DEF Fields
<1>6. proc'[p].target \in Releases BY <1>1, <1>2, <1>5 DEF Published
<1>7. Path(proc'[p])
  BY <1>1, <1>4, <1>5, <1>6 DEF Path, Aimed, UpdateLabels, RollbackLabels, ReconcileLabels,
     EnableLabels, DatabaseLabels, MenuSteps, ActivateLabels, ConfigureLabels,
     UninstallLabels
<1>8. Begun(p, "activate") /\ lock = None /\ lock' = p
  BY <1>1, <1>4, <1>7 DEF Begun, BeginLocked, Begin
<1>9. QED BY <1>1, <1>5, <1>8

LEMMA BeginConfigureDoes ==
  ASSUME TypeOK, Placed, NEW p \in Procs, BeginConfigure(p)
  PROVE  \E d \in Domains :
           /\ Begun(p, "configure") /\ disk.env # 0 /\ lock = None /\ lock' = p
           /\ proc'[p].at = "configure.env" /\ proc'[p].domain = d
           /\ proc'[p].active = (up # None)
           /\ proc'[p].files = [env |-> disk.env, caddy |-> disk.caddy, unit |-> disk.unit]
           /\ proc'[p].copied = FALSE
<1>1. PICK flag \in BOOLEAN : flag = (up # None) OBVIOUS
<1>2. PICK d \in Domains :
        /\ disk.env # 0
        /\ BeginLocked(p, "configure", [Resting EXCEPT !.at = "configure.env", !.domain = d,
                                        !.active = flag, !.files = [env |-> disk.env,
                                                                    caddy |-> disk.caddy,
                                                                    unit |-> disk.unit]])
  BY <1>1 DEF BeginConfigure
<1> DEFINE locals == [Resting EXCEPT !.at = "configure.env", !.domain = d, !.active = flag,
                      !.files = [env |-> disk.env, caddy |-> disk.caddy, unit |-> disk.unit]]
<1>3. /\ disk \in Disk /\ codex \in Companion /\ up \in Releases \cup {None}
      /\ disk.link \in Releases \cup {None} /\ disk.inst \in Installation /\ disk.db \in Database
      /\ disk.receipt \in Receipt
  BY DEF TypeOK, Disk
<1>4. locals \in Local
  BY RestingIsPlaced, <1>2, <1>3, DomainsAssumption DEF Local, Labels, ConfigureLabels, Disk
<1>5. /\ proc' \in [Procs -> Local] /\ Framed(p)
      /\ proc'[p].op = "configure" /\ proc'[p].before = disk /\ proc'[p].at = locals.at
      /\ proc'[p].was => up # None
      /\ \A f \in Fields \ {"op", "was", "before"} : proc'[p][f] = locals[f]
  BY <1>2, <1>4, BeginSets DEF BeginLocked, Operations
<1>6. /\ proc'[p].domain = d /\ proc'[p].active = flag
      /\ proc'[p].files = [env |-> disk.env, caddy |-> disk.caddy, unit |-> disk.unit]
      /\ proc'[p].at = "configure.env" /\ proc'[p].copied = FALSE
      /\ proc'[p].ret = "return"
  <2>1. /\ locals.domain = d /\ locals.active = flag
        /\ locals.files = [env |-> disk.env, caddy |-> disk.caddy, unit |-> disk.unit]
        /\ locals.at = "configure.env" /\ locals.copied = FALSE
        /\ locals.ret = "return"
    BY DEF Resting
  <2>2. QED BY <1>5, <2>1 DEF Fields
<1>7. Path(proc'[p])
  BY <1>2, <1>5, <1>6 DEF Path, Aimed, UpdateLabels, RollbackLabels, ReconcileLabels,
     EnableLabels, DatabaseLabels, MenuSteps, ActivateLabels, ConfigureLabels,
     UninstallLabels
<1>8. Begun(p, "configure") /\ lock = None /\ lock' = p
  BY <1>2, <1>5, <1>7 DEF Begun, BeginLocked, Begin
<1>9. QED BY <1>1, <1>2, <1>6, <1>8

LEMMA BeginUninstallDoes ==
  ASSUME TypeOK, Placed, NEW p \in Procs, BeginUninstall(p)
  PROVE  \E remove_data \in BOOLEAN, export \in BOOLEAN :
           /\ Begun(p, "uninstall")
           /\ remove_data /\ disk.db.schema # 0 => export
           /\ lock' = lock /\ proc'[p].at = "uninstall.lock"
           /\ proc'[p].published = remove_data /\ proc'[p].copied = export
           /\ proc'[p].staged = disk.db /\ proc'[p].codex = codex
<1>1. PICK remove_data \in BOOLEAN, export \in BOOLEAN :
        /\ remove_data /\ disk.db.schema # 0 => export
        /\ BeginUnlocked(p, "uninstall", [Resting EXCEPT !.at = "uninstall.lock",
                                          !.published = remove_data, !.copied = export,
                                          !.staged = disk.db, !.codex = codex])
  BY DEF BeginUninstall
<1> DEFINE locals == [Resting EXCEPT !.at = "uninstall.lock", !.published = remove_data,
                      !.copied = export, !.staged = disk.db, !.codex = codex]
<1>2. /\ disk \in Disk /\ codex \in Companion /\ up \in Releases \cup {None}
      /\ disk.link \in Releases \cup {None} /\ disk.inst \in Installation /\ disk.db \in Database
      /\ disk.receipt \in Receipt
  BY DEF TypeOK, Disk
<1>3. locals \in Local BY RestingIsPlaced, <1>1, <1>2 DEF Local, Labels, UninstallLabels
<1>4. /\ proc' \in [Procs -> Local] /\ Framed(p)
      /\ proc'[p].op = "uninstall" /\ proc'[p].before = disk /\ proc'[p].at = locals.at
      /\ proc'[p].was => up # None
      /\ \A f \in Fields \ {"op", "was", "before"} : proc'[p][f] = locals[f]
  BY <1>1, <1>3, BeginSets DEF BeginUnlocked, Operations
<1>5. /\ proc'[p].published = remove_data /\ proc'[p].copied = export
      /\ proc'[p].staged = disk.db /\ proc'[p].codex = codex
      /\ proc'[p].at = "uninstall.lock" /\ proc'[p].ret = "return"
  <2>1. /\ locals.published = remove_data /\ locals.copied = export
        /\ locals.staged = disk.db /\ locals.codex = codex
        /\ locals.at = "uninstall.lock" /\ locals.ret = "return"
    BY DEF Resting
  <2>2. QED BY <1>4, <2>1 DEF Fields
<1>6. Path(proc'[p])
  BY <1>1, <1>4, <1>5 DEF Path, Aimed, UpdateLabels, RollbackLabels, ReconcileLabels,
     EnableLabels, DatabaseLabels, MenuSteps, ActivateLabels, ConfigureLabels,
     UninstallLabels
<1>7. Begun(p, "uninstall") /\ lock' = lock BY <1>1, <1>4, <1>6 DEF Begun, BeginUnlocked, Begin
<1>8. QED BY <1>1, <1>5, <1>7
==============================================================================
