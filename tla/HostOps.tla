------------------------------ MODULE HostOps -------------------------------
(***************************************************************************)
(* Every operation of bridge_cli on one host: several command lines, each  *)
(* with one operation at a time, the service that stores rows while they   *)
(* work, and processes that die between two steps.                         *)
(***************************************************************************)
EXTENDS Release, CodexRuntime, DatabaseOps, Setup

\* Observations, read by properties only.
VARIABLES
  moment,   \* row -> what the operations were doing when it was written
  mixed     \* an import or a reset put a database in place that fits another release

hostVars == <<vars, moment, mixed>>

\* The host as an activation of release r leaves it.
Installed(r) ==
  /\ disk = [link |-> r, dirs |-> [x \in Releases |-> IF x = r THEN "ready" ELSE "absent"],
             db |-> [schema |-> Schema[r], rows |-> {}], backups |-> {},
             inst |-> [mode |-> "managed", version |-> Version[r], rel |-> None, domain |-> 1],
             receipt |-> [NoReceipt EXCEPT !.op = "setup", !.state = "complete"],
             staged |-> r, pending |-> "service", wanted |-> 1, fragment |-> 1,
             env |-> 1, caddy |-> 1, unit |-> "managed"]
  /\ up = r

\* A host nobody has set up.
Untouched ==
  /\ disk = [link |-> None, dirs |-> [x \in Releases |-> "absent"], db |-> NoDatabase,
             backups |-> {}, inst |-> NoInstallation, receipt |-> NoReceipt, staged |-> None,
             pending |-> "none", wanted |-> 0, fragment |-> 0, env |-> 0, caddy |-> 0,
             unit |-> "none"]
  /\ up = None

Init ==
  /\ \/ \E r \in Releases \ Checkouts : Installed(r)
     \/ "setup" \in Kinds /\ Untouched
  /\ codex = NoCompanion
  /\ lock = None
  /\ proc = [p \in Procs |-> Resting]
  /\ writes = 0 /\ ops = 0 /\ crashes = 0
  /\ torn = FALSE
  /\ moment = [n \in 1..MaxWrites |-> "quiet"]
  /\ mixed = FALSE

\* A release or a database is on trial from the start that follows the change
\* until the operation ends or goes back; a copy is early from the moment it
\* was taken of a service that runs until that service is stopped.
OnTrial ==
  {"check", "publish", "codex.read", "fail", "stage.aside", "stage.install", "stage.prepare",
   "repair.restart", "repair.status", "repair.back", "repair.again", "repair.fail", "receipt",
   "undo.stop", "rollback.check", "rollback.publish", "rollback.receipt", "return.stop",
   "runtime.check", "restore.stop", "activate.check", "deactivate.stop"}
Early == {"rollback.stop", "activate.sync", "activate.stop"}

Moment ==
  IF \E p \in Procs : proc[p].at \in OnTrial THEN "trial"
  ELSE IF \E p \in Procs : proc[p].at \in Early THEN "early" ELSE "quiet"

Stores == ServiceWrites /\ moment' = [moment EXCEPT ![writes + 1] = Moment] /\ UNCHANGED mixed

\* import and reset stage their database outside the lock.  The release may
\* be replaced before they put it in place, and nothing looks at it again.
Mixes(p) ==
  /\ At(p, "replace.cut") /\ proc'[p].at = "runtime.prepare"
  /\ disk.link # None => disk'.db.schema # Schema[disk.link]

Begins(p) == ReleaseBegins(p) \/ CodexBegins(p) \/ DatabaseBegins(p) \/ SetupBegins(p)

Steps(p) == ReleaseStep(p) \/ CodexStep(p) \/ DatabaseStep(p) \/ SetupStep(p)

\* The bound on operations is reached: nothing is left to begin.
Rests == ops = MaxOps /\ (\A p \in Procs : At(p, "idle")) /\ UNCHANGED hostVars

Next ==
  \/ Stores \/ Rests
  \/ \E p \in Procs : At(p, "idle") /\ Begins(p) /\ UNCHANGED <<moment, mixed>>
  \/ \E p \in Procs : /\ ~At(p, "idle") /\ (Steps(p) \/ Dies(p))
                      /\ mixed' = (mixed \/ Mixes(p)) /\ UNCHANGED moment

Spec == Init /\ [][Next]_hostVars

-----------------------------------------------------------------------------
TypeOK ==
  /\ disk \in Disk /\ codex \in Companion
  /\ up \in Releases \cup {None}
  /\ up # None => disk.unit = "managed"
  /\ proc \in [Procs -> Local]
  /\ lock \in {None} \cup {p \in Procs : ~At(p, "idle")}
  /\ writes \in 0..MaxWrites /\ ops \in 0..MaxOps /\ crashes \in 0..MaxCrashes
  /\ moment \in [1..MaxWrites -> {"quiet", "early", "trial"}]
  /\ torn \in BOOLEAN /\ mixed \in BOOLEAN

Resting0 == \A p \in Procs : At(p, "idle")

\* At every step the service that runs is the one that was started from the
\* release the link points to, and that release is complete: nothing switches
\* the link, unpacks or removes a release under a running service, not the
\* staging steps of setup either, which take no lock.
ServedFromLink == up # None => up = disk.link /\ disk.dirs[up] = "ready"

\* Every row the service stored is in the database or in one of the copies,
\* at every step and whichever step dies, apart from what was stored while an
\* operation had a release on trial or had already taken its copy.
DataKept ==
  \A n \in 1..writes :
    moment[n] = "quiet" => n \in disk.db.rows \/ \E b \in disk.backups : n \in b.rows

\* The same of the rows stored between the copy and the stop of the service.
LateWritesKept ==
  \A n \in 1..writes :
    moment[n] # "trial" => n \in disk.db.rows \/ \E b \in disk.backups : n \in b.rows

\* Between operations the installation file tells the version of the release
\* the link points to.
LinkInstAgree ==
  Resting0 /\ ~torn /\ disk.inst.mode = "managed" /\ disk.link # None
  => disk.inst.version = Version[disk.link]

\* A completed update or deploy can be rolled back: the release and the copy
\* it names exist, and the release accepts the copy (unless a database that
\* fits another release was put in place, which the copy may be of).
RollbackReady ==
  LET receipt == disk.receipt IN
  Resting0 /\ ~torn /\ ~mixed /\ disk.unit = "managed"
    /\ receipt.op \in {"update", "deploy"} /\ receipt.state = "complete"
  => /\ receipt.link # None /\ disk.dirs[receipt.link] # "absent"
     /\ receipt.copy \in disk.backups
     /\ receipt.version = Version[receipt.link]
     /\ receipt.copy.schema = Schema[receipt.link]

\* What the companion's status file records is what is installed.
CompanionRecorded ==
  Resting0 /\ ~torn /\ codex.state = "complete" /\ codex.desired
    => codex.digest = codex.runtime /\ codex.link /\ codex.unit

\* An operation returns or raises, and nobody else is at work.
Ended(p) == proc[p].at # "idle" /\ Resting0' /\ ~torn'

\* An operation that began with a service that ran from files that fit leaves
\* such files, whether it succeeded or went back.  Apart are the staging steps
\* of setup, which migrate the database for the release to be activated, and
\* a database staged outside the lock by a release that was replaced meanwhile.
ServiceBack ==
  [][\A p \in Procs :
       /\ Ended(p)
       /\ proc[p].was
       /\ proc[p].before.db.schema = Schema[proc[p].before.link]
       /\ proc[p].op \notin {"stop", "uninstall", "setup", "menu"}
       /\ ~mixed'
       => Fits(disk.link)']_hostVars

\* An update, a deploy or a rollback happens altogether or not at all.
AllOrNothing ==
  [][\A p \in Procs :
       Ended(p) /\ proc[p].op \in {"update", "deploy", "rollback"} =>
         \/ /\ disk'.link = proc[p].target
            /\ disk'.inst = proc[p].new
            /\ Fits(disk.link)'
         \/ /\ disk'.link = proc[p].before.link
            /\ disk'.inst = proc[p].before.inst
            /\ disk'.db.schema = proc[p].before.db.schema
            /\ proc[p].before.db.rows \subseteq disk'.db.rows]_hostVars

\* A new domain reaches the environment, Caddy and the installation file, or
\* none of them.
ConfiguresAll ==
  [][\A p \in Procs :
       Ended(p) /\ proc[p].op = "configure" =>
         \/ {disk'.env, disk'.caddy, disk'.inst.domain} = {proc[p].domain}
         \/ /\ disk'.env = proc[p].before.env
            /\ disk'.caddy = proc[p].before.caddy
            /\ disk'.inst = proc[p].before.inst]_hostVars

\* An activation that fails leaves the link, the schema and the files that
\* the service runs from as it found them.
ActivatesAll ==
  [][\A p \in Procs :
       Ended(p) /\ proc[p].op = "activate" =>
         \/ /\ disk'.link = proc[p].target
            /\ disk'.unit = "managed"
            /\ disk'.inst.version = Version[proc[p].target]
            /\ Fits(disk.link)'
         \/ /\ disk'.link = proc[p].before.link
            /\ disk'.db.schema = proc[p].before.db.schema
            /\ <<disk'.env, disk'.caddy, disk'.unit>> =
               <<proc[p].before.env, proc[p].before.caddy, proc[p].before.unit>>]_hostVars
=============================================================================
