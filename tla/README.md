# TLA+ models of MCP Session Bridge

TLA+ modules, TLC configurations and TLAPS proofs about the parts of MCP Session
Bridge in which the order of events decides whether the result is right. Every
definition is translated from the source; `PROJECT.json` says for each one which
lines it stands for ("map"), which hazards of the code the properties are for
("hazards"), and what each run and theorem shows.

    tlasany M.tla                        parse
    tlc -workers 2 -config X.cfg M       model-check
    tlapm M_proofs.tla                   check the proofs

## 1. The system

MCP Session Bridge is one Python service (`app/main.py`: an asyncio event loop, MCP
tools, OAuth, an admin interface) over one SQLite database (`app/storage.py`), with
a command line that installs, updates and repairs it (`bridge_cli/`). Blocking work
leaves the event loop through `asyncio.to_thread`; a thread started that way goes on
when the coroutine that awaits it is cancelled. Store calls take `Store._lock` and,
where they write, mostly `BEGIN IMMEDIATE`, so that one call is atomic between
threads and processes. A restarted service may overlap the one it replaces.

| Component | State | Operations | Interacts with | Hard behaviour | Correct when |
|---|---|---|---|---|---|
| Graph job queue (`storage.py` 1192-1704) | switch, `graph_jobs`, `graph_extractions`, `graph_session_current` | enqueue, rescan, claim, renew, publish, fail, switch | workers of any process, exchanges, groups, profiles | leases that run out under a live worker, rescan under a running job, attempt limit | one live lease; final is final; late answers change nothing; nothing stuck |
| Graph worker (`graph_runtime.py`) | `_run_lock`, `_active_task`, claim in hand, store calls in threads | run_once, job task, heartbeat, switch, rescan, shutdown | queue, Codex client, admin handlers, monitor | cancellation at every await, calls that outlive their task, crash, two processes | no two workers on leased jobs; nothing analysed while off; interruptions retried; resets end |
| Context search and vector index (`search.py`) | source revision, documents, dirty marks, index state, chunks | synchronise, build, promote, stop, delete, configure, automatic start | exchange and file triggers, admin handlers, provider | four-transaction synchronisation, build threads, restart | the active index is one complete snapshot; one build; a build that is stopped stops; previous index usable |
| Session store (`storage.py`, `admin.py`, `main.py`) | groups, sessions, files, labels, exchanges and their log | save, edit, delete, restore, mask, move, label, upload | tabs, models, readers of the transcript | handlers that read, await a body, and write; group deletion; a transcript read in pieces | nothing stranded; labels seen where they count; no edit of an unseen text; log without gaps |
| Codex App Server client (`codex_app_server.py`) | socket, reader, pending requests, owned conversations, turns, login | connect, request, turn, login, close | Graph worker, chat, admin | calls sharing one socket, messages before responses, loss and cancellation anywhere | an answer is of the caller's own turn, completed and without a tool event that names it |
| OAuth (`oauth.py`) | clients, challenges, codes, tokens | register, authorize, login, exchange, refresh, expire | connectors | a crash between two commits, repeated requests | one login grants once, with no scope added |
| File workers (`pdf_files.py`, `image_files.py`) | admission count, semaphore, tasks | admit, run, release, leave | uploads | requests that go away while a shielded task works | limits kept; no slot lost |
| Tool output mode (`admin.py` 748, `tool_output.py`) | mode, reserved restart, mode in use | set, reserve, request, restart, serve | systemd | a request that fails, is cut off, or succeeds after it failed | a reservation is honoured by a process in that mode |
| Release management (`bridge_cli/release.py`) | current link, release directories, installation file, receipt, backups, database, service | update, deploy, rollback | operation lock, companion, systemd | failure or death at every step, handlers that fail as well | all or nothing; rollback possible; no row lost |
| Database operations (`bridge_cli/database.py`) | database, backups | import, reset, optimize, migrate, backup | operation lock, service, release | staging before the lock, failure before and after the cutover | no row lost; the service comes back |
| Codex runtime manager (`bridge_cli/codex_runtime.py`) | runtime, link, unit, status file | enable, repair, disable, reconcile | releases, systemd | a stage that has to be put back, inside another operation | the status records what is installed |
| Installation and setup (`install.py`, `__main__.py`, `uninstall.py`) | staged release, pending files, environment, Caddy, units | setup steps, activate, configure, uninstall | all of the above | partial activation and its restoration | activated altogether or as before |
| Transcript package (`session_package.py`) | none (pure) | turns, lines, chunks | tools | boundaries, limits that change | the chunks give the transcript |
| Graph profiles and Lab, output probe, conversation export, web front end, menus | see section 8 | | | | |

## 2. The modules

| Module | What it is | Composed in |
|---|---|---|
| `GraphLedger` | abstract: jobs are opened, held by one client, completed by their holder, given up, started over | `GraphJobs` refines it |
| `GraphJobs` | the durable queue: one action per store transaction, any caller | `MCGraph` |
| `GraphRuntime` | the workers over the queue (EXTENDS `GraphJobs`) | `MCGraph`, `MCGraphLive` |
| `SearchDocuments` | search documents and their synchronisation by source revision | `SearchIndex` |
| `SearchIndex` | the vector index over them: builds, automatic start, handlers, restart | `MCSearchIndex` |
| `SessionStore` | groups, sessions, files, labels: one action per store method | `SessionHandlers` |
| `SessionHandlers` | the administrator's tabs and the models' tools over it, with their awaits | `MCSessions` |
| `Host` | what the operations of the command line share: disk, service, lock, steps that may raise | the next four |
| `Release`, `DatabaseOps`, `CodexRuntime`, `Setup` | the operations, as labelled steps with their handlers | `HostOps` |
| `HostOps` | all of them on one host, with a service that stores rows and processes that die | `MCHost`, `MCHostAll` |
| `CodexClient` | connection, handshake, requests, conversations, turns | `MCCodex`, `MCService` |
| `Transcript` | pure: a transcript's lines and their division into chunks | `Exchanges` |
| `Exchanges` | exchanges, their log and titles, and a reader of the transcript | `MCService` |
| `OAuth`, `FileWorkers`, `ToolOutputRestart` | the three smaller parts of the service | `MCService` |
| `GraphJobs_proofs`, `GraphRuntime_proofs`, `SessionHandlers_proofs`, `Service_proofs`, `SearchIndex_proofs`, `Exchanges_proofs` | theorems, for every value of the constants | |
| `Host_steps`, `Host_proofs` | what each step of the command line changes; the theorems of the host (EXTENDS `MCHostAll`, to state `LinkInstKept` of its scenario) | |

### Graph queue: `GraphJobs`

`jobs` are the rows of `graph_jobs` with the columns the queue decides by: status,
session, source exchange, profile, attempts, available_at, lease_owner,
lease_expires_at. `exchanges` keeps of an exchange its session, its time and whether
it is deleted; `excluded` is the set of sessions whose group the active profile may
not read. Actions and code:

| Action | Code | Note |
|---|---|---|
| `Enqueue` | `enqueue_eligible_graph_jobs` | latest live exchange per session, old enough; INSERT OR IGNORE under the UNIQUE key |
| `ResetScan` | `reset_graph_scan` | deletes rows and analyses; new rows wait for the latest running lease |
| `Claim`, `ClaimNone` | `claim_graph_job` | both first end the exhausted rows whose lease lapsed (`SweepExhausted`); nothing is claimed while any lease is live |
| `Renew`, `Publish`, `Fail` | `renew_graph_job_lease`, `publish_graph_extraction`, `fail_graph_job` | guarded by `Holds`: running, same owner, lease not over |
| `SetEnabled` | `set_graph_enabled` | off: running rows become interrupted |
| `SaveExchange`, `MarkExchange`, `SetExcluded`, `ActivateProfile` | what other components do to the rows the queue reads | |

Ids are never reused (`AUTOINCREMENT`), so `nextJob` only grows. The rows of one scan
are numbered in any order: the code's order is that of a query and no property
depends on it.

### Graph worker: `GraphRuntime`

`pc[r]` says where a runtime's `run_once` stands, from the free lock to the awaited
report; the module's heading lists the stages. A store call made through
`asyncio.to_thread` becomes a record in `calls` and takes effect in a later step,
whether or not the coroutine that made it still exists. `CancelTask` is
`_cancel_active_task` at each await: a task not begun ends without a report, one that
extracts reports "interrupted", one that waits for its publication leaves that call
behind and reports as well. `Disable` and `Reset` are split where the code awaits.
`Crash` forgets everything in memory; rows stay. Two runtimes on one database are
the situation `tests/test_graph_worker_lifecycle.py` sets up and a restarted service
can produce. `granted` is a ghost: the end of the lease the process was told of.

### Search: `SearchDocuments`, `SearchIndex`

A content stands for the group a document is in. `sync_documents` reads the
revision, the sources and the stored hashes and writes the differences in separate
transactions, so each thread has a record of what it has read (`sync`). A build goes
through queued, syncing, marking, clearing, then checking and sending once per batch
(a document stands for a batch), and ends in promotion, stop or failure.
`ScopeFree` is `_external_scope_lock`. `BeginHandler` and `DeleteIndex` / `SetConfig`
are the two transactions of one handler: no await is between them, but the threads
go on. `raced` is a ghost that records that the index was deleted under a build that
had started between the two; the safety properties are stated for behaviours where
that did not happen, because afterwards they do not hold (two builds may then write
one generation). `BuildLocks` includes the second look at sensitive groups, whose
exception ends the thread and leaves the index queued; `BuildDies` is any other
exception before the index is marked. From then on (`BuildBreaks`) the handlers of
`rebuild_index` settle the build.

### Sessions: `SessionStore`, `SessionHandlers`

A store method runs under the store's lock and is one action, whose guard is what
the method refuses. A file has a place, a session or a group; a label has a group;
`assigned` are the pairs of `session_file_label_assignments`. `VisibleIn` is the
WHERE clause that decides whether a request may touch a file. A handler that looks at
the session or the file and then awaits its body is two actions (`BeginMutate` and
`FinishEdit`, `FinishMove` or `GiveUp`; `BeginLabel` and `FinishLabel`): `tab` keeps
what the coroutine still remembers, the group of the session and the hash of the text
the tab had opened. An upload reads nothing before its worker that could go stale but
the session, and sessions are never deleted, so it is one action.

### Host: `Host`, `Release`, `DatabaseOps`, `CodexRuntime`, `Setup`, `HostOps`

`disk` is what survives everything: the `current` link, the release directories
(absent, without an environment, ready), the database (its schema and its rows),
the copies under `backup_root`, the installation file, the receipt, the pending and
live configuration. `up` is the release whose code the service runs. An operation is
a process `proc[p]` at a labelled step with its local variables; the step's action
does what the call does and names the next step. A step that can raise has an
alternative that leads to the handler of its try block (`BodyRaises`, `UndoRaises`,
`ReplaceRaises`, `RepairRaises`, `ActivateRaises`, ...), or ends the command when
there is none, which sets `torn` if the code leaves its work half done. `Dies` ends a
process at any step: its lock is released by the kernel and no handler runs. The
service stores a row whenever it runs from files that fit (`Fits`: the link's release
is complete and accepts the schema of the database). import and reset stage
their database before they take the lock, with the code the command line runs from;
`mixed` is a ghost that records that one of them put a database in place which the
release of that moment does not accept. `Operations` and `Labels` are all there is to
begin and all the places of a step.

### Service parts: `CodexClient`, `Exchanges`, `OAuth`, `FileWorkers`, `ToolOutputRestart`

`CodexClient`: a call is a coroutine suspended at an await, with what it has sent and
on which connection; the reader handles one message at a time; `turns` are the futures
of `_turns`, `served` is what the server knows of a turn, and which events of a tool it
sent: `ToolEvent` names its turn, which fails; `ToolEventUnnamed` has no `turnId` and is
dropped. What the reader resolves reaches a call when it is resumed, and the loss of the
connection may come first.
`Exchanges`: one session's exchanges with edit, delete, restore and mask, each with
its event in `exchange_admin_events`, the title that is derived, given or suggested,
and a reader that fetches a manifest and then chunk after chunk while everything
changes; the two limits of a chunk are two commits (`SetChunkLimits`). `Transcript` computes lines, pieces and chunks over positions in the text.
`OAuth` splits a handler where one store call commits and the next one may never be
made. `FileWorkers` has the counter, the semaphore and the shielded task;
`ToolOutputRestart` the reservation, the request to systemd, and the process that
reads the mode once, when it starts.

## 3. What the runs show

Bounds are constants named in the modules (`MaxTime`, `MaxJobs`, `MaxOps`, ...),
tested in guards. They are the smallest that let the interesting cases happen; a mutant
of the code's definitions for each property shows that these cases do happen.

| Run | Instance | Shows |
|---|---|---|
| `graph` | 2 lease owners, 2 attempts, a lease of 2 seconds; 2 sessions with 2 exchanges, 4 seconds, 3 rows ("claims"); 1 session with 2 exchanges deleted and restored, its group changed, 2 profiles, 2 seconds, 3 rows ("content"); 2 runtimes, 1 disturbance (off, rescan, stop, crash), 4 seconds, 2 rows ("workers") | `TypeOK`, `AtMostOneLive`, `AttemptsBounded`, `CompletedIffExtracted`, `RuntimeTypeOK`, `HoldersWorkAlone`; `FinalStays`, `LaterAnalysisStays`, `OffKeepsOut`, `RejectedReportIsHarmless`, `InterruptionIsRetried`; the queue, and the workers over it, implement the ledger (`ImplementsLedger`) |
| `graph_live` | 1 runtime, endless clock | `EveryJobSettles`, `EveryResetEnds` |
| `search_index` | 1 document, 2 build threads, automatic start, reader, 1 deletion or restart, 2 generations | `TypeOK`, `OneBuild`, `IndexComplete`; `PreviousUsable`, `BuildingEnds` |
| `host` | 3 releases (two packages, one checkout) of 2 schemas, 1 row; 2 command lines and 2 operations on an installed host of the older version, with 1 crash ("use"); 1 command line and 2 operations on an installed one, with 1 crash ("change"); 1 command line and 3 operations from nothing ("install") | `TypeOK`, `ServedFromLink`, `DataKept`, `LinkInstKept`, `RollbackReady`, `CompanionRecorded`; `ServiceBack`, `AllOrNothing`, `ConfiguresAll`, `ActivatesAll` |
| `sessions` | 2 sessions, 2 groups, 2 files, 1 label, 2 texts, 2 tabs, a quota of one file | `LabelsFollowGroup`, `NothingStranded`, `WithinQuota`; `EditsWereSeen` |
| `service` | 2 calls, 1 conversation, 2 turns, with 1 connection and every method or 2 connections and conversations alone; 2 exchanges, 2 texts, 2 chunk limits, 2 events; 2 connectors, 1 login, 2 codes, 3 pairs of tokens; 5 uploads, 4 admitted, 2 threads; 2 modes | `AnswersAreClean`, `AuditTrail`, `ReadWhole`, `OneLiveGrant`, `WorkersBounded`, `RestartHonoured` |

The bounds. Two attempts let a first attempt fail and a last one run out; a lease of
two seconds lets it be renewed once before it lapses; two lease owners let a job be
held, lost, held by another and asked for by a late call; two exchanges and two profiles
let a job that is older, or was tried before, come after a newer one; two generations let one index replace
another; two revisions after the start let a document change before and during a
build. Three releases are the running one, one to go to and one from a checkout, two
schemas let a release refuse the other's database, one row is enough to be lost, and
two operations let the second meet what the first left behind or, with two command
lines, change the host under it. The quota of one file makes two uploads within it
exceed it together. Two turns in one conversation and two connections let a message
of an old turn or of a lost connection reach a new call. Five uploads against four
admitted and two threads let one be refused, two wait, and one go away. The five parts
of `service` share no state and the run explores them one after the other.

Where a bound stops the system from going on, deadlock is not checked: at `MaxTime`
the clock stops, a queue without clients may rest in any state, and a closed client
or a finished reader does nothing. `host` and `sessions` check for deadlock: `host`
may stop only when the scenario's operations are used up and every process rests.
Sessions, owners, runtimes, groups, tabs and command lines are interchangeable in the
runs that use symmetry; the liveness runs use none. `MaxSyncs = 1` lets one thread
synchronise at a time (section 6).

**Fairness.** `graph_live`: time passes; the event loop runs what is ready (a Codex
turn ends by its timeout, the monitor calls `run_once` every 30 seconds); threads
finish. `Reset` has strong fairness because `reset_all` polls the run lock every 10 ms
and the monitor leaves it free for half a minute between runs. Nothing is assumed
about users, crashes or the switch; `EveryJobSettles` asks only that the switch
finally stays on. `MCGraphLive` keeps the clock going by moving the origin of time at
`MaxTime`: the code compares timestamps only with now and with each other.
`search_index` and `search_stop`: the steps of a started build thread and of its
synchronisation happen (statements return, the provider's client times out). The other runs assume no
fairness and state only safety; `ServiceBack`, `AllOrNothing`, `ConfiguresAll` and
`ActivatesAll` are about the step that ends an operation.

## 4. What is proved

For every value of the constants, under the named assumptions of the modules: sorts
of the constants, at least one attempt, a positive lease, values such as `NoOwner`,
`NoJob`, `NoCall`, `Nobody`, `Unsaved` or `None` that are none of the sets they stand
beside, finitely many Graph sessions and releases, limits, sizes and versions that are
natural numbers, and that a line of a transcript has at least its line end
(`splitlines` gives no empty one). Every safety property of a passing run is stated by a
theorem.

| Module | Theorems | Inductive invariant |
|---|---|---|
| `GraphJobs_proofs` | `TypeCorrect`; `QueueSafe` and from it `OneLiveLease`, `AttemptsNeverExceeded`, `ExtractionMatchesJob`; `FinalForGood`; `LaterAnalysesStay`; `QueueImplementsLedger` | `QueueInv`, `OrderInv` |
| `GraphRuntime_proofs` | `WorkersUseTheQueue`, `RuntimeImplementsLedger`; `RuntimeSafe` and from it `RuntimeTypeCorrect`, `HoldersAlone`, `NothingEntersWhileOff`, `RejectedReportsHarmless`, `InterruptionsRetried` | `RuntimeInv` |
| `SessionHandlers_proofs` | `SessionTypes`, `SessionsNotStranded`, `LabelsAreShown`, `EditsAreSeen`; `QuotasHold` | `Filed`, `QuotaInv` |
| `Exchanges_proofs` | `LogIsHistory`; `TranscriptsReadWhole` | `LogInv`, `ReaderInv` |
| `Service_proofs` | `AnswersStayClean`, `GrantsOnce`, `WorkersStayBounded`, `ReservationsHonoured` | `CodexInv`, `GrantInv`, `WorkersInv`, `RestartInv` |
| `SearchIndex_proofs` | `IndexSafe` and from it `IndexTypesKept`, `BuildsAlone`, `ActiveIsComplete`; `PreviousStays` | `IndexInv` |
| `Host_proofs` | `TypeCorrect`, `DataAreKept`, `CompanionIsRecorded`; `ConfigurationsAreWhole`, `ActivationsAreWhole`, `ChangesAreWhole`; `AlwaysServedFromLink`, `EveryServiceComesBack`; `LinkInstStays`, `LinkInstIsKept`, `RollbacksAreReady`, `ServicesComeBack` | `HostInv`, `DataInv`, `CompanionInv`, `WholeInv`, `BackInv`, `UpkeepInv` |

**Graph queue.** Its invariants are not inductive one by one: a claim keeps
`AtMostOneLive` because of its guard, a publication keeps `CompletedIffExtracted` only
if nobody else is live and the row is not final, and a renewal could revive a second
lease if a row that is not running had one. `QueueInv` joins the three (live leases,
attempts, extractions) with "only running rows have an owner and a lease" and "no row is
running while Graph is off", and `QueueStep` shows each action preserves
it. The refinement maps a live lease to a holder; every action becomes a ledger step
or a stutter (a renewal and the passing of time, until the lease runs out, when the
holder loses its job). `LaterAnalysesStay` rests on `OrderInv`: a row due before one that
was handed out or completed is no longer waiting for its first claim, and is not held on
its first attempt; so what is published later without a retry came due later.

**Graph workers.** They use the queue only through its actions (`StoreStep`), so all
queue theorems carry over to the running system. For `HoldersAlone` the memory of a
process must be tied to the store: `WorkerOK` (a runtime at work has a job and an
owner), `ClaimInv` (no two claims share a lease owner, and a call belongs to the claim
that made it, even when its runtime has moved on), `LeaseKept` (a lease a runtime
believes in is in the row, unless the row was deleted or the job given back) and
`RejectedLost` (a runtime whose publication was refused has lost its job for good).
`HoldersAlone` then follows from `AtMostOneLive`. For `NothingEntersWhileOff` the row must
still be held under the lease the process was told of (`GrantMatches`): the switch takes
running rows back in its own transaction, and a lease only its holder renews.

**Search.** `IndexInv` ties a build's memory to the tables (`BuildOK`): the generation it
writes is the one after the active one, so that nothing it stores or deletes is of the
active one; from the moment it has cleared that generation, the generation holds exactly
what the snapshot wants without what is still to be sent, so that promotion makes it
complete. `OneBuild` is needed for this (a second build would write the same
generation), and needs in turn that a status that tells of no build is only left by
`start_rebuild`. That "building" means a thread at work is proved of `building` alone (a
thread may die and leave `queued`, section 5), and under the assumption that the
statements which settle a build (`search.py:780`, `:789`) do not fail. The theorems hold however many synchronisations overlap, since a build
copies its snapshot in one step.

**Sessions.** `Filed` joins the types, "every session, file and label is in a group or
session that is there" and "a file's labels are of the group that shows it". The three
hold together or not at all: deleting a group is right only because it moves what is in
it and drops its labels. `QuotasHold`: a sum over the stored files is the number of their
units (pairs of a file and a number up to its size), so that a file more or less is a set
more or less; that the recursive function the code's SUM is modelled by exists, and gives
that number, is shown by induction over the finite sets of files. The invariant needs
nothing else, because an insertion adds up and inserts in one transaction.

**Exchanges.** `LogInv`: rows and events are well typed, nothing is recorded of a row that
is not saved (else the first event of an exchange would have a past), and the log of every
row leads to it. `ReaderInv`: what a reader holds are the first chunks, in number as many
as it has asked for, of the transcript whose hash it holds, cut by the limits it holds; a
change between two calls changes one of the two, and the reader gives up. That the chunks
of a transcript are the whole of it is a fact about `Transcript` alone
(`WholeTranscript`): lines cut into pieces, pieces gathered into chunks, each cover the
same positions without a gap (`Tile`), by induction along the folds. The induction of the
library takes an operator and cannot be used; `SetInduction` is induction over a set of
numbers, from their well-foundedness, and `FoldExists` shows that the function a fold
chooses exists before anything is said of its values.

**Service.** `AnswersStayClean`: `Relies` ties a call to its turn, through the
handshake, the messages that come before the response and the loss of the connection:
the turn a call waits for is its own, and a tool event that names its turn is never
overlooked on a connection that lives (one that names no turn is, section 5). `GrantsOnce`: descendants of a code come from a used code, and of
them at most one is good, since a refresh uses up the pair before it stores the next.
`WorkersStayBounded`: the counter is the number of tasks, a thread belongs to a task
that is running. `ReservationsHonoured`: while a restart is reserved the mode is the
one it was reserved for.

**Host.** `Host_steps` has, for each step of `Release`, `DatabaseOps`, `CodexRuntime` and
`Setup`, what it changes and where it leads; in `Host_proofs` each invariant is then a
case analysis over the label at which a process stands.

* `HostInv` adds to the types that a process stands at a label of its own operation
  (`Placed`), that everybody but the holder of the lock is idle, not yet past its lock,
  or staging a setup (`Single`), and that a process has what its next step relies on
  (`Ready`). So at most one operation is between the begin and the end of its work.
* `DataInv`: at every label from which the database may still be replaced (`Secured`)
  every quiet row is in a backup.
* `CompanionInv`: with the lock free the status file is true; its holder either keeps it
  so or is at a label at which the old runtime is aside, and then has in its locals what
  was recorded (`Told`).
* `WholeInv`: the holder of the lock, if it changes the release, configures or activates,
  is as far as its label says (`Settling`): which of link, installation file, database and
  files are still those of the beginning, which are already those of the target, that its
  copy is there and of the beginning, and that what it captured is what it found. It
  says nothing of who worked or died before, and of the operations without the lock
  only that they leave those parts alone.
* `ServedFromLink` is inductive with `HostInv`: `Ready` has the service stopped at every
  label at which the link is switched or releases are removed.
* `BackInv` is about an operation that found the service running (`was`) and has to leave
  one, once it holds the lock or while it waits for it with a staged database: the
  release of the beginning is complete, and if the operation is none of those of `WholeInv`
  that change the release, the link, the schema and every database it may still put in
  place are those of the beginning (`Serving`).
* `UpkeepInv` is about a host that is used (`OnlyUpkeep`: no setup, activation,
  configuration or uninstall at work) and on which no operation died. With the lock free
  link, installation file and database agree and a completed receipt can be rolled back to;
  a change of the release at work began with what agreed and aims at what agrees
  (`Aims`), and how far it got is what `WholeInv` says; an operation on the database has a
  copy that fits (`Backed`).

The hypotheses. `[]SetupAlone` says that the staging steps of `setup` with answers on its
command line do not run beside a change of the release, a configuration or an activation:
they take no lock and write the database and the installation file (`install.py:154`), so
that without it `AllOrNothing`, `ConfiguresAll` and `ActivatesAll` are false with two
command lines; the run has one command line in those scenarios. `[]StagedAlone`
says in addition that nobody works while such a setup stages, or while an import or a
reset waits for the lock with its staged database. Another command line may uninstall
in that window, after which the import leaves no service; `ServicesComeBack` covers it
without `StagedAlone` for hosts on which nobody uninstalls or sets up. `[]OnlyUpkeep` and
`disk.link # None` make the scenario "use" of the run `host` general: any number of
operations and processes, on a host that is set up. `LinkInstAgree` and `RollbackReady`
need it: the staging steps of setup, run from the menu with the code of a release that is
only to be activated, write its version into the installation file and migrate the
database in place; an update that comes before the activation then copies a database
that the release of its receipt does not accept. `[]Foreseen`
of `CompanionIsRecorded` says that the plan of an uninstall has the companion's status
file if there is one when the uninstall removes. The plan is made before the lock, so
the lock does not give this; without it the property is false with two command lines
(see the end of section 5). The run has the uninstall only with one. That the four boxed
hypotheses are needed was seen in TLC, on two releases, two command lines and two
operations of the kinds they keep apart: without them the properties are violated.

Three statements about the host were wrong before the proofs and are corrected: `mixed`
was missing (an import that staged its database under a release that was replaced may
also leave a receipt whose copy its release does not accept, so `RollbackReady`
exempts it too, and `ServiceBack` exempts what comes after it); a database without a
schema was allowed to have rows; and a service without unit files could be started.

Only model-checked: everything temporal under fairness (`EveryJobSettles`,
`EveryResetEnds`, `BuildingEnds`), which is out of the prover's reach.

## 5. Where the code differs from what is said of it

Each is a run that ends in a counterexample; the findings in `PROJECT.json` quote
the lines.

* `graph_eligible`: a job interrupted by the switch is never taken up again, and its
  row keeps the session from being queued.
* `graph_off`: Graph is turned off between the commit of a claim and the creation of its
  task; the task runs its Codex turn although Graph is off. What it finds is refused, and
  nothing else enters the graph (`OffKeepsOut`).
* `search_late`: promotion clears the dirty marks of documents changed after the
  build's snapshot, which no threshold counts from then on.
* `search_stop`: an exception before a build has marked the index ends its thread and
  leaves the index queued; stopping it has no effect, and building, deleting and
  configuring are refused until the service restarts.
* `host_late`: rows stored between the first copy of an activation and the stop of the
  service are lost when the activation fails before its second copy.
* `codex_handshake`: a call that finds the socket open starts its conversation while
  the handshake of another call, which is to reject a wrong version, is unanswered.

Also seen while modelling, in steps the modules have but without a run of their own:

* A rescan lets its rows wait for the lease of the running job it deletes
  (`test_reset_graph_scan_waits_for_the_previous_running_lease`). A second rescan finds no
  running job to wait for, and jobs of a newly activated profile do not wait: another
  process can then start while the first still works under its lease (`storage.py:1327`).
* A rescan queues, and pays for, the keys it has deleted once more: the UNIQUE key keeps
  out only what is in the table.
* A job that has to be tried again comes due after jobs queued meanwhile, and its older
  analysis then replaces theirs (`LaterAnalysisStays` names the case); so does, after a
  rescan, a job of the old profile that waits for a lease while one of the new profile
  does not. Under its UNIQUE key the newer work is not queued again (`storage.py:1248`).
* A session whose group turns sensitive after its job was queued is still handed to
  the worker (`storage.py:1424`).
* The automatic start carries the configuration it has read across a synchronisation
  and starts a build of a group the owner has taken out meanwhile (`search.py:836`).
* A tool event whose params have no string `turnId` fails no turn, and the turn's answer is
  returned (`codex_app_server.py:328`); `docs/security.md:112` says the turn fails.
* The plan of an uninstall is shown and confirmed before the lock is taken
  (`uninstall.py:45`, `:80`). A companion that is enabled meanwhile is not in it: the
  uninstall removes the runtime with the directory it lies in and leaves the unit and a
  status file that says complete and enabled.

## 6. Abstractions

Graph and search
* The clock is read inside the transaction; the code reads it just before.
* `max_attempts` is one constant. Rows of older versions with another limit and the
  start-up statements that cap and recover them are not modelled.
* `Inactivity` is the same for all profiles. The time of an exchange is the time it
  is saved: `app/main.py` never passes another.
* A refused renewal is one step; what the heartbeat then does to its task is in it.
* In `SearchDocuments` exchanges and files are read in one step (two SELECTs in the
  code). `set_config` writes setting and index state in one step. One
  `maybe_start_rebuild` runs at a time. The statements that settle a build
  (`search.py:780`, `:789`) do not fail: a failure in those handlers would leave the
  index "building" with no thread. That an up-to-date revision means up-to-date
  documents fails when two threads synchronise at once. The properties of the index
  are about the snapshot a build reads, whatever the synchronisations have made of
  the documents until then, and about behaviours without the race `raced` records.
* A statement fails only where the code has a path for it (a build's steps, a
  synchronisation); a database that cannot be written at all is not modelled.

Host
* A database is its schema and its rows; inspecting one is asking whether the schema
  fits. Fetching and verifying a release is one step that may fail. Prompts, file
  modes, generated texts and the contents of a configuration are left out.
* `torn` records that a process died, or that an exception left its operation half
  done where no handler is. `DataKept` holds with and without it; the other properties
  of the host are stated for behaviours without it.
* `DataKept` is about rows stored outside the windows the code leaves open: while a
  release is on trial, whose roll-back restores the copy, and after the early copy of
  an activation (`LateWritesKept` is about that one and fails).
* `ServiceBack` exempts setup, its menu, uninstall and stop, whose purpose it is to
  change the service, and an import or reset that staged its database with a release
  that was replaced before it took the lock.
* `LinkInstKept` is about an installed host; setup publishes link and installation
  file in different commands.

Sessions and service
* A text, a title, a label is a member of a small set; an exchange's audit record has
  only the row before and after.
* A quota is a number of files; what the workers find out about a file is a choice.
* In `Transcript` a text is a range of positions and a chunk a list of pieces of lines.
* Secrets, PKCE, redirect URIs and resources of `OAuth` are compared only: a request
  with a wrong one changes nothing and is left out.
* Codex: one message at a time, in order within a connection; interrupts of a turn are
  requests whose answers nobody reads and are left out.
* The five parts of `service` are composed without interaction because the code has
  none between them.

## 7. Plan

Modelled, checked and, as far as section 4 says, proved: Graph, search, sessions, host,
service parts. What is left, in order:

1. A run of the search modules in which synchronisations overlap and a cancellation is
   lost at the start of a build.
2. `LinkInstAgree` and `RollbackReady` with setup and activation among the operations: an
   invariant of the staged release and the pending files, and the hypothesis on the order
   of staging and update that they need.
3. The Codex client in place of the turn `GraphRuntime` leaves open.
4. Graph profiles and Lab runs over `GraphJobs`; the clock read before the lock.
5. The output probe's recommendation as a pure function over the limits it measured.

## 8. Not modelled

* Graph profiles and Lab, but for the effect of an activation on the queue: drafts are
  rows edited by one form, and validating an extraction is a check of JSON shape.
* The output probe: rows written once and read back; the classification compares texts
  character by character.
* Conversation export: a parser and a Markdown writer that runs alone in a directory
  it has made.
* Web front end: HTML, CSS and browser code. Terminal menus, the wizard's questions and
  reports. Request parsing, cookies, CSRF tokens, headers and limits on bodies, which
  keep no state between requests.
* Reading of PDFs and images in subprocesses (library code), ranking and snippets of
  the search, prompts and the content of extraction results, formatting, vendored code.

`PROJECT.json` lists every component with its status and what of it is left out.
