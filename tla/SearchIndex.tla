----------------------------- MODULE SearchIndex -----------------------------
(***************************************************************************)
(* The vector index of app/search.py over the search documents, with the   *)
(* handlers of app/admin.py that use it.                                   *)
(*                                                                         *)
(* A build is a thread of its own: queued by start_rebuild, it takes a     *)
(* snapshot of the documents of its groups and sources, writes the chunks  *)
(* of a new generation batch by batch, and promotes the generation.  The   *)
(* handlers run on the event loop, one at a time; the automatic start and  *)
(* the synchronisations run in threads.                                    *)
(*                                                                         *)
(* A content stands for the group its document is in, and a configuration  *)
(* for the groups whose documents may be sent to the embedding provider;   *)
(* {} is "RAG search disabled" or no group selected.  A document stands    *)
(* for one batch of chunks.                                                *)
(***************************************************************************)
EXTENDS SearchDocuments

CONSTANTS
  Builders,     \* build threads
  AutoThread,   \* the thread of maybe_start_rebuild
  MaxGeneration,\* bound: generations numbered
  MaxUpsets     \* bound: deletions of the index and restarts of the service

ASSUME SearchIndexAssumption ==
  /\ Builders \subseteq Threads
  /\ AutoThread \in Threads \ Builders
  /\ MaxGeneration \in Nat
  /\ MaxUpsets \in Nat

VARIABLES
  config,    \* app_settings[search.config]
  sensitive, \* groups with is_sensitive
  index,     \* search_index_state
  chunks,    \* search_vector_chunks: [gen, doc, content]
  build,     \* build thread -> where it stands
  auto,      \* where maybe_start_rebuild stands, and its configuration
  handler,   \* what the event loop is in the middle of
  promoted,  \* ghost: the snapshot of the active generation
  raced,     \* ghost: the index was deleted under a queued or running build
  deletes, crashes \* ghosts: count towards the bound

scope == <<config, sensitive>>
state == <<scope, index, chunks>>
ghosts == <<promoted, raced, deletes, crashes>>
vars == <<sources, documented, sync, state, build, auto, handler, ghosts>>

Configs == SUBSET Contents

Busy == {"queued", "building"}

\* 0 is active_generation IS NULL; signature {} is index_config_hash IS NULL.
Index == [active : Nat, status : {"empty", "ready", "failed"} \cup Busy,
          cancel : BOOLEAN, suppressed : BOOLEAN, signature : Configs]

Chunk == [gen : Nat, doc : Docs, content : Contents]

Stages == {"none", "queued", "syncing", "marking", "clearing", "checking",
           "sending", "stopping", "failing"}

\* todo: prepared documents not yet sent; wanted: all of them, as read.
Build == [at : Stages, config : Configs, gen : Nat, wanted : Rows, todo : SUBSET Docs]
NoBuild == [at |-> "none", config |-> {}, gen |-> 0, wanted |-> NoRows, todo |-> {}]

NoAuto == [at |-> "none", config |-> {}]

TypeOK ==
  /\ DocumentsTypeOK
  /\ config \in Configs
  /\ sensitive \in SUBSET Contents
  /\ index \in Index
  /\ chunks \subseteq Chunk
  /\ build \in [Builders -> Build]
  /\ auto \in [at : {"none", "syncing", "starting"}, config : Configs]
  /\ handler \in {"none", "deleting", "saving"}
  /\ promoted \in Rows
  /\ raced \in BOOLEAN
  /\ deletes \in Nat
  /\ crashes \in Nat

Init ==
  /\ DocumentsInit
  /\ config = {}
  /\ sensitive = {}
  /\ index = [active |-> 0, status |-> "empty", cancel |-> FALSE,
              suppressed |-> FALSE, signature |-> {}]
  /\ chunks = {}
  /\ build = [b \in Builders |-> NoBuild]
  /\ auto = NoAuto
  /\ handler = "none"
  /\ promoted = NoRows
  /\ raced = FALSE
  /\ deletes = 0
  /\ crashes = 0

-----------------------------------------------------------------------------

\* The status of an index nobody builds.
Rest(active) == IF active = 0 THEN "empty" ELSE "ready"

\* _external_scope_lock is held by the first half of rebuild_index.
ScopeFree == \A b \in Builders : build[b].at \notin {"syncing", "marking"}

Idle(b) == build[b].at = "none"

\* Mutant of Selected: the groups are not looked at.
SelectedAll(rows, c) == Docs

\* The documents a configuration lets into the index.
Selected(rows, c) == {d \in Docs : rows[d] \in c}

\* effective_external_config
Effective(c) == c \ sensitive

NeedsRebuild == index.active = 0 \/ index.signature # Effective(config)

\* Mutant of StartRebuild: only a running build is refused, not a queued one.
StartRebuildTwice(b, c) ==
  /\ index.active < MaxGeneration
  /\ ScopeFree
  /\ Effective(c) # {}
  /\ index.status # "building"
  /\ Idle(b)
  /\ index' = [index EXCEPT !.status = "queued", !.cancel = FALSE, !.suppressed = FALSE]
  /\ build' = [build EXCEPT ![b] = [NoBuild EXCEPT !.at = "queued", !.config = Effective(c)]]
  /\ UNCHANGED <<scope, chunks>>

\* start_rebuild: the index is marked queued and a build thread started.
StartRebuild(b, c) ==
  /\ index.active < MaxGeneration
  /\ ScopeFree
  /\ Effective(c) # {}
  /\ index.status \notin Busy
  /\ Idle(b)
  /\ index' = [index EXCEPT !.status = "queued", !.cancel = FALSE, !.suppressed = FALSE]
  /\ build' = [build EXCEPT ![b] = [NoBuild EXCEPT !.at = "queued", !.config = Effective(c)]]
  /\ UNCHANGED <<scope, chunks>>

(***************************************************************************)
(* rebuild_index, in the build thread                                      *)
(***************************************************************************)

Goto(b, stage) == build' = [build EXCEPT ![b].at = stage]

\* The call of sync_documents begins, or returns because nothing changed.
CallSync(t) == ReadRevision(t) \/ (UpToDate /\ UNCHANGED <<sources, documented, sync>>)

\* It takes the scope lock, leaves out groups that turned sensitive, and calls
\* sync_documents; with no group left it ends in an exception.
BuildLocks(b) ==
  /\ build[b].at = "queued"
  /\ ScopeFree
  /\ LET c == Effective(build[b].config) IN
       \/ /\ c # {}
          /\ build' = [build EXCEPT ![b].at = "syncing", ![b].config = c]
          /\ CallSync(b)
       \/ /\ c = {}
          /\ build' = [build EXCEPT ![b] = NoBuild]
          /\ UNCHANGED <<sources, documented, sync>>
  /\ UNCHANGED <<state, auto, handler, ghosts>>

\* The state is read: another build is running, this one was cancelled, or the
\* documents are read.
BuildReads(b) ==
  /\ build[b].at = "syncing"
  /\ ~Syncing(b)
  /\ \/ /\ index.status = "building"
        /\ build' = [build EXCEPT ![b] = NoBuild]
        /\ UNCHANGED index
     \/ /\ index.status # "building"
        /\ index.cancel
        /\ index' = [index EXCEPT !.status = Rest(index.active), !.cancel = FALSE]
        /\ build' = [build EXCEPT ![b] = NoBuild]
     \/ /\ index.status # "building"
        /\ ~index.cancel
        /\ LET wanted == [d \in Docs |-> IF documents[d] \in build[b].config
                                         THEN documents[d] ELSE Absent]
           IN  build' = [build EXCEPT ![b].at = "marking",
                                      ![b].gen = index.active + 1,
                                      ![b].wanted = wanted,
                                      ![b].todo = Selected(wanted, Contents)]
        /\ UNCHANGED index
  /\ UNCHANGED <<sources, documented, sync, scope, chunks, auto, handler, ghosts>>

\* The index is marked building, and the scope lock released.
BuildMarks(b) ==
  /\ build[b].at = "marking"
  /\ index' = [index EXCEPT !.status = "building", !.cancel = FALSE, !.suppressed = FALSE]
  /\ Goto(b, "clearing")
  /\ UNCHANGED <<sources, documented, sync, scope, chunks, auto, handler, ghosts>>

\* Mutant of BuildClears: leftovers of an earlier attempt stay.
BuildClearsNothing(b) ==
  /\ build[b].at = "clearing"
  /\ Goto(b, "checking")
  /\ UNCHANGED <<sources, documented, sync, state, auto, handler, ghosts>>

\* Leftovers of an attempt that a restart cut off are deleted.
BuildClears(b) ==
  /\ build[b].at = "clearing"
  /\ chunks' = {c \in chunks : c.gen # build[b].gen}
  /\ Goto(b, "checking")
  /\ UNCHANGED <<sources, documented, sync, scope, index, auto, handler, ghosts>>

\* Before each batch: was the build cancelled?
BuildChecks(b) ==
  /\ build[b].at = "checking"
  /\ build[b].todo # {}
  /\ Goto(b, IF index.cancel THEN "stopping" ELSE "sending")
  /\ UNCHANGED <<sources, documented, sync, state, auto, handler, ghosts>>

\* The provider answered and the chunks are stored: UNIQUE(generation, document, index).
BuildStores(b) ==
  /\ build[b].at = "sending"
  /\ \E d \in build[b].todo :
       /\ \A c \in chunks : ~(c.gen = build[b].gen /\ c.doc = d)
       /\ chunks' = chunks \cup {[gen |-> build[b].gen, doc |-> d,
                                  content |-> build[b].wanted[d]]}
       /\ build' = [build EXCEPT ![b].at = "checking", ![b].todo = @ \ {d}]
  /\ UNCHANGED <<sources, documented, sync, scope, index, auto, handler, ghosts>>

\* An exception once the index is marked: of chunking, of the deletion of leftovers, of the
\* provider, of storing a batch, or of the promotion.
BuildBreaks(b) ==
  /\ build[b].at \in {"clearing", "checking", "sending"}
  /\ Goto(b, "failing")
  /\ UNCHANGED <<sources, documented, sync, state, auto, handler, ghosts>>

\* The generation becomes the active one; all dirty marks are taken off.
BuildPromotes(b) ==
  /\ build[b].at = "checking"
  /\ build[b].todo = {}
  /\ index' = [index EXCEPT !.active = build[b].gen, !.status = "ready", !.cancel = FALSE,
                            !.signature = build[b].config]
  /\ dirty' = {}
  /\ chunks' = {c \in chunks : index.active # 0 => c.gen # index.active}
  /\ promoted' = build[b].wanted
  /\ build' = [build EXCEPT ![b] = NoBuild]
  /\ UNCHANGED <<sources, synced, documents, sync, scope, auto, handler, raced, deletes, crashes>>

\* Mutant of BuildEnds: all chunks are deleted.
BuildEndsWithNothing(b, status) ==
  /\ chunks' = {}
  /\ index' = [index EXCEPT !.status = status, !.cancel = FALSE]
  /\ build' = [build EXCEPT ![b] = NoBuild]
  /\ UNCHANGED <<sources, documented, sync, scope, auto, handler, ghosts>>

\* Mutant of BuildEnds: the status is left as it was.
BuildEndsSilently(b, status) ==
  /\ chunks' = {c \in chunks : c.gen # build[b].gen}
  /\ index' = [index EXCEPT !.cancel = FALSE]
  /\ build' = [build EXCEPT ![b] = NoBuild]
  /\ UNCHANGED <<sources, documented, sync, scope, auto, handler, ghosts>>

\* The generation is given up: stopped by the owner, or failed.
BuildEnds(b, status) ==
  /\ chunks' = {c \in chunks : c.gen # build[b].gen}
  /\ index' = [index EXCEPT !.status = status, !.cancel = FALSE]
  /\ build' = [build EXCEPT ![b] = NoBuild]
  /\ UNCHANGED <<sources, documented, sync, scope, auto, handler, ghosts>>

BuildStops(b) == build[b].at = "stopping" /\ BuildEnds(b, Rest(index.active))
BuildFails(b) == build[b].at = "failing" /\ BuildEnds(b, "failed")

\* An exception of the first half of rebuild_index ends the thread and is logged: the
\* index stays queued.
BuildDies(b) ==
  /\ build[b].at \in {"syncing", "marking"}
  /\ build' = [build EXCEPT ![b] = NoBuild]
  /\ sync' = [sync EXCEPT ![b] = NoSync]
  /\ UNCHANGED <<sources, documented, state, auto, handler, ghosts>>

(***************************************************************************)
(* maybe_start_rebuild, in a thread                                        *)
(***************************************************************************)

AutoChecks ==
  /\ auto.at = "none"
  /\ Effective(config) # {}
  /\ index.status \notin Busy \cup {"failed"}
  /\ ~index.suppressed
  /\ auto' = [at |-> "syncing", config |-> Effective(config)]
  /\ CallSync(AutoThread)
  /\ UNCHANGED <<state, build, handler, ghosts>>

\* A rebuild is due when the index is missing or of another configuration, or when
\* enough documents are dirty or one of them has been for long enough.
AutoDecides ==
  /\ auto.at = "syncing"
  /\ ~Syncing(AutoThread)
  /\ \/ /\ NeedsRebuild \/ dirty # {}
        /\ auto' = [auto EXCEPT !.at = "starting"]
     \/ /\ ~NeedsRebuild
        /\ auto' = NoAuto
  /\ UNCHANGED <<sources, documented, sync, state, build, handler, ghosts>>

AutoStarts ==
  /\ auto.at = "starting"
  /\ \/ \E b \in Builders : StartRebuild(b, auto.config)
     \/ /\ ScopeFree
        /\ index.status \in Busy \/ Effective(auto.config) = {}
        /\ UNCHANGED <<state, build>>
  /\ auto' = NoAuto
  /\ UNCHANGED <<sources, documented, sync, handler, ghosts>>

(***************************************************************************)
(* The handlers of the admin interface, on the event loop                  *)
(***************************************************************************)

RequestRebuild(b) ==
  /\ handler = "none"
  /\ StartRebuild(b, config)
  /\ UNCHANGED <<sources, documented, sync, auto, handler, ghosts>>

CancelRebuild ==
  /\ handler = "none"
  /\ index.status \in Busy
  /\ index' = [index EXCEPT !.cancel = TRUE, !.suppressed = TRUE]
  /\ UNCHANGED <<sources, documented, sync, scope, chunks, build, auto, handler, ghosts>>

\* Deleting the index and changing its configuration are refused while a build is
\* queued or running; the status is read first, in a transaction of its own.
BeginHandler(what) ==
  /\ handler = "none"
  /\ index.status \notin Busy
  /\ what = "deleting" => deletes + crashes < MaxUpsets
  /\ handler' = what
  /\ UNCHANGED <<sources, documented, sync, state, build, auto, ghosts>>

DeleteIndex ==
  /\ handler = "deleting"
  /\ handler' = "none"
  /\ chunks' = {}
  /\ index' = [active |-> 0, status |-> "empty", cancel |-> FALSE,
               suppressed |-> TRUE, signature |-> {}]
  /\ promoted' = NoRows
  /\ raced' = (raced \/ index.status \in Busy)
  /\ deletes' = deletes + 1
  /\ UNCHANGED <<sources, documented, sync, scope, build, auto, crashes>>

\* set_config: a change of the configuration allows automatic builds again, also
\* one that leaves search enabled without a group ({} may be either).
Configure(c, changed) ==
  /\ config' = c
  /\ index' = IF changed
              THEN [index EXCEPT !.suppressed = FALSE,
                                 !.status = IF @ \in Busy THEN @ ELSE Rest(index.active)]
              ELSE index

SetConfig(c) ==
  /\ handler = "saving"
  /\ handler' = "none"
  /\ c \cap sensitive = {}
  /\ \E changed \in IF c = {} THEN BOOLEAN ELSE {c # config} : Configure(c, changed)
  /\ UNCHANGED <<sources, documented, sync, sensitive, chunks, build, auto, ghosts>>

\* A group turns sensitive, and leaves the configuration first; the scope lock is
\* held.  Refused under a build when the group is configured.
MarkSensitive(g) ==
  /\ handler = "none"
  /\ ScopeFree
  /\ g \notin sensitive
  /\ \/ /\ g \in config
        /\ index.status \notin Busy
        /\ Configure(config \ {g}, TRUE)
     \/ /\ g \notin config
        /\ UNCHANGED <<config, index>>
  /\ sensitive' = sensitive \cup {g}
  /\ UNCHANGED <<sources, documented, sync, chunks, build, auto, handler, ghosts>>

UnmarkSensitive(g) ==
  /\ handler = "none"
  /\ ScopeFree
  /\ g \in sensitive
  /\ sensitive' = sensitive \ {g}
  /\ UNCHANGED <<sources, documented, sync, config, index, chunks, build, auto, handler, ghosts>>

\* The service dies with its threads, and is started again.
Restart ==
  /\ deletes + crashes < MaxUpsets
  /\ crashes' = crashes + 1
  /\ sync' = [t \in Threads |-> NoSync]
  /\ build' = [b \in Builders |-> NoBuild]
  /\ auto' = NoAuto
  /\ handler' = "none"
  /\ index' = IF index.status \in Busy
              THEN [index EXCEPT !.status = Rest(index.active), !.cancel = FALSE]
              ELSE index
  /\ UNCHANGED <<sources, documented, scope, chunks, promoted, raced, deletes>>

-----------------------------------------------------------------------------

\* A thread that searches, estimates or reports: only its synchronisation matters.
SearchSyncs ==
  /\ \E t \in Threads \ (Builders \cup {AutoThread}) : ReadRevision(t)
  /\ UNCHANGED <<state, build, auto, handler, ghosts>>

SyncStepNext ==
  /\ \E t \in Threads : SyncStep(t)
  /\ UNCHANGED <<state, build, auto, handler, ghosts>>

SourceNext ==
  /\ \E d \in Docs, c \in Contents \cup {Absent} : Change(d, c)
  /\ UNCHANGED <<state, build, auto, handler, ghosts>>

BuildStep(b) ==
  \/ BuildLocks(b) \/ BuildReads(b) \/ BuildMarks(b) \/ BuildClears(b) \/ BuildChecks(b)
  \/ BuildStores(b) \/ BuildBreaks(b) \/ BuildPromotes(b) \/ BuildStops(b) \/ BuildFails(b)
  \/ BuildDies(b)

AutoStep == AutoChecks \/ AutoDecides \/ AutoStarts

HandlerStep ==
  \/ \E b \in Builders : RequestRebuild(b)
  \/ CancelRebuild
  \/ \E what \in {"deleting", "saving"} : BeginHandler(what)
  \/ DeleteIndex
  \/ \E c \in Configs : SetConfig(c)
  \/ \E g \in Contents : MarkSensitive(g) \/ UnmarkSensitive(g)

Next ==
  \/ SourceNext \/ SearchSyncs \/ SyncStepNext
  \/ \E b \in Builders : BuildStep(b)
  \/ AutoStep
  \/ HandlerStep
  \/ Restart

Spec == Init /\ [][Next]_vars

\* A build goes on: sync_documents and the statements return, the provider answers
\* or its client times out.
Fairness ==
  \A b \in Builders :
    /\ WF_vars(BuildStep(b))
    /\ WF_vars(SyncStep(b) /\ UNCHANGED <<state, build, auto, handler, ghosts>>)

FairSpec == Spec /\ Fairness

-----------------------------------------------------------------------------

ChunksOf(gen) == {c \in chunks : c.gen = gen}

Writing(b) == build[b].at \notin {"none", "queued", "syncing", "marking"}

\* start_rebuild's status check and the lock around it (search.py:797): at most one
\* thread has a build to do, and the status tells of it, which is what every handler
\* that must not touch the index under a build goes by.  The index is called building only
\* while a thread is at it, whatever fails or restarts, as long as the statements that
\* settle a build (search.py:780, 789) do not fail.  Of "queued" that is not so: see
\* StoppedBuildEnds.
OneBuild ==
  ~raced =>
    /\ \A b, c \in Builders : ~Idle(b) /\ ~Idle(c) => b = c
    /\ \A b \in Builders : ~Idle(b) => index.status \in Busy
    /\ index.status = "building" <=> \E b \in Builders : Writing(b)

\* CHANGELOG.md:306, "atomically promote a completed generation": the active
\* generation holds every selected document of the snapshot it was built from, as
\* the snapshot had it, and nothing that an earlier attempt at that generation, cut
\* off by a restart, had left behind.
IndexComplete ==
  ~raced /\ index.active # 0 =>
    ChunksOf(index.active) =
      {[gen |-> index.active, doc |-> d, content |-> promoted[d]] :
         d \in Selected(promoted, index.signature)}

\* CHANGELOG.md:306, "keeping the previous index available if a rebuild is stopped
\* or fails": no step of a build, a cancellation, a failure or a restart touches the
\* chunks of the active generation, until another is promoted or all are deleted.
PreviousUsable ==
  [][~raced' /\ index'.active = index.active /\ index.active # 0 =>
       ChunksOf(index.active)' = ChunksOf(index.active)]_vars

\* A build that has marked the index comes to an end, after any cancellation, failure or
\* restart (search.py:779, 788).
BuildingEnds == (index.status = "building") ~> (index.status # "building")

(***************************************************************************)
(* What the documents say and the code does not keep                       *)
(***************************************************************************)

\* admin.py:940, "Stop the active build before deleting the index": a build that is asked to
\* stop, queued or running, stops, and the index can be deleted, or built again.
StoppedBuildEnds == (index.status \in Busy /\ index.cancel) ~> (index.status \notin Busy)

\* CHANGELOG.md:307, "configurable message and maximum-wait thresholds control when
\* automatic rebuilds are scheduled": a document that is not indexed as it stands
\* is dirty, so that it counts towards the thresholds.
LateChangesStayDirty ==
  ~raced /\ index.active # 0 /\ ~NeedsRebuild =>
    \A d \in Docs : documents[d] # promoted[d] /\ {documents[d], promoted[d]} \cap config # {}
                      => d \in dirty
=============================================================================
