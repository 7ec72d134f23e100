------------------------- MODULE SearchIndex_proofs -------------------------
(***************************************************************************)
(* Theorems about SearchIndex, for any documents, groups, threads and      *)
(* generations: one build at a time, and an active index that is one       *)
(* complete snapshot.                                                      *)
(***************************************************************************)
EXTENDS SearchIndex, TLAPS

USE SearchDocumentsAssumption, SearchIndexAssumption

(***************************************************************************)
(* Types                                                                   *)
(***************************************************************************)

Sync == [at : {"none", "revision", "rows", "stored"}, seen : Nat, rows : Rows, stored : Rows]

LEMMA NoRowsIsRows == NoRows \in Rows
BY DEF NoRows, Rows

LEMMA NoSyncIsSync == NoSync \in Sync
BY NoRowsIsRows DEF NoSync, Sync

LEMMA NoBuildIsBuild == NoBuild \in Build
BY NoRowsIsRows DEF NoBuild, Build, Stages, Configs

LEMMA RestIsStatus == \A n : Rest(n) \in {"empty", "ready"}
BY DEF Rest

\* A call of sync_documents keeps the types of the documents.
LEMMA SyncTypes ==
  ASSUME DocumentsTypeOK, NEW t \in Threads,
         CallSync(t) \/ ReadRevision(t) \/ SyncStep(t)
  PROVE  DocumentsTypeOK'
<1> USE DEF DocumentsTypeOK
<1>0. sync \in [Threads -> Sync]
  BY DEF Sync
<1>1. CASE ReadRevision(t)
  <2>1. [sync[t] EXCEPT !.at = "revision", !.seen = revision] \in Sync
    BY <1>0 DEF Sync
  <2>2. sync' = [sync EXCEPT ![t] = [sync[t] EXCEPT !.at = "revision", !.seen = revision]]
    BY <1>0, <1>1 DEF ReadRevision, Sync
  <2>3. sync' \in [Threads -> Sync]
    BY <1>0, <2>1, <2>2
  <2> QED BY <1>1, <2>3 DEF ReadRevision, sources, documented, Sync
<1>2. CASE ReadSources(t)
  <2>1. [sync[t] EXCEPT !.at = "rows", !.rows = source] \in Sync
    BY <1>0 DEF Sync
  <2>2. sync' = [sync EXCEPT ![t] = [sync[t] EXCEPT !.at = "rows", !.rows = source]]
    BY <1>0, <1>2 DEF ReadSources, Sync
  <2>3. sync' \in [Threads -> Sync]
    BY <1>0, <2>1, <2>2
  <2> QED BY <1>2, <2>3 DEF ReadSources, sources, documented, Sync
<1>3. CASE ReadStored(t)
  <2>1. [sync[t] EXCEPT !.at = "stored", !.stored = documents] \in Sync
    BY <1>0 DEF Sync
  <2>2. sync' = [sync EXCEPT ![t] = [sync[t] EXCEPT !.at = "stored", !.stored = documents]]
    BY <1>0, <1>3 DEF ReadStored, Sync
  <2>3. sync' \in [Threads -> Sync]
    BY <1>0, <2>1, <2>2
  <2> QED BY <1>3, <2>3 DEF ReadStored, sources, documented, Sync
<1>4. CASE WriteDocuments(t)
  <2>1. sync' \in [Threads -> Sync]
    BY <1>0, <1>4, NoSyncIsSync DEF WriteDocuments
  <2>2. documents' \in Rows
    BY <1>0, <1>4 DEF WriteDocuments, Differing, Rows, Sync
  <2>3. dirty' \subseteq Docs /\ synced' \in Nat
    BY <1>0, <1>4 DEF WriteDocuments, Differing, Sync
  <2> QED BY <1>4, <2>1, <2>2, <2>3 DEF WriteDocuments, sources, Sync
<1>5. CASE UpToDate /\ UNCHANGED <<sources, documented, sync>>
  BY <1>5 DEF sources, documented
<1> QED BY <1>1, <1>2, <1>3, <1>4, <1>5 DEF CallSync, SyncStep

\* What the builds, handlers and the automatic start add to the documents.
IndexTypes ==
  /\ config \in Configs
  /\ sensitive \in SUBSET Contents
  /\ index \in Index
  /\ chunks \subseteq Chunk
  /\ build \in [Builders -> Build]
  /\ auto \in [at : {"none", "syncing", "starting"}, config : Configs]
  /\ handler \in {"none", "deleting", "saving"}
  /\ promoted \in Rows
  /\ raced \in BOOLEAN
  /\ deletes \in Nat
  /\ crashes \in Nat

\* What is still to be sent is of the snapshot, and of a group.
TodoIsWanted == \A b \in Builders : build[b].todo \subseteq Selected(build[b].wanted, Contents)

LEMMA StartTypes ==
  ASSUME IndexTypes, NEW b \in Builders, NEW c \in Configs, StartRebuild(b, c)
  PROVE  index' \in Index /\ build' \in [Builders -> Build]
<1>1. index' \in Index
  BY DEF IndexTypes, StartRebuild, Index, Busy
<1>2. Effective(c) \in Configs
  BY DEF Configs, Effective
<1>3. [NoBuild EXCEPT !.at = "queued", !.config = Effective(c)] \in Build
  BY <1>2, NoBuildIsBuild DEF Build, Stages
<1> QED BY <1>1, <1>3 DEF IndexTypes, StartRebuild

LEMMA ConfigureTypes ==
  ASSUME IndexTypes, NEW c \in Configs, NEW changed \in BOOLEAN, Configure(c, changed)
  PROVE  config' \in Configs /\ index' \in Index
BY RestIsStatus DEF IndexTypes, Configure, Index, Busy

\* A build that moves from one stage to another, the rest of its record unchanged.
LEMMA MovedTypes ==
  ASSUME IndexTypes, NEW b \in Builders, NEW stage \in Stages, Goto(b, stage)
  PROVE  build' \in [Builders -> Build]
<1>1. [build[b] EXCEPT !.at = stage] \in Build
  BY DEF IndexTypes, Build
<1>2. build' = [build EXCEPT ![b] = [build[b] EXCEPT !.at = stage]]
  BY DEF Goto, IndexTypes, Build
<1> QED BY <1>1, <1>2 DEF IndexTypes

\* A build that is over.
LEMMA DoneTypes ==
  ASSUME IndexTypes, NEW b \in Builders, build' = [build EXCEPT ![b] = NoBuild]
  PROVE  build' \in [Builders -> Build]
BY NoBuildIsBuild DEF IndexTypes

LEMMA BuildTypes ==
  ASSUME TypeOK, TodoIsWanted, NEW b \in Builders, BuildStep(b)
  PROVE  TypeOK'
<1> SUFFICES DocumentsTypeOK' /\ IndexTypes'
  BY DEF TypeOK, IndexTypes
<1>0. b \in Threads /\ IndexTypes /\ DocumentsTypeOK
  BY DEF TypeOK, IndexTypes
<1>1. CASE BuildLocks(b)
  <2>1. DocumentsTypeOK'
    BY <1>0, <1>1, SyncTypes DEF BuildLocks, CallSync, DocumentsTypeOK, sources, documented
  <2>2. build' \in [Builders -> Build]
    <3> DEFINE c == Effective(build[b].config)
    <3>1. c \in Configs
      BY <1>0 DEF IndexTypes, Build, Configs, Effective
    <3>2. [build[b] EXCEPT !.at = "syncing", !.config = c] \in Build
      BY <1>0, <3>1 DEF IndexTypes, Build, Stages
    <3>a. \/ build' = [build EXCEPT ![b].at = "syncing", ![b].config = c]
          \/ build' = [build EXCEPT ![b] = NoBuild]
      BY <1>1 DEF BuildLocks
    <3> HIDE DEF c
    <3>3. CASE build' = [build EXCEPT ![b].at = "syncing", ![b].config = c]
      <4>1. build' = [build EXCEPT ![b] = [build[b] EXCEPT !.at = "syncing", !.config = c]]
        BY <1>0, <3>3 DEF IndexTypes, Build
      <4> QED BY <1>0, <3>2, <4>1 DEF IndexTypes
    <3> QED BY <1>0, <3>a, <3>3, DoneTypes
  <2> QED BY <1>0, <1>1, <2>1, <2>2 DEF BuildLocks, IndexTypes, state, scope, ghosts
<1>2. CASE BuildReads(b)
  <2>1. index' \in Index
    <3>1. Rest(index.active) \in {"empty", "ready"}
      BY RestIsStatus
    <3>2. [index EXCEPT !.status = Rest(index.active), !.cancel = FALSE] \in Index
      BY <1>0, <3>1 DEF IndexTypes, Index
    <3> QED BY <1>0, <1>2, <3>2 DEF BuildReads, IndexTypes
  <2>2. build' \in [Builders -> Build]
    <3> DEFINE wanted == [d \in Docs |-> IF documents[d] \in build[b].config
                                         THEN documents[d] ELSE Absent]
    <3>1. wanted \in Rows /\ Selected(wanted, Contents) \in SUBSET Docs
      BY <1>0 DEF DocumentsTypeOK, Rows, Selected
    <3> HIDE DEF wanted
    <3> DEFINE next == [build[b] EXCEPT !.at = "marking", !.gen = index.active + 1,
                          !.wanted = wanted, !.todo = Selected(wanted, Contents)]
    <3>2. next \in Build
      <4>1. build[b] \in Build /\ index.active + 1 \in Nat
        BY <1>0 DEF IndexTypes, Index
      <4> DEFINE todo == Selected(wanted, Contents)
      <4>2. wanted \in Rows /\ todo \in SUBSET Docs /\ "marking" \in Stages
        BY <3>1 DEF Stages
      <4> HIDE DEF todo
      <4>3. [build[b] EXCEPT !.at = "marking", !.gen = index.active + 1,
                             !.wanted = wanted, !.todo = todo] \in Build
        BY <4>1, <4>2 DEF Build
      <4> QED BY <4>3 DEF todo
    <3>3. CASE build' = [build EXCEPT ![b].at = "marking", ![b].gen = index.active + 1,
                           ![b].wanted = wanted, ![b].todo = Selected(wanted, Contents)]
      <4>1. build' = [build EXCEPT ![b] = next]
        BY <1>0, <3>3 DEF IndexTypes, Build
      <4> QED BY <1>0, <3>2, <4>1 DEF IndexTypes
    <3> QED BY <1>0, <1>2, <3>3, DoneTypes DEF BuildReads, wanted
  <2> QED BY <1>0, <1>2, <2>1, <2>2 DEF BuildReads, IndexTypes, scope, ghosts, sources,
            documented, DocumentsTypeOK
<1>3. CASE BuildMarks(b)
  <2>1. index' \in Index
    BY <1>0, <1>3 DEF BuildMarks, IndexTypes, Index, Busy
  <2>2. build' \in [Builders -> Build]
    BY <1>0, <1>3, MovedTypes DEF BuildMarks, Stages
  <2> QED BY <1>0, <1>3, <2>1, <2>2 DEF BuildMarks, IndexTypes, scope, ghosts, sources,
            documented, DocumentsTypeOK
<1>4. CASE BuildClears(b)
  <2>1. build' \in [Builders -> Build]
    BY <1>0, <1>4, MovedTypes DEF BuildClears, Stages
  <2>2. chunks' \subseteq Chunk
    BY <1>0, <1>4 DEF BuildClears, IndexTypes
  <2> QED BY <1>0, <1>4, <2>1, <2>2 DEF BuildClears, IndexTypes, scope, ghosts, sources,
            documented, DocumentsTypeOK
<1>5. CASE BuildChecks(b) \/ BuildBreaks(b)
  <2>1. build' \in [Builders -> Build]
    BY <1>0, <1>5, MovedTypes DEF BuildChecks, BuildBreaks, Stages
  <2> QED BY <1>0, <1>5, <2>1 DEF BuildChecks, BuildBreaks, IndexTypes, state, scope, ghosts,
            sources, documented, DocumentsTypeOK
<1>6. CASE BuildStores(b)
  <2>1. PICK d \in build[b].todo :
          /\ chunks' = chunks \cup {[gen |-> build[b].gen, doc |-> d,
                                     content |-> build[b].wanted[d]]}
          /\ build' = [build EXCEPT ![b].at = "checking", ![b].todo = @ \ {d}]
    BY <1>6 DEF BuildStores
  <2>2. [build[b] EXCEPT !.at = "checking", !.todo = @ \ {d}] \in Build
    BY <1>0 DEF IndexTypes, Build, Stages
  <2>3. build' = [build EXCEPT ![b] = [build[b] EXCEPT !.at = "checking", !.todo = @ \ {d}]]
    BY <1>0, <2>1 DEF IndexTypes, Build
  <2>4. build' \in [Builders -> Build]
    BY <1>0, <2>2, <2>3 DEF IndexTypes
  <2>5. build[b].gen \in Nat /\ d \in Docs /\ build[b].wanted[d] \in Contents
    BY <1>0, <2>1 DEF IndexTypes, Build, TodoIsWanted, Selected
  <2>6. chunks' \subseteq Chunk
    BY <1>0, <2>1, <2>5 DEF IndexTypes, Chunk
  <2> QED BY <1>0, <1>6, <2>4, <2>6 DEF BuildStores, IndexTypes, scope, ghosts, sources,
            documented, DocumentsTypeOK
<1>7. CASE BuildPromotes(b)
  <2>1. index' \in Index /\ promoted' \in Rows
    BY <1>0, <1>7 DEF BuildPromotes, IndexTypes, Index, Build
  <2>2. build' \in [Builders -> Build]
    BY <1>0, <1>7, DoneTypes DEF BuildPromotes
  <2>3. chunks' \subseteq Chunk
    BY <1>0, <1>7 DEF BuildPromotes, IndexTypes
  <2> QED BY <1>0, <1>7, <2>1, <2>2, <2>3 DEF BuildPromotes, IndexTypes, scope, sources,
            DocumentsTypeOK
<1>8. CASE BuildStops(b) \/ BuildFails(b)
  <2>1. PICK status \in {"empty", "ready", "failed"} : BuildEnds(b, status)
    BY <1>8, RestIsStatus DEF BuildStops, BuildFails
  <2>2. index' \in Index
    BY <1>0, <2>1 DEF BuildEnds, IndexTypes, Index
  <2>3. build' \in [Builders -> Build]
    BY <1>0, <2>1, DoneTypes DEF BuildEnds
  <2>4. chunks' \subseteq Chunk
    BY <1>0, <2>1 DEF BuildEnds, IndexTypes
  <2> QED BY <1>0, <2>1, <2>2, <2>3, <2>4 DEF BuildEnds, IndexTypes, scope, ghosts, sources,
            documented, DocumentsTypeOK
<1>9. CASE BuildDies(b)
  <2>1. build' \in [Builders -> Build]
    BY <1>0, <1>9, DoneTypes DEF BuildDies
  <2>2. sync' \in [Threads -> Sync]
    BY <1>0, <1>9, NoSyncIsSync DEF BuildDies, DocumentsTypeOK, Sync
  <2> QED BY <1>0, <1>9, <2>1, <2>2 DEF BuildDies, IndexTypes, state, scope, ghosts, sources,
            documented, DocumentsTypeOK, Sync
<1> QED BY <1>1, <1>2, <1>3, <1>4, <1>5, <1>6, <1>7, <1>8, <1>9 DEF BuildStep

LEMMA TypesStep ==
  ASSUME TypeOK, TodoIsWanted, [Next]_vars
  PROVE  TypeOK'
<1>0. IndexTypes /\ DocumentsTypeOK
  BY DEF TypeOK, IndexTypes
<1> SUFFICES DocumentsTypeOK' /\ IndexTypes'
  BY DEF TypeOK, IndexTypes
<1>1. CASE SourceNext \/ SearchSyncs \/ SyncStepNext
  <2>1. IndexTypes'
    BY <1>0, <1>1 DEF SourceNext, SearchSyncs, SyncStepNext, IndexTypes, state, scope, ghosts
  <2>2. CASE SourceNext
    <3>1. PICK d \in Docs, c \in Contents \cup {Absent} : Change(d, c)
      BY <2>2 DEF SourceNext
    <3>2. source' \in Rows /\ revision' \in Nat
      BY <1>0, <3>1 DEF Change, DocumentsTypeOK, Rows
    <3> QED BY <1>0, <2>1, <3>1, <3>2 DEF Change, DocumentsTypeOK, documented
  <2>3. CASE SearchSyncs \/ SyncStepNext
    <3>1. PICK t \in Threads : ReadRevision(t) \/ SyncStep(t)
      BY <2>3 DEF SearchSyncs, SyncStepNext
    <3> QED BY <1>0, <2>1, <3>1, SyncTypes
  <2> QED BY <1>1, <2>2, <2>3
<1>2. CASE \E b \in Builders : BuildStep(b)
  <2>1. TypeOK'
    BY <1>2, BuildTypes
  <2> QED BY <2>1 DEF TypeOK, IndexTypes
<1>3. CASE AutoStep
  <2>1. CASE AutoChecks
    <3>1. DocumentsTypeOK'
      BY <1>0, <2>1, SyncTypes DEF AutoChecks
    <3>2. Effective(config) \in Configs
      BY <1>0 DEF IndexTypes, Configs, Effective
    <3> QED BY <1>0, <2>1, <3>1, <3>2 DEF AutoChecks, IndexTypes, state, scope, ghosts
  <2>2. CASE AutoDecides
    <3>1. auto' \in [at : {"none", "syncing", "starting"}, config : Configs]
      BY <1>0, <2>2 DEF AutoDecides, IndexTypes, NoAuto, Configs
    <3> QED BY <1>0, <2>2, <3>1 DEF AutoDecides, IndexTypes, state, scope, ghosts,
              DocumentsTypeOK, sources, documented
  <2>3. CASE AutoStarts
    <3>1. auto' \in [at : {"none", "syncing", "starting"}, config : Configs]
      BY <1>0, <2>3 DEF AutoStarts, NoAuto, Configs
    <3>2. auto.config \in Configs
      BY <1>0 DEF IndexTypes
    <3>3. index' \in Index /\ build' \in [Builders -> Build]
          /\ UNCHANGED <<scope, chunks>>
      <4>1. CASE UNCHANGED <<state, build>>
        BY <1>0, <4>1 DEF IndexTypes, state
      <4>2. CASE \E b \in Builders : StartRebuild(b, auto.config)
        <5>1. PICK b \in Builders : StartRebuild(b, auto.config)
          BY <4>2
        <5> QED BY <1>0, <3>2, <5>1, StartTypes DEF StartRebuild
      <4> QED BY <2>3, <4>1, <4>2 DEF AutoStarts
    <3> QED BY <1>0, <2>3, <3>1, <3>3 DEF AutoStarts, IndexTypes, scope, ghosts,
              DocumentsTypeOK, sources, documented
  <2> QED BY <1>3, <2>1, <2>2, <2>3 DEF AutoStep
<1>4. CASE HandlerStep
  <2>0. DocumentsTypeOK'
    BY <1>0, <1>4 DEF HandlerStep, RequestRebuild, CancelRebuild, BeginHandler, DeleteIndex,
          SetConfig, MarkSensitive, UnmarkSensitive, DocumentsTypeOK, sources, documented
  <2>1. CASE \E b \in Builders : RequestRebuild(b)
    <3>1. PICK b \in Builders : RequestRebuild(b)
      BY <2>1
    <3>2. config \in Configs /\ StartRebuild(b, config)
      BY <1>0, <3>1 DEF IndexTypes, RequestRebuild
    <3> QED BY <1>0, <2>0, <3>1, <3>2, StartTypes
            DEF RequestRebuild, StartRebuild, IndexTypes, scope, ghosts
  <2>2. CASE CancelRebuild
    <3>1. index' \in Index
      BY <1>0, <2>2 DEF CancelRebuild, IndexTypes, Index
    <3> QED BY <1>0, <2>0, <2>2, <3>1 DEF CancelRebuild, IndexTypes, scope, ghosts
  <2>3. CASE \E what \in {"deleting", "saving"} : BeginHandler(what)
    BY <1>0, <2>0, <2>3 DEF BeginHandler, IndexTypes, state, scope, ghosts
  <2>4. CASE DeleteIndex
    <3>1. index' \in Index /\ promoted' \in Rows
      BY <2>4, NoRowsIsRows DEF DeleteIndex, Index, Configs
    <3> QED BY <1>0, <2>0, <2>4, <3>1 DEF DeleteIndex, IndexTypes, scope
  <2>5. CASE \E c \in Configs : SetConfig(c)
    <3>1. PICK c \in Configs, changed \in BOOLEAN : SetConfig(c) /\ Configure(c, changed)
      BY <2>5 DEF SetConfig
    <3> QED BY <1>0, <2>0, <3>1, ConfigureTypes DEF SetConfig, IndexTypes, ghosts
  <2>6. CASE \E g \in Contents : MarkSensitive(g)
    <3>1. PICK g \in Contents : MarkSensitive(g)
      BY <2>6
    <3>2. config' \in Configs /\ index' \in Index
      <4>1. config \ {g} \in Configs /\ TRUE \in BOOLEAN
        BY <1>0 DEF IndexTypes, Configs
      <4> QED BY <1>0, <3>1, <4>1, ConfigureTypes DEF MarkSensitive, IndexTypes
    <3> QED BY <1>0, <2>0, <3>1, <3>2 DEF MarkSensitive, IndexTypes, ghosts
  <2>7. CASE \E g \in Contents : UnmarkSensitive(g)
    BY <1>0, <2>0, <2>7 DEF UnmarkSensitive, IndexTypes, ghosts
  <2> QED BY <1>4, <2>1, <2>2, <2>3, <2>4, <2>5, <2>6, <2>7 DEF HandlerStep
<1>5. CASE Restart
  <2>1. index' \in Index
    <3>1. Rest(index.active) \in {"empty", "ready"}
      BY RestIsStatus
    <3>2. [index EXCEPT !.status = Rest(index.active), !.cancel = FALSE] \in Index
      BY <1>0, <3>1 DEF IndexTypes, Index
    <3> QED BY <1>0, <1>5, <3>2 DEF Restart, IndexTypes
  <2>2. build' \in [Builders -> Build]
    BY <1>5, NoBuildIsBuild DEF Restart
  <2>3. sync' \in [Threads -> Sync]
    BY <1>5, NoSyncIsSync DEF Restart
  <2>4. auto' \in [at : {"none", "syncing", "starting"}, config : Configs]
    BY <1>5 DEF Restart, NoAuto, Configs
  <2> QED BY <1>0, <1>5, <2>1, <2>2, <2>3, <2>4 DEF Restart, IndexTypes, scope,
            DocumentsTypeOK, sources, documented, Sync
<1>6. CASE UNCHANGED vars
  BY <1>0, <1>6 DEF vars, IndexTypes, state, scope, ghosts, DocumentsTypeOK, sources, documented
<1> QED BY <1>1, <1>2, <1>3, <1>4, <1>5, <1>6 DEF Next

(***************************************************************************)
(* One build, and a complete index                                         *)
(***************************************************************************)

Working == {"marking", "clearing", "checking", "sending", "stopping", "failing"}

\* What a build has stored so far: what it wants without what is still to be sent.
Stored(b) ==
  {[gen |-> build[b].gen, doc |-> d, content |-> build[b].wanted[d]] :
     d \in Selected(build[b].wanted, Contents) \ build[b].todo}

\* A build at work writes the generation after the active one, which holds what it has
\* stored and nothing else, of documents of its groups.
BuildOK(b) ==
  /\ build[b].at \in Working =>
       /\ build[b].gen = index.active + 1
       /\ \A d \in Docs : build[b].wanted[d] \in build[b].config \cup {Absent}
  /\ build[b].at \in {"marking", "clearing"} =>
       build[b].todo = Selected(build[b].wanted, Contents)
  /\ build[b].at \in {"checking", "sending"} => ChunksOf(build[b].gen) = Stored(b)

BuildsOK == ~raced => \A b \in Builders : BuildOK(b)

Safe == OneBuild /\ IndexComplete /\ BuildsOK

IndexInv == TypeOK /\ TodoIsWanted /\ Safe

LEMMA NoBuildOK ==
  ASSUME NEW b \in Builders, build[b] = NoBuild \/ build[b].at \in {"none", "queued", "syncing"}
  PROVE  BuildOK(b)
BY DEF BuildOK, NoBuild, Working

LEMMA TodoStep ==
  ASSUME TypeOK, TodoIsWanted, [Next]_vars
  PROVE  TodoIsWanted'
<1>0. build \in [Builders -> Build]
  BY DEF TypeOK
<1> SUFFICES ASSUME NEW b \in Builders
             PROVE  build'[b].todo \subseteq Selected(build'[b].wanted, Contents)
  BY DEF TodoIsWanted, Selected
<1>1. CASE build'[b].todo \subseteq build[b].todo /\ build'[b].wanted = build[b].wanted
  BY <1>1 DEF TodoIsWanted, Selected
<1>2. CASE build'[b].todo = {}
  BY <1>2
<1>3. CASE build'[b].todo = Selected(build'[b].wanted, Contents)
  BY <1>3
<1>4. CASE UNCHANGED build
  BY <1>1, <1>4
<1>5. ASSUME NEW c \in Builders, BuildStep(c)
      PROVE  build'[b].todo \subseteq Selected(build'[b].wanted, Contents)
  <2>1. CASE b # c
    BY <1>0, <1>1, <1>5, <2>1 DEF BuildStep, BuildLocks, BuildReads, BuildMarks, BuildClears,
          BuildChecks, BuildStores, BuildBreaks, BuildPromotes, BuildStops, BuildFails,
          BuildEnds, BuildDies, Goto, Build
  <2>2. CASE b = c
    <3>1. CASE BuildReads(c)
      <4> DEFINE wanted == [d \in Docs |-> IF documents[d] \in build[b].config
                                           THEN documents[d] ELSE Absent]
      <4>1. CASE build' = [build EXCEPT ![b].at = "marking", ![b].gen = index.active + 1,
                             ![b].wanted = wanted, ![b].todo = Selected(wanted, Contents)]
        <5> HIDE DEF wanted
        <5> QED BY <1>0, <1>3, <4>1 DEF Build
      <4>2. CASE build' = [build EXCEPT ![b] = NoBuild]
        BY <1>0, <1>2, <4>2 DEF NoBuild
      <4> QED BY <2>2, <3>1, <4>1, <4>2 DEF BuildReads
    <3>2. CASE build' = [build EXCEPT ![b] = NoBuild]
      BY <1>0, <1>2, <3>2 DEF NoBuild
    <3>3. CASE ~BuildReads(c) /\ build' # [build EXCEPT ![b] = NoBuild]
      BY <1>0, <1>1, <1>5, <2>2, <3>3 DEF BuildStep, BuildLocks, BuildMarks, BuildClears,
            BuildChecks, BuildStores, BuildBreaks, BuildPromotes, BuildStops, BuildFails,
            BuildEnds, BuildDies, Goto, Build
    <3> QED BY <3>1, <3>2, <3>3
  <2> QED BY <2>1, <2>2
<1>6. ASSUME NEW c \in Builders, NEW k, StartRebuild(c, k)
      PROVE  build'[b].todo \subseteq Selected(build'[b].wanted, Contents)
  <2>1. CASE b = c
    BY <1>0, <1>2, <1>6, <2>1 DEF StartRebuild, NoBuild
  <2>2. CASE b # c
    BY <1>0, <1>1, <1>6, <2>2 DEF StartRebuild
  <2> QED BY <2>1, <2>2
<1>7. CASE Restart
  BY <1>2, <1>7 DEF Restart, NoBuild
<1>8. CASE AutoStep
  BY <1>4, <1>6, <1>8 DEF AutoStep, AutoChecks, AutoDecides, AutoStarts
<1>9. CASE HandlerStep
  BY <1>4, <1>6, <1>9 DEF HandlerStep, RequestRebuild, CancelRebuild, BeginHandler,
        DeleteIndex, SetConfig, MarkSensitive, UnmarkSensitive, state
<1> QED BY <1>4, <1>5, <1>7, <1>8, <1>9 DEF Next, SourceNext, SearchSyncs, SyncStepNext, vars

\* Steps that leave builds and chunks alone, and of the index at most the marks and a
\* status that does not speak of a build.
LEMMA SafeStatus ==
  ASSUME Safe,
         UNCHANGED <<chunks, build, promoted, raced>>,
         index'.active = index.active, index'.signature = index.signature,
         index'.status # index.status => {index.status, index'.status} \cap Busy = {}
  PROVE  Safe'
<1>1. OneBuild'
  BY DEF Safe, OneBuild, Busy, Idle, Writing
<1>2. IndexComplete'
  BY DEF Safe, IndexComplete, ChunksOf, Selected
<1>3. BuildsOK'
  BY DEF Safe, BuildsOK, BuildOK, ChunksOf, Selected, Stored
<1> QED BY <1>1, <1>2, <1>3 DEF Safe

\* A build is queued while no other is under way.
LEMMA SafeStart ==
  ASSUME TypeOK, Safe, NEW b \in Builders, NEW c, StartRebuild(b, c), UNCHANGED <<promoted, raced>>
  PROVE  Safe'
<1> SUFFICES ASSUME ~raced
             PROVE  Safe'
  BY DEF Safe, OneBuild, IndexComplete, BuildsOK
<1>1. \A a \in Builders : Idle(a)
  BY DEF Safe, OneBuild, StartRebuild
<1>2. /\ build'[b].at = "queued"
      /\ \A a \in Builders \ {b} : build'[a] = build[a] /\ build'[a].at = "none"
  BY <1>1 DEF StartRebuild, NoBuild, TypeOK, Idle
<1>3. index'.active = index.active /\ index'.signature = index.signature
      /\ index'.status = "queued"
  BY DEF StartRebuild, TypeOK, Index
<1>4. OneBuild'
  BY <1>2, <1>3 DEF OneBuild, Busy, Idle, Writing
<1>5. IndexComplete'
  BY <1>3 DEF Safe, IndexComplete, ChunksOf, Selected, StartRebuild
<1>6. BuildsOK'
  BY <1>2 DEF BuildsOK, BuildOK, Working
<1> QED BY <1>4, <1>5, <1>6 DEF Safe

LEMMA SafeDelete ==
  ASSUME TypeOK, Safe, DeleteIndex
  PROVE  Safe'
<1> SUFFICES ASSUME ~raced'
             PROVE  Safe'
  BY DEF Safe, OneBuild, IndexComplete, BuildsOK
<1>1. ~raced /\ index.status \notin Busy
  BY DEF DeleteIndex, TypeOK
<1>2. \A a \in Builders : build'[a].at = "none"
  BY <1>1 DEF Safe, OneBuild, Idle, DeleteIndex
<1>3. index'.active = 0 /\ index'.status = "empty"
  BY DEF DeleteIndex
<1> QED BY <1>2, <1>3 DEF Safe, OneBuild, IndexComplete, BuildsOK, BuildOK, Working, Writing, Idle

LEMMA SafeRestart ==
  ASSUME TypeOK, Safe, Restart
  PROVE  Safe'
<1>1. \A a \in Builders : build'[a].at = "none"
  BY DEF Restart, NoBuild
<1>2. index'.active = index.active /\ index'.signature = index.signature
  BY DEF Restart, TypeOK, Index
<1>3. index'.status \notin Busy
  <2>1. Rest(index.active) \in {"empty", "ready"}
    BY RestIsStatus
  <2> QED BY <2>1 DEF Restart, TypeOK, Index, Busy
<1>4. OneBuild'
  BY <1>1, <1>3 DEF OneBuild, Idle, Writing, Busy
<1>5. IndexComplete'
  BY <1>2 DEF Safe, IndexComplete, ChunksOf, Selected, Restart
<1>6. BuildsOK'
  BY <1>1 DEF BuildsOK, BuildOK, Working
<1> QED BY <1>4, <1>5, <1>6 DEF Safe

\* Of a build's step: nobody else has a build to do, and the status tells of it.
LEMMA AtWorkAlone ==
  ASSUME TypeOK, Safe, ~raced, NEW b \in Builders, build[b].at # "none"
  PROVE  /\ \A a \in Builders \ {b} : build[a].at = "none"
         /\ index.status \in Busy
         /\ index.status = "building" <=> Writing(b)
         /\ BuildOK(b)
BY DEF Safe, OneBuild, BuildsOK, Idle, Writing

\* A step of a build that changes nobody else's.
LEMMA SafeBuild ==
  ASSUME TypeOK, TodoIsWanted, Safe, NEW b \in Builders, BuildStep(b)
  PROVE  Safe'
<1>0. raced' = raced /\ build[b].at # "none"
  BY DEF BuildStep, BuildLocks, BuildReads, BuildMarks, BuildClears, BuildChecks, BuildStores,
         BuildBreaks, BuildPromotes, BuildStops, BuildFails, BuildEnds, BuildDies, ghosts
<1> SUFFICES ASSUME ~raced
             PROVE  Safe'
  BY <1>0 DEF Safe, OneBuild, IndexComplete, BuildsOK
<1>a. /\ \A a \in Builders \ {b} : build[a].at = "none"
      /\ index.status \in Busy
      /\ index.status = "building" <=> Writing(b)
      /\ BuildOK(b)
  BY <1>0, AtWorkAlone
<1>t. build \in [Builders -> Build] /\ index \in Index /\ build[b] \in Build
  BY DEF TypeOK
\* What remains to be shown of every step.
<1>s. ASSUME \A a \in Builders \ {b} : build'[a] = build[a],
             IndexComplete', BuildOK(b)',
             Writing(b)' <=> index'.status = "building",
             build'[b].at # "none" => index'.status \in Busy
      PROVE  Safe'
  <2>1. \A a \in Builders \ {b} : build'[a].at = "none"
    BY <1>s, <1>a
  <2>2. OneBuild'
    BY <1>s, <2>1 DEF OneBuild, Idle, Writing
  <2>3. \A a \in Builders \ {b} : BuildOK(a)'
    BY <2>1 DEF BuildOK, Working
  <2> QED BY <1>s, <2>2, <2>3 DEF Safe, BuildsOK
<1>i. ASSUME UNCHANGED <<chunks, promoted>>, index'.active = index.active,
             index'.signature = index.signature
      PROVE  IndexComplete'
  BY <1>i DEF Safe, IndexComplete, ChunksOf, Selected
<1>n. ASSUME build' = [build EXCEPT ![b] = NoBuild], IndexComplete', index'.status # "building"
      PROVE  Safe'
  <2>1. build'[b].at = "none"
    BY <1>n, <1>t DEF NoBuild
  <2>2. BuildOK(b)' /\ ~Writing(b)'
    BY <2>1 DEF BuildOK, Working, Writing
  <2> QED BY <1>n, <1>s, <1>t, <2>1, <2>2
<1>1. CASE BuildLocks(b) \/ BuildDies(b)
  <2>1. IndexComplete' /\ index' = index
    BY <1>1, <1>i DEF BuildLocks, BuildDies, state, ghosts
  <2>2. index.status # "building"
    BY <1>1, <1>a DEF BuildLocks, BuildDies, Writing
  <2>3. CASE build' = [build EXCEPT ![b] = NoBuild]
    BY <1>n, <2>1, <2>2, <2>3
  <2>4. CASE build' # [build EXCEPT ![b] = NoBuild]
    <3>1. /\ \A a \in Builders \ {b} : build'[a] = build[a]
          /\ build'[b].at = "syncing"
      BY <1>1, <1>t, <2>4 DEF BuildLocks, BuildDies, Build
    <3>2. BuildOK(b)' /\ ~Writing(b)'
      BY <3>1 DEF BuildOK, Working, Writing
    <3> QED BY <1>s, <1>a, <2>1, <2>2, <3>1, <3>2
  <2> QED BY <2>3, <2>4
<1>2. CASE BuildReads(b)
  <2>0. index.status # "building" /\ index'.active = index.active
        /\ index'.signature = index.signature
    BY <1>2, <1>a, <1>t DEF BuildReads, Writing, Index
  <2>1. IndexComplete'
    BY <1>2, <1>i, <2>0 DEF BuildReads, ghosts
  <2>2. index'.status # "building"
    <3>1. Rest(index.active) \in {"empty", "ready"}
      BY RestIsStatus
    <3> QED BY <1>2, <1>t, <2>0, <3>1 DEF BuildReads, Index
  <2>3. CASE build' = [build EXCEPT ![b] = NoBuild]
    BY <1>n, <2>1, <2>2, <2>3
  <2> DEFINE wanted == [d \in Docs |-> IF documents[d] \in build[b].config
                                       THEN documents[d] ELSE Absent]
  <2>4. ASSUME build' = [build EXCEPT ![b].at = "marking", ![b].gen = index.active + 1,
                 ![b].wanted = wanted, ![b].todo = Selected(wanted, Contents)],
               index' = index
        PROVE  Safe'
    <3>0. \A d \in Docs : wanted[d] \in build[b].config \cup {Absent}
      OBVIOUS
    <3> HIDE DEF wanted
    <3>1. /\ \A a \in Builders \ {b} : build'[a] = build[a]
          /\ build'[b].at = "marking" /\ build'[b].gen = index.active + 1
          /\ build'[b].wanted = wanted /\ build'[b].todo = Selected(wanted, Contents)
          /\ build'[b].config = build[b].config
      BY <1>t, <2>4 DEF Build
    <3>2. BuildOK(b)'
      BY <2>4, <3>0, <3>1 DEF BuildOK, Selected
    <3>3. ~Writing(b)'
      BY <3>1 DEF Writing
    <3> QED BY <1>s, <1>a, <2>1, <2>2, <2>4, <3>1, <3>2, <3>3
  <2> QED BY <1>2, <2>3, <2>4 DEF BuildReads
<1>3. CASE BuildMarks(b)
  <2>1. /\ \A a \in Builders \ {b} : build'[a] = build[a]
        /\ build'[b].at = "clearing" /\ build'[b].gen = build[b].gen
        /\ build'[b].wanted = build[b].wanted /\ build'[b].todo = build[b].todo
        /\ build'[b].config = build[b].config
    BY <1>3, <1>t DEF BuildMarks, Goto, Build
  <2>2. index'.active = index.active /\ index'.signature = index.signature
        /\ index'.status = "building"
    BY <1>3, <1>t DEF BuildMarks, Index
  <2>3. IndexComplete'
    BY <1>3, <1>i, <2>2 DEF BuildMarks, ghosts
  <2>4. BuildOK(b)'
    BY <1>3, <1>a, <2>1, <2>2 DEF BuildMarks, BuildOK, Working, Selected
  <2>5. Writing(b)'
    BY <2>1 DEF Writing
  <2> QED BY <1>s, <2>1, <2>2, <2>3, <2>4, <2>5 DEF Busy
<1>4. CASE BuildClears(b)
  <2>1. /\ \A a \in Builders \ {b} : build'[a] = build[a]
        /\ build'[b].at = "checking" /\ build'[b].gen = build[b].gen
        /\ build'[b].wanted = build[b].wanted /\ build'[b].todo = build[b].todo
        /\ build'[b].config = build[b].config
    BY <1>4, <1>t DEF BuildClears, Goto, Build
  <2>2. build[b].gen = index.active + 1 /\ index.active \in Nat
        /\ build[b].todo = Selected(build[b].wanted, Contents)
        /\ \A d \in Docs : build[b].wanted[d] \in build[b].config \cup {Absent}
    BY <1>4, <1>a, <1>t DEF BuildClears, BuildOK, Working, Index
  <2>3. IndexComplete'
    BY <1>4, <2>2 DEF BuildClears, ghosts, Safe, IndexComplete, ChunksOf, Selected
  <2>4. ChunksOf(build[b].gen)' = {} /\ Stored(b)' = {}
    BY <1>4, <2>1, <2>2 DEF BuildClears, ChunksOf, Stored, Selected
  <2>5. BuildOK(b)'
    BY <1>4, <2>1, <2>2, <2>4 DEF BuildOK, BuildClears, ChunksOf
  <2>6. Writing(b)' /\ index'.status = "building"
    BY <1>4, <1>a, <2>1 DEF Writing, BuildClears
  <2> QED BY <1>s, <2>1, <2>3, <2>5, <2>6 DEF Busy
<1>5. CASE BuildChecks(b) \/ BuildBreaks(b)
  <2>1. /\ \A a \in Builders \ {b} : build'[a] = build[a]
        /\ build'[b].at \in {"stopping", "sending", "failing"}
        /\ build'[b].gen = build[b].gen /\ build'[b].config = build[b].config
        /\ build'[b].wanted = build[b].wanted /\ build'[b].todo = build[b].todo
    BY <1>5, <1>t DEF BuildChecks, BuildBreaks, Goto, Build
  <2>2. IndexComplete' /\ index' = index /\ chunks' = chunks
    BY <1>5, <1>i DEF BuildChecks, BuildBreaks, state, ghosts
  <2>3. /\ build[b].at \in {"clearing", "checking", "sending"}
        /\ build'[b].at = "sending" => build[b].at = "checking"
    BY <1>5, <1>t DEF BuildChecks, BuildBreaks, Goto, Build
  <2>4. BuildOK(b)'
    BY <1>a, <2>1, <2>2, <2>3 DEF BuildOK, Working, ChunksOf, Stored, Selected
  <2>5. Writing(b)' /\ index'.status = "building"
    BY <1>a, <2>1, <2>2, <2>3 DEF Writing
  <2> QED BY <1>s, <2>1, <2>2, <2>4, <2>5 DEF Busy
<1>6. CASE BuildStores(b)
  <2>1. PICK d \in build[b].todo :
          /\ chunks' = chunks \cup {[gen |-> build[b].gen, doc |-> d,
                                     content |-> build[b].wanted[d]]}
          /\ build' = [build EXCEPT ![b].at = "checking", ![b].todo = @ \ {d}]
    BY <1>6 DEF BuildStores
  <2>2. /\ \A a \in Builders \ {b} : build'[a] = build[a]
        /\ build'[b].at = "checking"
        /\ build'[b].gen = build[b].gen /\ build'[b].config = build[b].config
        /\ build'[b].wanted = build[b].wanted /\ build'[b].todo = build[b].todo \ {d}
    BY <1>t, <2>1 DEF Build
  <2>3. build[b].at = "sending" /\ index' = index /\ promoted' = promoted
    BY <1>6 DEF BuildStores, ghosts
  <2>4. build[b].gen = index.active + 1 /\ index.active \in Nat
    BY <1>a, <1>t, <2>3 DEF BuildOK, Working, Index
  <2>5. IndexComplete'
    BY <2>1, <2>3, <2>4 DEF Safe, IndexComplete, ChunksOf, Selected
  <2>6. ChunksOf(build[b].gen)' = Stored(b)'
    <3>1. d \in Selected(build[b].wanted, Contents)
      BY <2>1 DEF TodoIsWanted
    <3>2. ChunksOf(build[b].gen) = Stored(b)
      BY <1>a, <2>3 DEF BuildOK
    <3>3. Selected(build[b].wanted, Contents) \ (build[b].todo \ {d})
            = (Selected(build[b].wanted, Contents) \ build[b].todo) \cup {d}
      BY <3>1
    <3> DEFINE new == [gen |-> build[b].gen, doc |-> d, content |-> build[b].wanted[d]]
    <3>4. ChunksOf(build[b].gen)' = ChunksOf(build[b].gen) \cup {new}
      BY <2>1, <2>2 DEF ChunksOf
    <3>5. Stored(b)' = Stored(b) \cup {new}
      BY <2>2, <3>3 DEF Stored, Selected
    <3> QED BY <3>2, <3>4, <3>5
  <2>7. BuildOK(b)'
    BY <1>a, <2>2, <2>3, <2>6 DEF BuildOK, Working, ChunksOf
  <2>8. Writing(b)' /\ index'.status = "building"
    BY <1>a, <2>2, <2>3 DEF Writing
  <2> QED BY <1>s, <2>2, <2>5, <2>7, <2>8 DEF Busy
<1>7. CASE BuildPromotes(b)
  <2>1. build[b].at = "checking" /\ build[b].todo = {} /\ build[b].gen = index.active + 1
        /\ index.active \in Nat /\ build[b].config \subseteq Contents
        /\ \A d \in Docs : build[b].wanted[d] \in build[b].config \cup {Absent}
    BY <1>7, <1>a, <1>t DEF BuildPromotes, BuildOK, Working, Index, Build, Configs
  <2>2. index'.active = build[b].gen /\ index'.signature = build[b].config
        /\ index'.status = "ready" /\ promoted' = build[b].wanted
    BY <1>7, <1>t DEF BuildPromotes, Index
  <2>3. Selected(build[b].wanted, Contents) = Selected(build[b].wanted, build[b].config)
    BY <2>1 DEF Selected
  <2>4. {c \in chunks' : c.gen = build[b].gen} = ChunksOf(build[b].gen)
    BY <1>7, <2>1 DEF BuildPromotes, ChunksOf
  <2>5. ChunksOf(build[b].gen) = Stored(b)
    BY <1>a, <2>1 DEF BuildOK
  <2>6. IndexComplete'
    BY <2>1, <2>2, <2>3, <2>4, <2>5 DEF IndexComplete, Stored, ChunksOf, Selected
  <2> QED BY <1>7, <1>n, <2>2, <2>6 DEF BuildPromotes
<1>8. CASE BuildStops(b) \/ BuildFails(b)
  <2>1. PICK status \in {"empty", "ready", "failed"} : BuildEnds(b, status)
    BY <1>8, RestIsStatus DEF BuildStops, BuildFails
  <2>2. build[b].gen = index.active + 1 /\ index.active \in Nat
    BY <1>8, <1>a, <1>t DEF BuildStops, BuildFails, BuildOK, Working, Index
  <2>3. index'.active = index.active /\ index'.signature = index.signature
        /\ index'.status = status
    BY <1>t, <2>1 DEF BuildEnds, Index
  <2>4. IndexComplete'
    BY <2>1, <2>2, <2>3 DEF BuildEnds, ghosts, Safe, IndexComplete, ChunksOf, Selected
  <2> QED BY <1>n, <2>1, <2>3, <2>4 DEF BuildEnds
<1> QED BY <1>1, <1>2, <1>3, <1>4, <1>5, <1>6, <1>7, <1>8 DEF BuildStep

LEMMA SafeStep ==
  ASSUME IndexInv, [Next]_vars
  PROVE  Safe'
<1>0. TypeOK /\ TodoIsWanted /\ Safe /\ index \in Index
  BY DEF IndexInv, TypeOK
\* Steps that leave the index, its builds and its chunks alone.
<1>q. ASSUME UNCHANGED <<index, chunks, build, promoted, raced>>
      PROVE  Safe'
  BY <1>0, <1>q, SafeStatus
\* A changed configuration: the status is left alone under a build.
<1>c. ASSUME NEW c, NEW changed, Configure(c, changed), UNCHANGED <<chunks, build, promoted, raced>>
      PROVE  Safe'
  <2>1. index'.active = index.active /\ index'.signature = index.signature
    BY <1>0, <1>c DEF Configure, Index
  <2>2. Rest(index.active) \in {"empty", "ready"}
    BY RestIsStatus
  <2>3. index'.status # index.status => {index.status, index'.status} \cap Busy = {}
    BY <1>0, <1>c, <2>2 DEF Configure, Index, Busy
  <2> QED BY <1>0, <1>c, <2>1, <2>3, SafeStatus
<1>1. CASE SourceNext \/ SearchSyncs \/ SyncStepNext
  BY <1>1, <1>q DEF SourceNext, SearchSyncs, SyncStepNext, state, ghosts
<1>2. CASE \E b \in Builders : BuildStep(b)
  BY <1>0, <1>2, SafeBuild
<1>3. CASE AutoStep
  <2>1. CASE AutoChecks \/ AutoDecides \/ UNCHANGED <<state, build, ghosts>>
    BY <1>q, <2>1 DEF AutoChecks, AutoDecides, state, ghosts
  <2>2. ASSUME NEW b \in Builders, StartRebuild(b, auto.config), AutoStarts
        PROVE  Safe'
    BY <1>0, <2>2, SafeStart DEF AutoStarts, ghosts
  <2> QED BY <1>3, <2>1, <2>2 DEF AutoStep, AutoStarts
<1>4. CASE HandlerStep
  <2>1. ASSUME NEW b \in Builders, RequestRebuild(b)
        PROVE  Safe'
    BY <1>0, <2>1, SafeStart DEF RequestRebuild, ghosts
  <2>2. CASE CancelRebuild
    <3>1. index'.active = index.active /\ index'.signature = index.signature
          /\ index'.status = index.status
      BY <1>0, <2>2 DEF CancelRebuild, Index
    <3> QED BY <1>0, <2>2, <3>1, SafeStatus DEF CancelRebuild, ghosts
  <2>3. ASSUME NEW what, BeginHandler(what)
        PROVE  Safe'
    BY <1>q, <2>3 DEF BeginHandler, state, ghosts
  <2>4. CASE DeleteIndex
    BY <1>0, <2>4, SafeDelete
  <2>5. ASSUME NEW c, SetConfig(c)
        PROVE  Safe'
    BY <1>c, <2>5 DEF SetConfig, ghosts
  <2>6. ASSUME NEW g, MarkSensitive(g)
        PROVE  Safe'
    BY <1>c, <1>q, <2>6 DEF MarkSensitive, ghosts
  <2>7. ASSUME NEW g, UnmarkSensitive(g)
        PROVE  Safe'
    BY <1>q, <2>7 DEF UnmarkSensitive, ghosts
  <2> QED BY <1>4, <2>1, <2>2, <2>3, <2>4, <2>5, <2>6, <2>7 DEF HandlerStep
<1>5. CASE Restart
  BY <1>0, <1>5, SafeRestart
<1>6. CASE UNCHANGED vars
  BY <1>6, <1>q DEF vars, state, ghosts
<1> QED BY <1>1, <1>2, <1>3, <1>4, <1>5, <1>6 DEF Next

\* For any documents, groups and threads the invariant of the index is inductive.
THEOREM IndexSafe == Spec => []IndexInv
<1>1. Init => IndexInv
  <2> SUFFICES ASSUME Init
               PROVE  IndexInv
    OBVIOUS
  <2>1. TypeOK
    BY NoRowsIsRows, NoSyncIsSync, NoBuildIsBuild
       DEF Init, DocumentsInit, TypeOK, DocumentsTypeOK, Sync, Index, NoAuto, Configs
  <2>2. \A b \in Builders : build[b] = NoBuild
    BY DEF Init
  <2>3. TodoIsWanted /\ BuildsOK
    BY <2>2, NoBuildOK DEF TodoIsWanted, BuildsOK, NoBuild
  <2>4. OneBuild /\ IndexComplete
    BY <2>2 DEF Init, OneBuild, IndexComplete, Idle, Writing, NoBuild
  <2> QED BY <2>1, <2>3, <2>4 DEF IndexInv, Safe
<1>2. IndexInv /\ [Next]_vars => IndexInv'
  BY TypesStep, TodoStep, SafeStep DEF IndexInv
<1> QED BY <1>1, <1>2, PTL DEF Spec

\* For any documents and groups, whatever synchronisations overlap: every reachable
\* index, build and synchronisation is well formed (rebuild_index, sync_documents).
THEOREM IndexTypesKept == Spec => []TypeOK
<1>1. IndexInv => TypeOK
  BY DEF IndexInv
<1> QED BY <1>1, IndexSafe, PTL

\* For any number of build threads, requests and restarts at most one thread has a build
\* to do, and the status of the index tells of it (start_rebuild).
THEOREM BuildsAlone == Spec => []OneBuild
<1>1. IndexInv => OneBuild
  BY DEF IndexInv, Safe
<1> QED BY <1>1, IndexSafe, PTL

\* For any documents, the active generation is the selected documents of the snapshot it
\* was built from, and nothing else (rebuild_index).
THEOREM ActiveIsComplete == Spec => []IndexComplete
<1>1. IndexInv => IndexComplete
  BY DEF IndexInv, Safe
<1> QED BY <1>1, IndexSafe, PTL

\* No build, failed, stopped or cut off, changes the chunks of the active generation
\* (rebuild_index).
THEOREM PreviousStays == Spec => PreviousUsable
<1>1. ASSUME IndexInv, [Next]_vars, ~raced', index'.active = index.active, index.active # 0
      PROVE  ChunksOf(index.active)' = ChunksOf(index.active)
  <2>0. TypeOK /\ Safe /\ index \in Index /\ build \in [Builders -> Build]
    BY <1>1 DEF IndexInv, TypeOK
  <2>1. ASSUME UNCHANGED chunks
        PROVE  ChunksOf(index.active)' = ChunksOf(index.active)
    BY <1>1, <2>1 DEF ChunksOf
  <2>2. ASSUME NEW b \in Builders, BuildStep(b)
        PROVE  ChunksOf(index.active)' = ChunksOf(index.active)
    <3>0. build[b].at # "none" /\ ~raced
      <4>1. raced' = raced /\ build[b].at # "none"
        BY <2>2 DEF BuildStep, BuildLocks, BuildReads, BuildMarks, BuildClears, BuildChecks,
             BuildStores, BuildBreaks, BuildPromotes, BuildStops, BuildFails, BuildEnds,
             BuildDies, ghosts
      <4> QED BY <1>1, <4>1
    <3>1. build[b].at \in Working => build[b].gen = index.active + 1
      BY <2>0, <3>0, AtWorkAlone DEF BuildOK
    <3>2. index.active \in Nat
      BY <2>0 DEF Index
    <3>3. CASE BuildClears(b)
      BY <1>1, <3>1, <3>2, <3>3 DEF BuildClears, Working, ChunksOf
    <3>4. CASE BuildStores(b)
      BY <1>1, <3>1, <3>2, <3>4 DEF BuildStores, Working, ChunksOf
    <3>5. CASE BuildStops(b) \/ BuildFails(b)
      BY <1>1, <3>1, <3>2, <3>5 DEF BuildStops, BuildFails, BuildEnds, Working, ChunksOf
    <3>6. ~BuildPromotes(b)
      <4>1. BuildPromotes(b) => index'.active = build[b].gen /\ build[b].at \in Working
        BY <2>0 DEF BuildPromotes, Working, Index
      <4> QED BY <1>1, <3>1, <3>2, <4>1
    <3>7. CASE BuildLocks(b) \/ BuildReads(b) \/ BuildMarks(b) \/ BuildChecks(b)
                 \/ BuildBreaks(b) \/ BuildDies(b)
      BY <2>1, <3>7 DEF BuildLocks, BuildReads, BuildMarks, BuildChecks, BuildBreaks, BuildDies,
            state
    <3> QED BY <2>2, <3>3, <3>4, <3>5, <3>6, <3>7 DEF BuildStep
  <2>3. ~DeleteIndex
    BY <1>1 DEF DeleteIndex
  <2>4. CASE SourceNext \/ SearchSyncs \/ SyncStepNext \/ Restart \/ UNCHANGED vars
    BY <2>1, <2>4 DEF SourceNext, SearchSyncs, SyncStepNext, Restart, vars, state
  <2>5. CASE AutoStep
    BY <2>1, <2>5 DEF AutoStep, AutoChecks, AutoDecides, AutoStarts, StartRebuild, state
  <2>6. CASE HandlerStep
    <3>1. UNCHANGED chunks
      BY <2>3, <2>6 DEF HandlerStep, RequestRebuild, StartRebuild, CancelRebuild,
            BeginHandler, SetConfig, MarkSensitive, UnmarkSensitive, state
    <3> QED BY <2>1, <3>1
  <2> QED BY <1>1, <2>2, <2>4, <2>5, <2>6 DEF Next
<1>2. IndexInv /\ [Next]_vars =>
        [~raced' /\ index'.active = index.active /\ index.active # 0 =>
           ChunksOf(index.active)' = ChunksOf(index.active)]_vars
  BY <1>1
<1> QED BY <1>2, IndexSafe, PTL DEF Spec, PreviousUsable
=============================================================================
