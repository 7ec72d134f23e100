--------------------------- MODULE SearchDocuments ---------------------------
(***************************************************************************)
(* The search documents of app/search.py and their synchronisation.        *)
(*                                                                         *)
(* Triggers count every change of the sources (exchanges, sessions, files) *)
(* in a revision.  sync_documents compares it with the revision last       *)
(* synchronised, reads the sources, reads the stored hashes, and writes    *)
(* the differences: four transactions, in any thread that serves a search, *)
(* a status or a build, with nothing that keeps two of them apart.         *)
(*                                                                         *)
(* Contents are the things a document may say, as far as the code tells    *)
(* them apart by hash; a document Absent from a table has no row there.    *)
(***************************************************************************)
EXTENDS Naturals, FiniteSets

CONSTANTS
  Docs,         \* document keys
  Contents,     \* contents of a document, its group included
  Absent,       \* no such row
  Threads,      \* threads that may synchronise
  MaxRevision,  \* bound: changes of the sources
  MaxSyncs      \* bound: synchronisations at the same time

ASSUME SearchDocumentsAssumption ==
  /\ Absent \notin Contents
  /\ MaxRevision \in Nat
  /\ MaxSyncs \in Nat

VARIABLES
  source,     \* document -> what the exchanges and files say
  revision,   \* search_source_revision.revision
  synced,     \* search_source_revision.synced_revision, one higher (-1 is 0)
  documents,  \* search_documents: document -> content
  dirty,      \* search_dirty_documents
  sync        \* thread -> its running sync_documents

sources   == <<source, revision>>
documented == <<synced, documents, dirty>>

Rows  == [Docs -> Contents \cup {Absent}]
NoRows == [d \in Docs |-> Absent]

NoSync == [at |-> "none", seen |-> 0, rows |-> NoRows, stored |-> NoRows]

DocumentsTypeOK ==
  /\ source \in Rows
  /\ revision \in Nat
  /\ synced \in Nat
  /\ documents \in Rows
  /\ dirty \subseteq Docs
  /\ sync \in [Threads -> [at : {"none", "revision", "rows", "stored"},
                           seen : Nat, rows : Rows, stored : Rows]]

DocumentsInit ==
  /\ source \in Rows
  /\ revision = 1
  /\ synced = 0
  /\ documents = NoRows
  /\ dirty = {}
  /\ sync = [t \in Threads |-> NoSync]

-----------------------------------------------------------------------------

\* An exchange, session or file is saved, edited, moved, deleted or restored.
Change(d, c) ==
  /\ revision < MaxRevision
  /\ source[d] # c
  /\ source' = [source EXCEPT ![d] = c]
  /\ revision' = revision + 1
  /\ UNCHANGED <<documented, sync>>

Syncing(t) == sync[t].at # "none"

\* Nothing changed since the last synchronisation: sync_documents returns at once.
UpToDate == revision = synced

\* at is the last thing the thread has read.
ReadRevision(t) ==
  /\ Cardinality({u \in Threads : Syncing(u)}) < MaxSyncs
  /\ ~Syncing(t)
  /\ ~UpToDate
  /\ sync' = [sync EXCEPT ![t].at = "revision", ![t].seen = revision]
  /\ UNCHANGED <<sources, documented>>

ReadSources(t) ==
  /\ sync[t].at = "revision"
  /\ sync' = [sync EXCEPT ![t].at = "rows", ![t].rows = source]
  /\ UNCHANGED <<sources, documented>>

ReadStored(t) ==
  /\ sync[t].at = "rows"
  /\ sync' = [sync EXCEPT ![t].at = "stored", ![t].stored = documents]
  /\ UNCHANGED <<sources, documented>>

\* Documents whose hash differs, and stored documents without a source.
Differing(t) == {d \in Docs : sync[t].rows[d] # sync[t].stored[d]}

WriteDocuments(t) ==
  /\ sync[t].at = "stored"
  /\ documents' = [d \in Docs |-> IF d \in Differing(t) THEN sync[t].rows[d] ELSE documents[d]]
  /\ dirty' = dirty \cup Differing(t)
  /\ synced' = sync[t].seen
  /\ sync' = [sync EXCEPT ![t] = NoSync]
  /\ UNCHANGED sources

SyncStep(t) == ReadSources(t) \/ ReadStored(t) \/ WriteDocuments(t)
=============================================================================
