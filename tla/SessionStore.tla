---------------------------- MODULE SessionStore ----------------------------
(***************************************************************************)
(* Session groups, sessions, their files and the labels of the files, as   *)
(* app/storage.py keeps them.  A method of the store is one transaction    *)
(* under the store's lock: one action, or nothing when it refuses.         *)
(*                                                                         *)
(* A file belongs to a session or to a group.  Every session that is in    *)
(* the group sees the file of a group; labels belong to a group too.       *)
(* Names, colours and bytes are left out.                                  *)
(***************************************************************************)
EXTENDS Naturals, FiniteSets, FiniteSetsExt

CONSTANTS
  Groups,          \* ids of session groups
  Uncategorized,   \* the system group, which is always there
  Sessions,        \* ids of sessions
  Files,           \* ids of files, never used again
  Labels,          \* ids of labels, never used again
  Texts,           \* contents of a text file
  Sizes,           \* bytes a PDF with its text, or an image, takes
  None,            \* no such row yet
  Gone,            \* the row was deleted
  MaxBytes,        \* pdf_storage_max_bytes and image_storage_max_bytes
  MaxLabels        \* MAX_FILE_LABELS_PER_GROUP

ASSUME SessionStoreAssumption ==
  /\ Uncategorized \in Groups
  /\ None \notin Groups /\ Gone \notin Groups

VARIABLES
  group,     \* group -> "none", "active" or "deleted"
  session,   \* session -> the group it is in
  file,      \* file -> its row
  label,     \* label -> the group it belongs to
  assigned   \* session_file_labels: pairs of a file and a label

store == <<group, session, file, label, assigned>>

OfSession(s) == [scope |-> "session", id |-> s]
OfGroup(g)   == [scope |-> "group", id |-> g]
Places       == [scope : {"session"}, id : Sessions] \cup [scope : {"group"}, id : Groups]

FileRows == [place : Places, kind : {"text"}, text : Texts]
              \cup [place : Places, kind : {"pdf", "image"}, size : Sizes]

ASSUME SizesAssumption == Sizes \subseteq Nat /\ MaxBytes \in Nat

ASSUME RowAssumption == None \notin FileRows /\ Gone \notin FileRows

StoreTypeOK ==
  /\ group \in [Groups -> {"none", "active", "deleted"}]
  /\ session \in [Sessions -> Groups \cup {None}]
  /\ file \in [Files -> FileRows \cup {None, Gone}]
  /\ label \in [Labels -> Groups \cup {None, Gone}]
  /\ assigned \subseteq Files \X Labels

Active(g) == group[g] = "active"
Exists(s) == session[s] # None
Stored(f) == file[f] \in FileRows
IsText(f) == Stored(f) /\ file[f].kind = "text"
TextOf(f) == IF IsText(f) THEN file[f].text ELSE None

\* A fresh database: the system group, and nothing else.
StoreInit ==
  /\ group = [g \in Groups |-> IF g = Uncategorized THEN "active" ELSE "none"]
  /\ session = [s \in Sessions |-> None]
  /\ file = [f \in Files |-> None]
  /\ label = [l \in Labels |-> None]
  /\ assigned = {}

-----------------------------------------------------------------------------
(* What is seen from where.                                                *)

\* The file belongs to the session or to its group, and the session is still in the
\* group the request was made for.
VisibleIn(f, s, g) == session[s] = g /\ file[f].place \in {OfSession(s), OfGroup(g)}

FilesOf(s) == {f \in Files : Stored(f) /\ VisibleIn(f, s, session[s])}

\* The labels of a file that belong to the group: no others are ever looked for.
LabelIdsFor(f, g) == {l \in Labels : <<f, l>> \in assigned /\ label[l] = g}

\* What the administrator's file list shows of a session: file by file, its labels.
AdminFiles(s) == [f \in FilesOf(s) |-> LabelIdsFor(f, session[s])]

-----------------------------------------------------------------------------
(* Groups and sessions.                                                    *)

CreateGroup(g) ==
  /\ group[g] = "none"
  /\ group' = [group EXCEPT ![g] = "active"]
  /\ UNCHANGED <<session, file, label, assigned>>

\* Mutant: the sessions move and the files of the group stay behind.
DeleteGroupKeepFiles(g, destination) ==
  /\ g # Uncategorized /\ g # destination
  /\ Active(g) /\ Active(destination)
  /\ group' = [group EXCEPT ![g] = "deleted"]
  /\ session' = [s \in Sessions |-> IF session[s] = g THEN destination ELSE session[s]]
  /\ label' = [l \in Labels |-> IF label[l] = g THEN Gone ELSE label[l]]
  /\ assigned' = {al \in assigned : label[al[2]] # g}
  /\ UNCHANGED file

\* Sessions and files of the group move to the destination; its labels are deleted,
\* and with them (ON DELETE CASCADE) every assignment of one.
DeleteGroup(g, destination) ==
  /\ g # Uncategorized /\ g # destination
  /\ Active(g) /\ Active(destination)
  /\ group' = [group EXCEPT ![g] = "deleted"]
  /\ session' = [s \in Sessions |-> IF session[s] = g THEN destination ELSE session[s]]
  /\ file' = [f \in Files |-> IF Stored(f) /\ file[f].place = OfGroup(g)
                                THEN [file[f] EXCEPT !.place = OfGroup(destination)]
                                ELSE file[f]]
  /\ label' = [l \in Labels |-> IF label[l] = g THEN Gone ELSE label[l]]
  /\ assigned' = {al \in assigned : label[al[2]] # g}

CreateSession(s, g) ==
  /\ session[s] = None
  /\ Active(g)
  /\ session' = [session EXCEPT ![s] = g]
  /\ UNCHANGED <<group, file, label, assigned>>

\* Mutant: the session's own files take the labels of the old group along.
SetSessionGroupKeepLabels(s, g) ==
  /\ Exists(s)
  /\ Active(g)
  /\ session' = [session EXCEPT ![s] = g]
  /\ UNCHANGED <<group, file, label, assigned>>

\* The session's own files lose their labels when its group changes.
SetSessionGroup(s, g) ==
  /\ Exists(s)
  /\ Active(g)
  /\ session' = [session EXCEPT ![s] = g]
  /\ assigned' = IF session[s] = g THEN assigned
                 ELSE {al \in assigned : ~(Stored(al[1]) /\ file[al[1]].place = OfSession(s))}
  /\ UNCHANGED <<group, file, label>>

-----------------------------------------------------------------------------
(* New files: texts, and PDFs and images within the quota of their kind.   *)

Bytes(kind) ==
  MapThenSumSet(LAMBDA f : file[f].size, {f \in Files : Stored(f) /\ file[f].kind = kind})

Insert(f, row) ==
  /\ file[f] = None
  /\ file' = [file EXCEPT ![f] = row]
  /\ UNCHANGED <<group, session, label, assigned>>

SaveSessionFile(f, s, text) ==
  /\ Exists(s)
  /\ Insert(f, [place |-> OfSession(s), kind |-> "text", text |-> text])

SaveGroupFile(f, g, text) ==
  /\ Active(g)
  /\ Insert(f, [place |-> OfGroup(g), kind |-> "text", text |-> text])

\* In the group the session is in now, not the one it was in when the tab was loaded.
SaveGroupFileForSession(f, s, text) ==
  /\ Exists(s)
  /\ SaveGroupFile(f, session[s], text)

SaveImage(f, place, size) ==
  /\ place.scope = "session" => Exists(place.id)
  /\ place.scope = "group" => Active(place.id)
  /\ Bytes("image") + size <= MaxBytes
  /\ Insert(f, [place |-> place, kind |-> "image", size |-> size])

\* Mutant: the file alone is measured against the quota.
InsertPdfAlone(f, place, size) ==
  /\ size <= MaxBytes
  /\ Insert(f, [place |-> place, kind |-> "pdf", size |-> size])

InsertPdf(f, place, size) ==
  /\ Bytes("pdf") + size <= MaxBytes
  /\ Insert(f, [place |-> place, kind |-> "pdf", size |-> size])

SaveSessionPdf(f, s, size) == Exists(s) /\ InsertPdf(f, OfSession(s), size)

SaveGroupPdf(f, g, size) == Active(g) /\ InsertPdf(f, OfGroup(g), size)

SaveGroupPdfForSession(f, s, size) == Exists(s) /\ SaveGroupPdf(f, session[s], size)

-----------------------------------------------------------------------------
(* Changes of a file, asked for from a session s in a group g.             *)

\* Mutant: the last one to save wins.
UpdateFileLastWins(f, seen, text, s, g) ==
  /\ IsText(f)
  /\ VisibleIn(f, s, g)
  /\ file' = [file EXCEPT ![f].text = text]
  /\ UNCHANGED <<group, session, label, assigned>>

\* expected_sha256 is the hash of the text the editor had opened.
UpdateFile(f, seen, text, s, g) ==
  /\ IsText(f)
  /\ VisibleIn(f, s, g)
  /\ TextOf(f) = seen
  /\ file' = [file EXCEPT ![f].text = text]
  /\ UNCHANGED <<group, session, label, assigned>>

\* A file that moves starts without labels.
MoveFile(f, place, s, g) ==
  /\ Stored(f)
  /\ VisibleIn(f, s, g)
  /\ place.scope = "group" => Active(place.id)
  /\ file' = [file EXCEPT ![f].place = place]
  /\ assigned' = IF file[f].place = place THEN assigned ELSE {al \in assigned : al[1] # f}
  /\ UNCHANGED <<group, session, label>>

\* The labels of the file go by ON DELETE CASCADE.
DeleteFile(f, s, g) ==
  /\ Stored(f)
  /\ VisibleIn(f, s, g)
  /\ file' = [file EXCEPT ![f] = Gone]
  /\ assigned' = {al \in assigned : al[1] # f}
  /\ UNCHANGED <<group, session, label>>

-----------------------------------------------------------------------------
(* Labels.                                                                 *)

CreateLabel(l, g) ==
  /\ label[l] = None
  /\ Active(g)
  /\ Cardinality({m \in Labels : label[m] = g}) < MaxLabels
  /\ label' = [label EXCEPT ![l] = g]
  /\ UNCHANGED <<group, session, file, assigned>>

IsLabelOf(l, g) == label[l] = g

DeleteLabel(l, g) ==
  /\ IsLabelOf(l, g)
  /\ label' = [label EXCEPT ![l] = Gone]
  /\ assigned' = {al \in assigned : al[2] # l}
  /\ UNCHANGED <<group, session, file>>

\* One label on, or off, several files: all of them or none.
AssignLabel(l, fs, on, s) ==
  /\ fs # {}
  /\ Exists(s)
  /\ IsLabelOf(l, session[s])
  /\ \A f \in fs : Stored(f) /\ VisibleIn(f, s, session[s])
  /\ assigned' = IF on THEN assigned \cup (fs \X {l}) ELSE assigned \ (fs \X {l})
  /\ UNCHANGED <<group, session, file, label>>
=============================================================================
