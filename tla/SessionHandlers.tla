-------------------------- MODULE SessionHandlers --------------------------
(***************************************************************************)
(* The requests of the administrator's tabs (app/admin.py) and the tools   *)
(* of the models (app/main.py) on sessions, groups, files and labels.      *)
(*                                                                         *)
(* One event loop serves them all.  A handler that reads the session or    *)
(* the file, awaits the body and then calls the store is two actions, and  *)
(* anything may happen between them; so is a PDF or an image, which a      *)
(* worker thread checks before it is saved.  Any other handler is one.     *)
(***************************************************************************)
EXTENDS SessionStore

CONSTANT Admins   \* tabs of the administrator's browser

VARIABLE tab      \* admin tab -> the file it shows, or the request it is sending

vars == <<group, session, file, label, assigned, tab>>

Idle == [at |-> "idle"]

\* A tab is idle, shows a file (and a text, if it is one), or has sent a request whose
\* body is still on its way.
Tabs == {Idle}
          \cup [at : {"open"}, file : Files, seen : Texts \cup {None}]
          \cup [at : {"mutate"}, file : Files, seen : Texts \cup {None},
                session : Sessions, group : Groups]
          \cup [at : {"label"}, group : Groups]

\* Every variable has its type (the tables of the schema, the requests in flight).
TypeOK == StoreTypeOK /\ tab \in [Admins -> Tabs]

Init == StoreInit /\ tab = [a \in Admins |-> Idle]

-----------------------------------------------------------------------------
(* Groups and sessions.                                                    *)

ApiCreateGroup(g) == CreateGroup(g) /\ UNCHANGED tab

ApiDeleteGroup(g, destination) == DeleteGroup(g, destination) /\ UNCHANGED tab

\* The group first, the title after it: a title that is refused leaves the new group.
ApiUpdateSession(s, g) == SetSessionGroup(s, g) /\ UNCHANGED tab

ToolCreateSession(s, g) == CreateSession(s, g) /\ UNCHANGED tab

-----------------------------------------------------------------------------
(* Uploads.  Of what the handler reads before it awaits only the session   *)
(* counts, and a session is never deleted: one action, when it is saved.   *)

\* From a tab: to the selected session, or to the group it is in when it is saved.
ApiUploadText(f, s) ==
  /\ \E text \in Texts : SaveSessionFile(f, s, text) \/ SaveGroupFileForSession(f, s, text)
  /\ UNCHANGED tab

IngestAdminImage(f, s) ==
  /\ Exists(s)
  /\ \E place \in {OfSession(s), OfGroup(session[s])}, size \in Sizes : SaveImage(f, place, size)
  /\ UNCHANGED tab

IngestAdminPdf(f, s) ==
  /\ \E size \in Sizes : SaveSessionPdf(f, s, size) \/ SaveGroupPdfForSession(f, s, size)
  /\ UNCHANGED tab

\* From a model, which names the session or the group itself.
ToolUploadSessionFile(f, s) == (\E text \in Texts : SaveSessionFile(f, s, text)) /\ UNCHANGED tab

ToolUploadGroupFile(f, g) == (\E text \in Texts : SaveGroupFile(f, g, text)) /\ UNCHANGED tab

ToolUploadSessionPdf(f, s) == (\E size \in Sizes : SaveSessionPdf(f, s, size)) /\ UNCHANGED tab

ToolUploadGroupPdf(f, g) == (\E size \in Sizes : SaveGroupPdf(f, g, size)) /\ UNCHANGED tab

-----------------------------------------------------------------------------
(* Requests about one file.                                                *)

\* The tab now shows the file, and knows the hash of what it shows.
ApiFile(a, f) ==
  /\ tab[a] = Idle
  /\ Stored(f)
  /\ tab' = [tab EXCEPT ![a] = [at |-> "open", file |-> f, seen |-> TextOf(f)]]
  /\ UNCHANGED store

\* api_mutate_file up to the body: the file is visible to the selected session.
BeginMutate(a, s) ==
  /\ tab[a].at = "open"
  /\ Exists(s)
  /\ tab[a].file \in FilesOf(s)
  /\ tab' = [tab EXCEPT ![a] = [at |-> "mutate", file |-> tab[a].file, seen |-> tab[a].seen,
                                session |-> s, group |-> session[s]]]
  /\ UNCHANGED store

\* The body is an edit.
FinishEdit(a, text) ==
  /\ tab[a].at = "mutate"
  /\ UpdateFile(tab[a].file, tab[a].seen, text, tab[a].session, tab[a].group)
  /\ tab' = [tab EXCEPT ![a] = Idle]

\* The body is a move, to the selected session or to the group it was in.
FinishMove(a) ==
  /\ tab[a].at = "mutate"
  /\ \E place \in {OfSession(tab[a].session), OfGroup(tab[a].group)} :
       MoveFile(tab[a].file, place, tab[a].session, tab[a].group)
  /\ tab' = [tab EXCEPT ![a] = Idle]

\* No body to wait for.
ApiDeleteFile(f, s) == Exists(s) /\ DeleteFile(f, s, session[s]) /\ UNCHANGED tab

\* The tab is closed, the connection lost, the body malformed, or the store refuses.
GiveUp(a) ==
  /\ tab[a] # Idle
  /\ tab' = [tab EXCEPT ![a] = Idle]
  /\ UNCHANGED store

-----------------------------------------------------------------------------
(* Labels.                                                                 *)

\* api_create_file_label up to the body: the group the session is in now.
BeginLabel(a, s) ==
  /\ tab[a] = Idle
  /\ Exists(s)
  /\ tab' = [tab EXCEPT ![a] = [at |-> "label", group |-> session[s]]]
  /\ UNCHANGED store

FinishLabel(a, l) ==
  /\ tab[a].at = "label"
  /\ CreateLabel(l, tab[a].group)
  /\ tab' = [tab EXCEPT ![a] = Idle]

ApiDeleteLabel(l, s) == Exists(s) /\ DeleteLabel(l, session[s]) /\ UNCHANGED tab

\* Of what is read before the body only the session counts.
ApiAssignLabel(l, fs, on, s) == AssignLabel(l, fs, on, s) /\ UNCHANGED tab

-----------------------------------------------------------------------------
GroupNext ==
  \/ \E g \in Groups : ApiCreateGroup(g)
  \/ \E g, destination \in Groups : ApiDeleteGroup(g, destination)
  \/ \E s \in Sessions, g \in Groups : ToolCreateSession(s, g) \/ ApiUpdateSession(s, g)

UploadNext ==
  \E f \in Files :
    \/ \E s \in Sessions :
         ApiUploadText(f, s) \/ IngestAdminImage(f, s) \/ IngestAdminPdf(f, s)
           \/ ToolUploadSessionFile(f, s) \/ ToolUploadSessionPdf(f, s)
    \/ \E g \in Groups : ToolUploadGroupFile(f, g) \/ ToolUploadGroupPdf(f, g)

FileNext ==
  \/ \E a \in Admins, f \in Files : ApiFile(a, f)
  \/ \E a \in Admins, s \in Sessions : BeginMutate(a, s)
  \/ \E a \in Admins, text \in Texts : FinishEdit(a, text)
  \/ \E a \in Admins : FinishMove(a) \/ GiveUp(a)
  \/ \E f \in Files, s \in Sessions : ApiDeleteFile(f, s)

LabelNext ==
  \/ \E a \in Admins, s \in Sessions : BeginLabel(a, s)
  \/ \E a \in Admins, l \in Labels : FinishLabel(a, l)
  \/ \E l \in Labels, s \in Sessions : ApiDeleteLabel(l, s)
  \/ \E l \in Labels, fs \in SUBSET Files, on \in BOOLEAN, s \in Sessions :
       ApiAssignLabel(l, fs, on, s)

Next == GroupNext \/ UploadNext \/ FileNext \/ LabelNext

Spec == Init /\ [][Next]_vars

-----------------------------------------------------------------------------
\* Whatever moves, is deleted or is relabelled, in whatever order, the administrator's
\* list shows every label a file has, because each belongs to the group the file is seen
\* from; and no label outlives its file, or its group (set_session_group,
\* delete_session_group, move_session_file and the cascades).
LabelsFollowGroup ==
  /\ \A f \in Files, l \in Labels :
       <<f, l>> \in assigned => Stored(f) /\ label[l] \in Groups
  /\ \A s \in Sessions : Exists(s) =>
       \A f \in FilesOf(s) : AdminFiles(s)[f] = {l \in Labels : <<f, l>> \in assigned}

\* Nothing is ever left in a group that is not there: sessions, files of a group and
\* labels are in active groups, and a file of a session belongs to a session that exists.
NothingStranded ==
  /\ \A s \in Sessions : Exists(s) => Active(session[s])
  /\ \A f \in Files : Stored(f) =>
       /\ file[f].place.scope = "group" => Active(file[f].place.id)
       /\ file[f].place.scope = "session" => Exists(file[f].place.id)
  /\ \A l \in Labels : label[l] \in Groups => Active(label[l])

\* The PDFs, and the images, never take more than the quota of their kind, whatever
\* uploads were being checked at the same time (_insert_pdf_file, save_image).
WithinQuota == Bytes("pdf") <= MaxBytes /\ Bytes("image") <= MaxBytes

\* A text is replaced only by a tab that had opened exactly that text, and that still
\* stands in a session, in the group it knew, from which the file is seen: of two tabs
\* that opened the same text, the later one to save does not undo the earlier one, and
\* none writes to a file that has moved out of its sight (update_session_file).
EditsWereSeen ==
  [][\A f \in Files :
       (IsText(f) /\ IsText(f)' /\ TextOf(f)' # TextOf(f)) =>
         \E a \in Admins :
           /\ tab[a].at = "mutate" /\ tab[a].file = f
           /\ tab[a].seen = TextOf(f)
           /\ session[tab[a].session] = tab[a].group
           /\ f \in FilesOf(tab[a].session)]_vars
=============================================================================
