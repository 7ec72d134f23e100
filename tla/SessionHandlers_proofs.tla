----------------------- MODULE SessionHandlers_proofs -----------------------
(* Theorems about sessions, groups, files and labels, for every value of the constants. *)
EXTENDS SessionHandlers, FiniteSetTheorems, TLAPS

-----------------------------------------------------------------------------
(***************************************************************************)
(* The inductive invariant.                                                *)
(***************************************************************************)

\* The group whose labels a stored file may carry: its own, or that of its session.
GroupOf(f) ==
  IF file[f].place.scope = "group" THEN file[f].place.id ELSE session[file[f].place.id]

\* A label on a file is a label of the group of the file: LabelsFollowGroup says what
\* lists show, and follows from this.
LabelsInGroup ==
  \A f \in Files, l \in Labels : <<f, l>> \in assigned =>
    Stored(f) /\ label[l] \in Groups /\ label[l] = GroupOf(f)

\* Sessions and files of a group are in an active one is what makes the group of a file
\* a group; NothingStranded is inductive only with the types.
Filed == StoreTypeOK /\ NothingStranded /\ LabelsInGroup

(***************************************************************************)
(* Rows.                                                                   *)
(***************************************************************************)

\* A row is in a session or in a group.
LEMMA PlaceOfRow ==
  ASSUME NEW row \in FileRows
  PROVE  /\ row.place \in Places
         /\ \/ row.place.scope = "session" /\ row.place.id \in Sessions
            \/ row.place.scope = "group" /\ row.place.id \in Groups
BY DEF FileRows, Places

\* The two kinds of place, and when two of them are the same.
LEMMA PlaceCases ==
  /\ \A s \in Sessions : OfSession(s) \in Places /\ OfSession(s).scope = "session"
                           /\ OfSession(s).id = s
  /\ \A g \in Groups : OfGroup(g) \in Places /\ OfGroup(g).scope = "group" /\ OfGroup(g).id = g
  /\ \A p \in Places : \/ p.scope = "session" /\ p.id \in Sessions /\ p = OfSession(p.id)
                       \/ p.scope = "group" /\ p.id \in Groups /\ p = OfGroup(p.id)
BY DEF OfSession, OfGroup, Places

\* A row that is moved stays a row, in the new place, with what it had.
LEMMA MovedRow ==
  ASSUME NEW row \in FileRows, NEW p \in Places
  PROVE  /\ [row EXCEPT !.place = p] \in FileRows
         /\ [row EXCEPT !.place = p].place = p
BY DEF FileRows

\* A text that is edited stays a row, in its place.
LEMMA EditedRow ==
  ASSUME NEW row \in FileRows, row.kind = "text", NEW text \in Texts
  PROVE  /\ [row EXCEPT !.text = text] \in FileRows
         /\ [row EXCEPT !.text = text].place = row.place
BY DEF FileRows

(***************************************************************************)
(* Every method of the store keeps the invariant.                          *)
(***************************************************************************)

LEMMA FiledInit == StoreInit => Filed
BY SessionStoreAssumption, RowAssumption
   DEF StoreInit, Filed, StoreTypeOK, NothingStranded, LabelsInGroup, Exists, Stored, Active

LEMMA CreateGroupFiled ==
  ASSUME Filed, NEW g \in Groups, CreateGroup(g)
  PROVE  Filed'
BY DEF Filed, StoreTypeOK, NothingStranded, LabelsInGroup, CreateGroup, GroupOf, Exists, Stored,
       Active

LEMMA CreateSessionFiled ==
  ASSUME Filed, NEW s \in Sessions, NEW g \in Groups, CreateSession(s, g)
  PROVE  Filed'
<1>1. StoreTypeOK' /\ NothingStranded'
  BY SessionStoreAssumption, PlaceOfRow
     DEF Filed, StoreTypeOK, NothingStranded, CreateSession, Exists, Stored, Active
<1>2. LabelsInGroup'
  <2> SUFFICES ASSUME NEW f \in Files, NEW l \in Labels, <<f, l>> \in assigned'
               PROVE  Stored(f)' /\ label'[l] \in Groups /\ label'[l] = GroupOf(f)'
    BY DEF LabelsInGroup
  <2>1. Stored(f) /\ label[l] \in Groups /\ label[l] = GroupOf(f)
    BY DEF Filed, LabelsInGroup, CreateSession
  <2>2. file[f].place.scope = "session" => Exists(file[f].place.id)
    BY <2>1 DEF Filed, NothingStranded
  <2>3. QED
    BY <2>1, <2>2, PlaceOfRow DEF Filed, StoreTypeOK, CreateSession, GroupOf, Exists, Stored
<1>3. QED
  BY <1>1, <1>2 DEF Filed

LEMMA SetSessionGroupFiled ==
  ASSUME Filed, NEW s \in Sessions, NEW g \in Groups, SetSessionGroup(s, g)
  PROVE  Filed'
<1>1. StoreTypeOK'
  BY DEF Filed, StoreTypeOK, SetSessionGroup
<1>2. NothingStranded'
  BY SessionStoreAssumption, PlaceOfRow
     DEF Filed, StoreTypeOK, NothingStranded, SetSessionGroup, Exists, Stored, Active
<1>3. LabelsInGroup'
  <2> SUFFICES ASSUME NEW f \in Files, NEW l \in Labels, <<f, l>> \in assigned'
               PROVE  Stored(f)' /\ label'[l] \in Groups /\ label'[l] = GroupOf(f)'
    BY DEF LabelsInGroup
  <2>1. <<f, l>> \in assigned
    BY DEF SetSessionGroup
  <2>2. Stored(f) /\ label[l] \in Groups /\ label[l] = GroupOf(f)
    BY <2>1 DEF Filed, LabelsInGroup
  <2>3. session[s] = g \/ file[f].place # OfSession(s)
    BY <2>2 DEF SetSessionGroup
  <2>4. file[f].place \in Places
    BY <2>2, PlaceOfRow DEF Stored
  <2>5. file[f].place.scope # "group" => session'[file[f].place.id] = session[file[f].place.id]
    BY <2>3, <2>4, PlaceCases DEF Filed, StoreTypeOK, SetSessionGroup
  <2>6. QED
    BY <2>2, <2>5 DEF SetSessionGroup, GroupOf, Stored
<1>4. QED
  BY <1>1, <1>2, <1>3 DEF Filed

LEMMA DeleteGroupFiled ==
  ASSUME Filed, NEW g \in Groups, NEW destination \in Groups, DeleteGroup(g, destination)
  PROVE  Filed'
<1>1. ASSUME NEW f \in Files, Stored(f)
      PROVE  /\ Stored(f)'
             /\ file[f].place \in Places
             /\ file'[f].place = IF file[f].place = OfGroup(g) THEN OfGroup(destination)
                                 ELSE file[f].place
  BY <1>1, MovedRow, PlaceCases, PlaceOfRow DEF DeleteGroup, Stored, Filed, StoreTypeOK
<1>2. ASSUME NEW f \in Files, ~Stored(f) PROVE file'[f] = file[f]
  BY <1>2 DEF DeleteGroup, Filed, StoreTypeOK
<1>3. StoreTypeOK'
  <2>1. file' \in [Files -> FileRows \cup {None, Gone}]
    BY <1>1, <1>2 DEF DeleteGroup, Stored, Filed, StoreTypeOK
  <2>2. QED
    BY <2>1 DEF DeleteGroup, Filed, StoreTypeOK
<1>4. \A h \in Groups \ {g} : Active(h) => Active(h)'
  BY DEF DeleteGroup, Filed, StoreTypeOK, Active
<1>5. destination # g /\ Active(destination)'
  BY <1>4 DEF DeleteGroup
<1>6. NothingStranded'
  <2>1. ASSUME NEW s \in Sessions, Exists(s)
        PROVE  Exists(s)' /\ session'[s] \in Groups \ {g} /\ group'[session'[s]] = "active"
    <3>1. session[s] \in Groups /\ Active(session[s])
      BY <2>1 DEF Filed, StoreTypeOK, NothingStranded, Exists
    <3>2. session'[s] = IF session[s] = g THEN destination ELSE session[s]
      BY DEF DeleteGroup, Filed, StoreTypeOK
    <3>3. session'[s] \in Groups \ {g}
      BY <1>5, <3>1, <3>2
    <3>4. Exists(s)'
      BY <3>3, SessionStoreAssumption DEF Exists
    <3>5. CASE session[s] = g
      BY <1>5, <3>2, <3>3, <3>4, <3>5 DEF Active
    <3>6. CASE session[s] # g
      BY <1>4, <3>1, <3>2, <3>3, <3>4, <3>6 DEF Active
    <3>7. QED
      BY <3>5, <3>6
  <2>2. ASSUME NEW s \in Sessions, Exists(s)' PROVE Exists(s)
    BY <2>2, SessionStoreAssumption DEF DeleteGroup, Filed, StoreTypeOK, Exists
  <2>3. ASSUME NEW f \in Files, Stored(f)'
        PROVE  /\ file'[f].place.scope = "group" => group'[file'[f].place.id] = "active"
               /\ file'[f].place.scope = "session" => session'[file'[f].place.id] # None
    <3>1. Stored(f)
      BY <1>2, <2>3 DEF Stored
    <3>2. CASE file[f].place = OfGroup(g)
      <4>1. file'[f].place.scope = "group" /\ file'[f].place.id = destination
        BY <1>1, <3>1, <3>2, PlaceCases
      <4>2. QED
        BY <1>5, <4>1 DEF Active
    <3>3. CASE file[f].place # OfGroup(g)
      <4>1. file'[f].place = file[f].place /\ file[f].place \in Places
        BY <1>1, <3>1, <3>3
      <4>2. CASE file[f].place.scope = "group"
        <5>1. file[f].place.id \in Groups \ {g}
          BY <3>3, <4>1, <4>2, PlaceCases
        <5>2. Active(file[f].place.id)
          BY <3>1, <4>2 DEF Filed, NothingStranded
        <5>3. group'[file'[f].place.id] = "active"
          BY <4>1, <5>1, <5>2 DEF DeleteGroup, Filed, StoreTypeOK, Active
        <5>4. QED
          BY <4>1, <4>2, <5>3
      <4>3. CASE file[f].place.scope = "session"
        <5>1. file[f].place.id \in Sessions /\ Exists(file[f].place.id)
          BY <3>1, <4>1, <4>3, PlaceCases DEF Filed, NothingStranded
        <5>2. session'[file'[f].place.id] # None
          BY <2>1, <4>1, <5>1 DEF Exists
        <5>3. QED
          BY <4>1, <4>3, <5>2
      <4>4. QED
        BY <4>1, <4>2, <4>3, PlaceCases
    <3>4. QED
      BY <3>2, <3>3
  <2>4. ASSUME NEW l \in Labels, label'[l] \in Groups PROVE group'[label'[l]] = "active"
    <3>1. label'[l] = label[l] /\ label[l] \in Groups \ {g}
      BY <2>4, SessionStoreAssumption DEF DeleteGroup, Filed, StoreTypeOK
    <3>2. group[label[l]] = "active"
      BY <3>1 DEF Filed, NothingStranded, Active
    <3>3. group'[label'[l]] = "active"
      BY <3>1, <3>2 DEF DeleteGroup, Filed, StoreTypeOK
    <3>4. QED
      BY <3>3
  <2>5. QED
    BY <2>1, <2>2, <2>3, <2>4 DEF NothingStranded, Active, Exists
<1>7. LabelsInGroup'
  <2> SUFFICES ASSUME NEW f \in Files, NEW l \in Labels, <<f, l>> \in assigned'
               PROVE  Stored(f)' /\ label'[l] \in Groups /\ label'[l] = GroupOf(f)'
    BY DEF LabelsInGroup
  <2>1. <<f, l>> \in assigned /\ label[l] # g
    BY DEF DeleteGroup
  <2>2. Stored(f) /\ label[l] \in Groups /\ label[l] = GroupOf(f)
    BY <2>1 DEF Filed, LabelsInGroup
  <2>3. label'[l] = label[l]
    BY <2>1 DEF DeleteGroup, Filed, StoreTypeOK
  <2>4. file[f].place # OfGroup(g)
    BY <2>1, <2>2, PlaceCases DEF GroupOf
  <2>5. file'[f].place = file[f].place /\ file[f].place \in Places /\ Stored(f)'
    BY <1>1, <2>2, <2>4
  <2>6. file[f].place.scope # "group" => session'[file[f].place.id] = session[file[f].place.id]
    BY <2>1, <2>2, <2>5, PlaceCases DEF DeleteGroup, Filed, StoreTypeOK, GroupOf
  <2>7. QED
    BY <2>2, <2>3, <2>5, <2>6 DEF GroupOf
<1>8. QED
  BY <1>3, <1>6, <1>7 DEF Filed

-----------------------------------------------------------------------------
\* A new file has no labels yet.
LEMMA InsertFiled ==
  ASSUME Filed, NEW f \in Files, NEW row \in FileRows, Insert(f, row),
         row.place.scope = "group" => Active(row.place.id),
         row.place.scope = "session" => Exists(row.place.id)
  PROVE  Filed'
<1>1. ~Stored(f) /\ Stored(f)' /\ file'[f] = row
  BY RowAssumption DEF Insert, Stored, Filed, StoreTypeOK
<1>2. \A h \in Files \ {f} : file'[h] = file[h]
  BY DEF Insert, Filed, StoreTypeOK
<1>3. StoreTypeOK'
  BY DEF Insert, Filed, StoreTypeOK
<1>4. NothingStranded'
  BY <1>1, <1>2 DEF Insert, Filed, NothingStranded, Exists, Active, Stored
<1>5. LabelsInGroup'
  BY <1>1, <1>2 DEF Insert, Filed, LabelsInGroup, GroupOf, Stored
<1>6. QED
  BY <1>3, <1>4, <1>5 DEF Filed

\* The three ways to name where a text goes.
LEMMA SaveTextFiled ==
  ASSUME Filed, NEW f \in Files, NEW text \in Texts, NEW s \in Sessions, NEW g \in Groups,
         \/ SaveSessionFile(f, s, text)
         \/ SaveGroupFile(f, g, text)
         \/ SaveGroupFileForSession(f, s, text)
  PROVE  Filed'
<1>1. ASSUME NEW p \in Places
      PROVE  /\ [place |-> p, kind |-> "text", text |-> text] \in FileRows
             /\ [place |-> p, kind |-> "text", text |-> text].place = p
  BY DEF FileRows
<1>2. ASSUME NEW h \in Groups, SaveGroupFile(f, h, text) PROVE Filed'
  BY <1>1, <1>2, PlaceCases, InsertFiled DEF SaveGroupFile
<1>3. CASE SaveSessionFile(f, s, text)
  BY <1>1, <1>3, PlaceCases, InsertFiled DEF SaveSessionFile
<1>4. CASE SaveGroupFileForSession(f, s, text)
  BY <1>2, <1>4 DEF SaveGroupFileForSession, Filed, StoreTypeOK, Exists
<1>5. QED
  BY <1>2, <1>3, <1>4

\* PDFs and images are rows too.
LEMMA SizedRow ==
  ASSUME NEW p \in Places, NEW k \in {"pdf", "image"}, NEW size \in Sizes
  PROVE  /\ [place |-> p, kind |-> k, size |-> size] \in FileRows
         /\ [place |-> p, kind |-> k, size |-> size].place = p
BY DEF FileRows

LEMMA SaveImageFiled ==
  ASSUME Filed, NEW f \in Files, NEW size \in Sizes, NEW p \in Places, SaveImage(f, p, size)
  PROVE  Filed'
BY SizedRow, PlaceCases, InsertFiled DEF SaveImage

LEMMA SavePdfFiled ==
  ASSUME Filed, NEW f \in Files, NEW size \in Sizes, NEW s \in Sessions, NEW g \in Groups,
         \/ SaveSessionPdf(f, s, size)
         \/ SaveGroupPdf(f, g, size)
         \/ SaveGroupPdfForSession(f, s, size)
  PROVE  Filed'
<1>1. ASSUME NEW h \in Groups, SaveGroupPdf(f, h, size) PROVE Filed'
  BY <1>1, SizedRow, PlaceCases, InsertFiled DEF SaveGroupPdf, InsertPdf
<1>2. CASE SaveSessionPdf(f, s, size)
  BY <1>2, SizedRow, PlaceCases, InsertFiled DEF SaveSessionPdf, InsertPdf
<1>3. CASE SaveGroupPdfForSession(f, s, size)
  BY <1>1, <1>3 DEF SaveGroupPdfForSession, Filed, StoreTypeOK, Exists
<1>4. QED
  BY <1>1, <1>2, <1>3

-----------------------------------------------------------------------------
LEMMA UpdateFileFiled ==
  ASSUME Filed, NEW f \in Files, NEW seen, NEW text \in Texts, NEW s, NEW g,
         UpdateFile(f, seen, text, s, g)
  PROVE  Filed'
<1>1. Stored(f) /\ Stored(f)' /\ file'[f].place = file[f].place
  BY EditedRow DEF UpdateFile, IsText, Stored, Filed, StoreTypeOK
<1>2. \A h \in Files \ {f} : file'[h] = file[h]
  BY DEF UpdateFile, Filed, StoreTypeOK
<1>3. StoreTypeOK'
  BY <1>1 DEF UpdateFile, Filed, StoreTypeOK, Stored
<1>4. NothingStranded'
  BY <1>1, <1>2 DEF UpdateFile, Filed, NothingStranded, Exists, Active, Stored
<1>5. LabelsInGroup'
  BY <1>1, <1>2 DEF UpdateFile, Filed, LabelsInGroup, GroupOf, Stored
<1>6. QED
  BY <1>3, <1>4, <1>5 DEF Filed

\* The place a file moves to is a group that is active or a session that exists.
LEMMA MoveFileFiled ==
  ASSUME Filed, NEW f \in Files, NEW p \in Places, NEW s, NEW g, MoveFile(f, p, s, g),
         p.scope = "session" => Exists(p.id)
  PROVE  Filed'
<1>1. Stored(f) /\ Stored(f)' /\ file'[f].place = p
  BY MovedRow DEF MoveFile, Stored, Filed, StoreTypeOK
<1>2. \A h \in Files \ {f} : file'[h] = file[h]
  BY DEF MoveFile, Filed, StoreTypeOK
<1>3. StoreTypeOK'
  BY <1>1 DEF MoveFile, Filed, StoreTypeOK, Stored
<1>4. NothingStranded'
  BY <1>1, <1>2 DEF MoveFile, Filed, NothingStranded, Exists, Active, Stored
<1>5. LabelsInGroup'
  <2> SUFFICES ASSUME NEW h \in Files, NEW l \in Labels, <<h, l>> \in assigned'
               PROVE  Stored(h)' /\ label'[l] \in Groups /\ label'[l] = GroupOf(h)'
    BY DEF LabelsInGroup
  <2>1. <<h, l>> \in assigned /\ (h = f => file[f].place = p)
    BY DEF MoveFile
  <2>2. Stored(h)' /\ file'[h].place = file[h].place
    BY <1>1, <1>2, <2>1 DEF Filed, LabelsInGroup, Stored
  <2>3. QED
    BY <2>1, <2>2 DEF MoveFile, Filed, LabelsInGroup, GroupOf
<1>6. QED
  BY <1>3, <1>4, <1>5 DEF Filed

LEMMA DeleteFileFiled ==
  ASSUME Filed, NEW f \in Files, NEW s, NEW g, DeleteFile(f, s, g)
  PROVE  Filed'
<1>1. ~Stored(f)' /\ \A h \in Files \ {f} : file'[h] = file[h]
  BY RowAssumption DEF DeleteFile, Stored, Filed, StoreTypeOK
<1>2. StoreTypeOK'
  BY DEF DeleteFile, Filed, StoreTypeOK
<1>3. NothingStranded'
  BY <1>1 DEF DeleteFile, Filed, NothingStranded, Exists, Active, Stored
<1>4. LabelsInGroup'
  BY <1>1 DEF DeleteFile, Filed, LabelsInGroup, GroupOf, Stored
<1>5. QED
  BY <1>2, <1>3, <1>4 DEF Filed

-----------------------------------------------------------------------------
LEMMA CreateLabelFiled ==
  ASSUME Filed, NEW l \in Labels, NEW g \in Groups, CreateLabel(l, g)
  PROVE  Filed'
<1>1. StoreTypeOK'
  BY DEF CreateLabel, Filed, StoreTypeOK
<1>2. NothingStranded'
  BY DEF CreateLabel, Filed, StoreTypeOK, NothingStranded, Exists, Active, Stored
<1>3. \A f \in Files : <<f, l>> \notin assigned
  BY SessionStoreAssumption DEF CreateLabel, Filed, LabelsInGroup
<1>4. LabelsInGroup'
  BY <1>3 DEF CreateLabel, Filed, StoreTypeOK, LabelsInGroup, GroupOf, Stored
<1>5. QED
  BY <1>1, <1>2, <1>4 DEF Filed

LEMMA DeleteLabelFiled ==
  ASSUME Filed, NEW l \in Labels, NEW g, DeleteLabel(l, g)
  PROVE  Filed'
<1>1. StoreTypeOK'
  BY DEF DeleteLabel, Filed, StoreTypeOK
<1>2. NothingStranded'
  BY SessionStoreAssumption
     DEF DeleteLabel, Filed, StoreTypeOK, NothingStranded, Exists, Active, Stored
<1>3. LabelsInGroup'
  BY DEF DeleteLabel, Filed, StoreTypeOK, LabelsInGroup, GroupOf, Stored
<1>4. QED
  BY <1>1, <1>2, <1>3 DEF Filed

\* A file that is visible from a session is in the group of the session.
LEMMA VisibleGroup ==
  ASSUME Filed, NEW f \in Files, Stored(f), NEW s \in Sessions, Exists(s),
         VisibleIn(f, s, session[s])
  PROVE  GroupOf(f) = session[s] /\ session[s] \in Groups
<1>1. session[s] \in Groups
  BY DEF Filed, StoreTypeOK, Exists
<1>2. QED
  BY <1>1, PlaceCases DEF VisibleIn, GroupOf

LEMMA AssignLabelFiled ==
  ASSUME Filed, NEW l \in Labels, NEW fs \in SUBSET Files, NEW on \in BOOLEAN, NEW s \in Sessions,
         AssignLabel(l, fs, on, s)
  PROVE  Filed'
<1>1. assigned' \subseteq assigned \cup (fs \X {l})
  BY DEF AssignLabel
<1>2. StoreTypeOK'
  BY <1>1 DEF AssignLabel, Filed, StoreTypeOK
<1>3. NothingStranded'
  BY DEF AssignLabel, Filed, NothingStranded, Exists, Active, Stored
<1>4. \A f \in fs : Stored(f) /\ label[l] \in Groups /\ label[l] = GroupOf(f)
  BY VisibleGroup DEF AssignLabel, IsLabelOf
<1>5. LabelsInGroup'
  BY <1>1, <1>4 DEF AssignLabel, Filed, LabelsInGroup, GroupOf, Stored
<1>6. QED
  BY <1>2, <1>3, <1>5 DEF Filed

(***************************************************************************)
(* Requests.                                                               *)
(***************************************************************************)

\* The tab of an administrator keeps its type, whatever is asked for.
LEMMA TabStep ==
  ASSUME TypeOK, [Next]_vars
  PROVE  tab' \in [Admins -> Tabs]
<1>1. tab \in [Admins -> Tabs]
  BY DEF TypeOK
<1>2. Idle \in Tabs
  BY DEF Tabs
<1>3. ASSUME NEW a \in Admins, NEW f \in Files, ApiFile(a, f) PROVE tab' \in [Admins -> Tabs]
  <2>1. TextOf(f) \in Texts \cup {None}
    BY DEF TextOf, IsText, Stored, FileRows
  <2>2. [at |-> "open", file |-> f, seen |-> TextOf(f)] \in Tabs
    BY <2>1 DEF Tabs
  <2>3. QED
    BY <1>1, <1>3, <2>2 DEF ApiFile
<1>4. ASSUME NEW a \in Admins, NEW s \in Sessions, BeginMutate(a, s)
      PROVE  tab' \in [Admins -> Tabs]
  <2>1. tab[a].file \in Files /\ tab[a].seen \in Texts \cup {None}
    BY <1>1, <1>4 DEF BeginMutate, Tabs, Idle
  <2>2. session[s] \in Groups
    BY <1>4 DEF BeginMutate, Exists, TypeOK, StoreTypeOK
  <2>3. [at |-> "mutate", file |-> tab[a].file, seen |-> tab[a].seen,
         session |-> s, group |-> session[s]] \in Tabs
    BY <2>1, <2>2 DEF Tabs
  <2>4. QED
    BY <1>1, <1>4, <2>3 DEF BeginMutate
<1>5. ASSUME NEW a \in Admins, NEW s \in Sessions, BeginLabel(a, s)
      PROVE  tab' \in [Admins -> Tabs]
  <2>1. [at |-> "label", group |-> session[s]] \in Tabs
    BY <1>5 DEF BeginLabel, Exists, TypeOK, StoreTypeOK, Tabs
  <2>2. QED
    BY <1>1, <1>5, <2>1 DEF BeginLabel
<1>6. CASE GroupNext
  BY <1>1, <1>6 DEF GroupNext, ApiCreateGroup, ApiDeleteGroup, ToolCreateSession, ApiUpdateSession
<1>7. CASE UploadNext
  BY <1>1, <1>7 DEF UploadNext, ApiUploadText, IngestAdminImage, IngestAdminPdf,
       ToolUploadSessionFile, ToolUploadSessionPdf, ToolUploadGroupFile, ToolUploadGroupPdf
<1>8. CASE FileNext
  BY <1>1, <1>2, <1>3, <1>4, <1>8 DEF FileNext, FinishEdit, FinishMove, GiveUp, ApiDeleteFile
<1>9. CASE LabelNext
  BY <1>1, <1>2, <1>5, <1>9 DEF LabelNext, FinishLabel, ApiDeleteLabel, ApiAssignLabel
<1>10. CASE UNCHANGED vars
  BY <1>1, <1>10 DEF vars
<1>11. QED
  BY <1>6, <1>7, <1>8, <1>9, <1>10 DEF Next

\* A request in flight names a file, a session and a group.
LEMMA MutateTab ==
  ASSUME TypeOK, NEW a \in Admins, tab[a].at = "mutate"
  PROVE  tab[a].file \in Files /\ tab[a].session \in Sessions /\ tab[a].group \in Groups
BY DEF TypeOK, Tabs, Idle

\* Every step keeps the invariant: one case for each request.
LEMMA FiledStep ==
  ASSUME TypeOK, Filed, [Next]_vars
  PROVE  Filed'
<1>1. ASSUME NEW g \in Groups, ApiCreateGroup(g) PROVE Filed'
  BY <1>1, CreateGroupFiled DEF ApiCreateGroup
<1>2. ASSUME NEW g \in Groups, NEW destination \in Groups, ApiDeleteGroup(g, destination)
      PROVE  Filed'
  BY <1>2, DeleteGroupFiled DEF ApiDeleteGroup
<1>3. ASSUME NEW s \in Sessions, NEW g \in Groups,
             ToolCreateSession(s, g) \/ ApiUpdateSession(s, g)
      PROVE  Filed'
  BY <1>3, CreateSessionFiled, SetSessionGroupFiled DEF ToolCreateSession, ApiUpdateSession
<1>4. CASE GroupNext
  BY <1>1, <1>2, <1>3, <1>4 DEF GroupNext
<1>5. ASSUME NEW f \in Files, NEW s \in Sessions,
             ApiUploadText(f, s) \/ ToolUploadSessionFile(f, s)
      PROVE  Filed'
  BY <1>5, SaveTextFiled, SessionStoreAssumption DEF ApiUploadText, ToolUploadSessionFile
<1>6. ASSUME NEW f \in Files, NEW s \in Sessions,
             IngestAdminPdf(f, s) \/ ToolUploadSessionPdf(f, s)
      PROVE  Filed'
  BY <1>6, SavePdfFiled, SessionStoreAssumption DEF IngestAdminPdf, ToolUploadSessionPdf
<1>7. ASSUME NEW f \in Files, NEW s \in Sessions, IngestAdminImage(f, s) PROVE Filed'
  <2>1. OfSession(s) \in Places /\ OfGroup(session[s]) \in Places
    BY <1>7, PlaceCases DEF IngestAdminImage, Exists, TypeOK, StoreTypeOK
  <2>2. QED
    BY <1>7, <2>1, SaveImageFiled DEF IngestAdminImage
<1>8. ASSUME NEW f \in Files, NEW g \in Groups, ToolUploadGroupFile(f, g) PROVE Filed'
  <2>1. PICK text \in Texts : SaveGroupFile(f, g, text)
    BY <1>8 DEF ToolUploadGroupFile
  <2>2. [place |-> OfGroup(g), kind |-> "text", text |-> text] \in FileRows
    BY PlaceCases DEF FileRows
  <2>3. QED
    BY <2>1, <2>2, PlaceCases, InsertFiled DEF SaveGroupFile
<1>9. ASSUME NEW f \in Files, NEW g \in Groups, ToolUploadGroupPdf(f, g) PROVE Filed'
  BY <1>9, SizedRow, PlaceCases, InsertFiled DEF ToolUploadGroupPdf, SaveGroupPdf, InsertPdf
<1>10. CASE UploadNext
  BY <1>5, <1>6, <1>7, <1>8, <1>9, <1>10 DEF UploadNext
<1>11. ASSUME NEW a \in Admins, NEW text \in Texts, FinishEdit(a, text) PROVE Filed'
  BY <1>11, MutateTab, UpdateFileFiled DEF FinishEdit
<1>12. ASSUME NEW a \in Admins, FinishMove(a) PROVE Filed'
  <2>1. PICK p \in {OfSession(tab[a].session), OfGroup(tab[a].group)} :
          MoveFile(tab[a].file, p, tab[a].session, tab[a].group)
    BY <1>12 DEF FinishMove
  <2>2. /\ tab[a].file \in Files /\ tab[a].session \in Sessions /\ tab[a].group \in Groups
    BY <1>12, MutateTab DEF FinishMove
  <2>3. p \in Places
    BY <2>2, PlaceCases
  <2>4. session[tab[a].session] = tab[a].group
    BY <2>1 DEF MoveFile, VisibleIn
  <2>5. p.scope = "session" => Exists(p.id)
    BY <2>2, <2>4, PlaceCases, SessionStoreAssumption DEF Exists
  <2>6. QED
    BY <2>1, <2>2, <2>3, <2>5, MoveFileFiled
<1>13. ASSUME NEW f \in Files, NEW s \in Sessions, ApiDeleteFile(f, s) PROVE Filed'
  BY <1>13, DeleteFileFiled DEF ApiDeleteFile
<1>14. ASSUME UNCHANGED store PROVE Filed'
  BY <1>14 DEF store, Filed, StoreTypeOK, NothingStranded, LabelsInGroup, GroupOf, Exists, Active,
               Stored
<1>15. CASE FileNext
  BY <1>11, <1>12, <1>13, <1>14, <1>15 DEF FileNext, ApiFile, BeginMutate, GiveUp
<1>16. ASSUME NEW a \in Admins, NEW l \in Labels, FinishLabel(a, l) PROVE Filed'
  <2>1. tab[a].group \in Groups
    BY <1>16 DEF FinishLabel, TypeOK, Tabs, Idle
  <2>2. QED
    BY <1>16, <2>1, CreateLabelFiled DEF FinishLabel
<1>17. ASSUME NEW l \in Labels, NEW s \in Sessions, ApiDeleteLabel(l, s) PROVE Filed'
  BY <1>17, DeleteLabelFiled DEF ApiDeleteLabel
<1>18. ASSUME NEW l \in Labels, NEW fs \in SUBSET Files, NEW on \in BOOLEAN, NEW s \in Sessions,
              ApiAssignLabel(l, fs, on, s)
       PROVE  Filed'
  BY <1>18, AssignLabelFiled DEF ApiAssignLabel
<1>19. CASE LabelNext
  BY <1>14, <1>16, <1>17, <1>18, <1>19 DEF LabelNext, BeginLabel
<1>20. CASE UNCHANGED vars
  BY <1>14, <1>20 DEF vars, store
<1>21. QED
  BY <1>4, <1>10, <1>15, <1>19, <1>20 DEF Next

\* Initially and after every step.
LEMMA FiledAlways == Spec => [](TypeOK /\ Filed)
<1>1. Init => TypeOK /\ Filed
  BY FiledInit DEF Init, TypeOK, Filed, Tabs
<1>2. TypeOK /\ Filed /\ [Next]_vars => (TypeOK /\ Filed)'
  BY TabStep, FiledStep DEF TypeOK, Filed
<1>3. QED
  BY <1>1, <1>2, PTL DEF Spec

-----------------------------------------------------------------------------
(***************************************************************************)
(* Theorems.                                                               *)
(***************************************************************************)

\* Every variable has its type.
THEOREM SessionTypes == Spec => []TypeOK
BY FiledAlways, PTL

\* No deletion of a group, move or upload leaves anything in a group that is not there.
THEOREM SessionsNotStranded == Spec => []NothingStranded
<1>1. Filed => NothingStranded
  BY DEF Filed
<1>2. QED
  BY <1>1, FiledAlways, PTL

\* The administrator's file list shows every label of every file, and no label outlives
\* its file or its group.
THEOREM LabelsAreShown == Spec => []LabelsFollowGroup
<1>1. Filed => LabelsFollowGroup
  <2> SUFFICES ASSUME Filed PROVE LabelsFollowGroup
    OBVIOUS
  <2>1. \A f \in Files, l \in Labels :
          <<f, l>> \in assigned => Stored(f) /\ label[l] \in Groups
    BY DEF Filed, LabelsInGroup
  <2>2. ASSUME NEW s \in Sessions, Exists(s), NEW f \in FilesOf(s)
        PROVE  AdminFiles(s)[f] = {l \in Labels : <<f, l>> \in assigned}
    <3>1. f \in Files /\ Stored(f) /\ GroupOf(f) = session[s]
      BY <2>2, VisibleGroup DEF FilesOf
    <3>2. \A l \in Labels : <<f, l>> \in assigned => label[l] = session[s]
      BY <3>1 DEF Filed, LabelsInGroup
    <3>3. QED
      BY <2>2, <3>2 DEF AdminFiles, LabelIdsFor
  <2>3. QED
    BY <2>1, <2>2 DEF LabelsFollowGroup
<1>2. QED
  BY <1>1, FiledAlways, PTL

\* Only an edit changes a text.
LEMMA OnlyEditsChangeTexts ==
  ASSUME TypeOK, [Next]_vars, NEW f \in Files, IsText(f), IsText(f)', TextOf(f)' # TextOf(f)
  PROVE  \E a \in Admins, text \in Texts : FinishEdit(a, text) /\ tab[a].file = f
<1>1. file'[f] # file[f] /\ file[f] \in FileRows /\ file'[f] \in FileRows
  BY DEF TextOf, IsText, Stored
<1>2. ASSUME file'[f] = [file[f] EXCEPT !.place = file'[f].place] PROVE FALSE
  BY <1>1, <1>2 DEF TextOf, IsText, Stored, FileRows
<1>3. ~UNCHANGED file
  BY <1>1
<1>4. ASSUME NEW h \in Files, NEW row, Insert(h, row) PROVE FALSE
  BY <1>1, <1>4, RowAssumption DEF Insert, TypeOK, StoreTypeOK
<1>5. ~GroupNext
  <2>1. ASSUME NEW g \in Groups, NEW destination \in Groups, DeleteGroup(g, destination)
        PROVE  FALSE
    <3>1. file'[f] = file[f] \/ file'[f] = [file[f] EXCEPT !.place = OfGroup(destination)]
      BY <2>1 DEF DeleteGroup, TypeOK, StoreTypeOK
    <3>2. file'[f] = [file[f] EXCEPT !.place = file'[f].place]
      BY <1>1, <3>1, MovedRow, PlaceCases
    <3>3. QED
      BY <1>2, <3>2
  <2>2. QED
    BY <1>3, <2>1 DEF GroupNext, ApiCreateGroup, CreateGroup, ApiDeleteGroup, ToolCreateSession,
         CreateSession, ApiUpdateSession, SetSessionGroup
<1>6. ~UploadNext
  BY <1>4 DEF UploadNext, ApiUploadText, IngestAdminImage, IngestAdminPdf, ToolUploadSessionFile,
       ToolUploadSessionPdf, ToolUploadGroupFile, ToolUploadGroupPdf, SaveSessionFile, SaveGroupFile,
       SaveGroupFileForSession, SaveImage, SaveSessionPdf, SaveGroupPdf, SaveGroupPdfForSession,
       InsertPdf
<1>7. ~LabelNext
  BY <1>3 DEF LabelNext, BeginLabel, store, FinishLabel, CreateLabel, ApiDeleteLabel, DeleteLabel,
       ApiAssignLabel, AssignLabel
<1>8. FileNext
  BY <1>3, <1>5, <1>6, <1>7 DEF Next, vars
<1>9. ASSUME NEW a \in Admins, FinishMove(a) PROVE FALSE
  <2>1. PICK p \in {OfSession(tab[a].session), OfGroup(tab[a].group)} :
          file' = [file EXCEPT ![tab[a].file].place = p]
    BY <1>9 DEF FinishMove, MoveFile
  <2>2. p \in Places
    BY <1>9, MutateTab, PlaceCases DEF FinishMove
  <2>3. file'[f] = file[f] \/ file'[f] = [file[f] EXCEPT !.place = p]
    BY <2>1 DEF TypeOK, StoreTypeOK
  <2>4. file'[f] = [file[f] EXCEPT !.place = file'[f].place]
    BY <1>1, <2>2, <2>3, MovedRow
  <2>5. QED
    BY <1>2, <2>4
<1>10. ASSUME NEW h \in Files, NEW s \in Sessions, ApiDeleteFile(h, s) PROVE FALSE
  BY <1>1, <1>10, RowAssumption DEF ApiDeleteFile, DeleteFile, TypeOK, StoreTypeOK
<1>11. PICK a \in Admins, text \in Texts : FinishEdit(a, text)
  BY <1>3, <1>8, <1>9, <1>10 DEF FileNext, ApiFile, BeginMutate, GiveUp, store
<1>12. tab[a].file = f
  BY <1>1, <1>11 DEF FinishEdit, UpdateFile, TypeOK, StoreTypeOK
<1>13. QED
  BY <1>11, <1>12

\* No edit undoes another one that its tab had not seen, or reaches a file that has moved
\* out of the tab's sight.
THEOREM EditsAreSeen == Spec => EditsWereSeen
<1>1. ASSUME TypeOK, [Next]_vars, NEW f \in Files, IsText(f), IsText(f)', TextOf(f)' # TextOf(f)
      PROVE  \E a \in Admins :
               /\ tab[a].at = "mutate" /\ tab[a].file = f
               /\ tab[a].seen = TextOf(f)
               /\ session[tab[a].session] = tab[a].group
               /\ f \in FilesOf(tab[a].session)
  <2>1. PICK a \in Admins, text \in Texts : FinishEdit(a, text) /\ tab[a].file = f
    BY <1>1, OnlyEditsChangeTexts
  <2>2. /\ tab[a].at = "mutate"
        /\ VisibleIn(f, tab[a].session, tab[a].group)
        /\ TextOf(f) = tab[a].seen
    BY <2>1 DEF FinishEdit, UpdateFile
  <2>3. session[tab[a].session] = tab[a].group
    BY <2>2 DEF VisibleIn
  <2>4. f \in FilesOf(tab[a].session)
    BY <1>1, <2>2, <2>3 DEF FilesOf, IsText
  <2>5. QED
    BY <2>1, <2>2, <2>3, <2>4
<1>2. TypeOK /\ [Next]_vars =>
        [\A f \in Files :
           (IsText(f) /\ IsText(f)' /\ TextOf(f)' # TextOf(f)) =>
             \E a \in Admins :
               /\ tab[a].at = "mutate" /\ tab[a].file = f
               /\ tab[a].seen = TextOf(f)
               /\ session[tab[a].session] = tab[a].group
               /\ f \in FilesOf(tab[a].session)]_vars
  BY <1>1
<1>3. QED
  BY <1>2, SessionTypes, PTL DEF Spec, EditsWereSeen

-----------------------------------------------------------------------------
(***************************************************************************)
(* The quotas.  Bytes(kind) adds up the sizes of a finite set of files, by *)
(* recursion over the set; the size of a set that has one element for      *)
(* every byte is that sum, and is what the theorems on cardinality speak   *)
(* about.                                                                  *)
(***************************************************************************)

\* The files of a kind, and one of a set of files.
OfKind(kind) == {f \in Files : Stored(f) /\ file[f].kind = kind}
Pick(s) == CHOOSE x \in s : TRUE

\* The bytes of a set of files, one by one: as many as their sizes add up to.
Units(s, w) == {u \in s \X Nat : u[2] \in 1..w[u[1]].size}

\* What the sum of the sizes is computed with.
Sums(S, w) ==
  CHOOSE g : g = [s \in SUBSET S |-> IF s = {} THEN 0 ELSE w[Pick(s)].size + g[s \ {Pick(s)}]]

Sized(S, w) == IsFiniteSet(S) /\ \A f \in S : w[f].size \in Nat

\* A file has as many bytes as its size says.
LEMMA UnitsOfOne ==
  ASSUME NEW f, NEW w, w[f].size \in Nat
  PROVE  IsFiniteSet(Units({f}, w)) /\ Cardinality(Units({f}, w)) = w[f].size
<1> DEFINE n == w[f].size
<1>0. n \in Nat
  OBVIOUS
<1>1. Units({f}, w) = {f} \X (1..n)
  BY DEF Units
<1> HIDE DEF n
<1>2. IsFiniteSet({f}) /\ Cardinality({f}) = 1
  BY FS_Singleton
<1>3. IsFiniteSet(1..n) /\ Cardinality(1..n) = n
  BY <1>0, FS_Interval
<1>4. IsFiniteSet(Units({f}, w)) /\ Cardinality(Units({f}, w)) = 1 * n
  BY <1>1, <1>2, <1>3, FS_Product
<1>5. QED
  BY <1>0, <1>4 DEF n

\* Finitely many files have finitely many bytes.
LEMMA UnitsFinite ==
  ASSUME NEW S, NEW w, Sized(S, w)
  PROVE  IsFiniteSet(Units(S, w))
<1> DEFINE Part == [f \in S |-> Units({f}, w)]
           Parts == {Part[f] : f \in S}
<1>1. Part \in Surjection(S, Parts)
  BY DEF Surjection
<1>2. IsFiniteSet(Parts)
  BY <1>1, FS_Surjection DEF Sized
<1>3. \A f \in S : IsFiniteSet(Units({f}, w))
  BY UnitsOfOne DEF Sized
<1>4. \A T \in Parts : IsFiniteSet(T)
  BY <1>3
<1>5. Units(S, w) = UNION Parts
  BY DEF Units
<1>6. QED
  BY <1>2, <1>4, <1>5, FS_UNION

\* One file more adds its size.
LEMMA UnitsAdd ==
  ASSUME NEW S, NEW w, Sized(S, w), NEW f \in S
  PROVE  Cardinality(Units(S, w)) = w[f].size + Cardinality(Units(S \ {f}, w))
<1>1. w[f].size \in Nat /\ Sized(S \ {f}, w)
  BY FS_RemoveElement DEF Sized
<1>2. /\ IsFiniteSet(Units({f}, w)) /\ Cardinality(Units({f}, w)) = w[f].size
      /\ IsFiniteSet(Units(S \ {f}, w))
  BY <1>1, UnitsOfOne, UnitsFinite
<1>3. /\ Units(S, w) = Units({f}, w) \cup Units(S \ {f}, w)
      /\ Units({f}, w) \cap Units(S \ {f}, w) = {}
  BY DEF Units
<1>4. Cardinality(Units(S \ {f}, w)) \in Nat
  BY <1>2, FS_CardinalityType
<1>5. Cardinality(Units({f}, w) \cup Units(S \ {f}, w))
        = Cardinality(Units({f}, w)) + Cardinality(Units(S \ {f}, w)) - Cardinality({})
  BY <1>2, <1>3, FS_Union
<1>6. Cardinality({}) = 0
  BY FS_EmptySet
<1>7. Cardinality(Units(S, w))
        = Cardinality(Units({f}, w)) + Cardinality(Units(S \ {f}, w)) - 0
  BY <1>3, <1>5, <1>6
<1>8. QED
  BY <1>1, <1>2, <1>4, <1>7

LEMMA NoUnits == \A w : Units({}, w) = {} /\ Cardinality(Units({}, w)) = 0
<1>1. \A w : Units({}, w) = {}
  BY DEF Units
<1>2. QED
  BY <1>1, FS_EmptySet

\* The recursion counts the bytes: the count satisfies its equation, so there is a function
\* that does, and by induction on the set there is only one.
LEMMA SumsOfUnits ==
  ASSUME NEW S, NEW w, Sized(S, w)
  PROVE  Sums(S, w)[S] = Cardinality(Units(S, w))
<1> DEFINE g == Sums(S, w)
           h == [s \in SUBSET S |-> Cardinality(Units(s, w))]
<1>1. \A s \in SUBSET S : Sized(s, w)
  BY FS_Subset DEF Sized
<1>2. ASSUME NEW s \in SUBSET S, s # {}
      PROVE  Pick(s) \in s /\ s \ {Pick(s)} \in SUBSET S
  BY <1>2 DEF Pick
<1>3. ASSUME NEW s \in SUBSET S, s # {}
      PROVE  Cardinality(Units(s, w))
               = w[Pick(s)].size + Cardinality(Units(s \ {Pick(s)}, w))
  BY <1>1, <1>2, <1>3, UnitsAdd
<1>4. ASSUME NEW s \in SUBSET S
      PROVE  h[s] = IF s = {} THEN 0 ELSE w[Pick(s)].size + h[s \ {Pick(s)}]
  <2>1. CASE s = {}
    BY <2>1, NoUnits
  <2>2. CASE s # {}
    BY <1>2, <1>3, <2>2
  <2>3. QED
    BY <2>1, <2>2
<1>5. h = [s \in SUBSET S |-> IF s = {} THEN 0 ELSE w[Pick(s)].size + h[s \ {Pick(s)}]]
  BY <1>4
<1>6. g = [s \in SUBSET S |-> IF s = {} THEN 0 ELSE w[Pick(s)].size + g[s \ {Pick(s)}]]
  BY <1>5 DEF Sums
<1>7. ASSUME NEW s \in SUBSET S, g[s] # h[s],
             \A t \in SUBSET S : t \subseteq s /\ t # s => g[t] = h[t]
      PROVE  FALSE
  <2>1. CASE s = {}
    BY <1>4, <1>6, <1>7, <2>1
  <2>2. CASE s # {}
    <3>1. Pick(s) \in s /\ s \ {Pick(s)} \in SUBSET S
      BY <1>2, <2>2
    <3>2. g[s \ {Pick(s)}] = h[s \ {Pick(s)}]
      BY <1>7, <3>1
    <3>3. g[s] = w[Pick(s)].size + g[s \ {Pick(s)}]
      BY <1>6, <2>2
    <3>4. QED
      BY <1>4, <1>7, <2>2, <3>2, <3>3
  <2>3. QED
    BY <2>1, <2>2
<1>8. \A s \in SUBSET S : g[s] = h[s]
  <2> DEFINE Bad == {s \in SUBSET S : g[s] # h[s]}
  <2>1. SUFFICES ASSUME Bad # {} PROVE FALSE
    OBVIOUS
  <2>2. IsWellFoundedOn(StrictSubsetOrdering(S), SUBSET S)
    BY FS_StrictSubsetOrderingWellFounded, FS_FiniteSubsetsOfFinite DEF Sized
  <2>3. PICK s \in Bad : \A t \in Bad : <<t, s>> \notin StrictSubsetOrdering(S)
    <3>1. Bad \subseteq SUBSET S
      OBVIOUS
    <3> HIDE DEF Bad
    <3>2. QED
      BY <2>1, <2>2, <3>1, WFMin
  <2>4. \A t \in SUBSET S : t \subseteq s /\ t # s => g[t] = h[t]
    BY <2>3 DEF StrictSubsetOrdering
  <2>5. QED
    BY <1>7, <2>4
<1>9. QED
  BY <1>8


\* A file of a kind that has a quota has a size.
LEMMA KindsHaveSizes ==
  ASSUME NEW row \in FileRows
  PROVE  row.kind \in {"text", "pdf", "image"} /\ (row.kind # "text" => row.size \in Nat)
BY SizesAssumption DEF FileRows

StoredFiles == {f \in Files : Stored(f)}

\* Only finitely many files are ever stored: their bytes have a sum.
QuotaInv == IsFiniteSet(StoredFiles) /\ WithinQuota

\* The bytes of a kind are counted one by one.
LEMMA BytesAreUnits ==
  ASSUME IsFiniteSet(StoredFiles), NEW kind \in {"pdf", "image"}
  PROVE  /\ IsFiniteSet(Units(OfKind(kind), file))
         /\ Bytes(kind) = Cardinality(Units(OfKind(kind), file))
<1>1. Sized(OfKind(kind), file)
  <2>1. IsFiniteSet(OfKind(kind))
    BY FS_Subset DEF OfKind, StoredFiles
  <2>2. QED
    BY <2>1, KindsHaveSizes DEF Sized, OfKind, Stored
<1>2. Bytes(kind) = Sums(OfKind(kind), file)[OfKind(kind)]
  BY DEF Bytes, MapThenSumSet, MapThenFoldSet, Sums, OfKind, Pick
<1>3. QED
  BY <1>1, <1>2, SumsOfUnits, UnitsFinite

\* The same of the state after a step.
LEMMA BytesAreUnitsAfter ==
  ASSUME IsFiniteSet(StoredFiles)', NEW kind \in {"pdf", "image"}
  PROVE  Bytes(kind)' = Cardinality(Units(OfKind(kind)', file'))
<1>1. Sized(OfKind(kind)', file')
  <2>1. IsFiniteSet(OfKind(kind)')
    BY FS_Subset DEF OfKind, StoredFiles
  <2>2. QED
    BY <2>1, KindsHaveSizes DEF Sized, OfKind, Stored
<1>2. Bytes(kind)' = Sums(OfKind(kind)', file')[OfKind(kind)']
  BY DEF Bytes, MapThenSumSet, MapThenFoldSet, Sums, OfKind, Pick
<1>3. QED
  BY <1>1, <1>2, SumsOfUnits

\* A new file is within the quota of its kind.
InsertWithin(f, row) ==
  /\ Insert(f, row)
  /\ row.kind # "text" => Bytes(row.kind) + row.size <= MaxBytes

\* The quota is measured in the transaction that inserts the file.
LEMMA InsertQuota ==
  ASSUME StoreTypeOK, QuotaInv, NEW f \in Files, NEW row \in FileRows, InsertWithin(f, row)
  PROVE  QuotaInv'
<1>1. /\ ~Stored(f) /\ file'[f] = row /\ \A h \in Files \ {f} : file'[h] = file[h]
  BY RowAssumption DEF InsertWithin, Insert, StoreTypeOK, Stored
<1>2. IsFiniteSet(StoredFiles)'
  <2>1. StoredFiles' = StoredFiles \cup {f}
    BY <1>1 DEF StoredFiles, Stored
  <2>2. QED
    BY <2>1, FS_AddElement DEF QuotaInv
<1>3. ASSUME NEW kind \in {"pdf", "image"} PROVE Bytes(kind)' <= MaxBytes
  <2> DEFINE U == Units(OfKind(kind), file)
             V == Units(OfKind(kind)', file')
  <2>1. /\ IsFiniteSet(U) /\ Bytes(kind) = Cardinality(U) /\ Cardinality(U) \in Nat
    BY BytesAreUnits, FS_CardinalityType DEF QuotaInv
  <2>2. Bytes(kind)' = Cardinality(V)
    BY <1>2, BytesAreUnitsAfter
  <2>3. CASE row.kind # kind
    <3>1. OfKind(kind)' = OfKind(kind) /\ f \notin OfKind(kind)
      BY <1>1, <2>3 DEF OfKind, Stored
    <3>2. V = U
      BY <1>1, <3>1 DEF Units, OfKind
    <3>3. QED
      BY <2>1, <2>2, <3>2 DEF QuotaInv, WithinQuota
  <2>4. CASE row.kind = kind
    <3>1. row.size \in Nat
      BY <2>4, KindsHaveSizes
    <3>2. OfKind(kind)' = OfKind(kind) \cup {f} /\ f \notin OfKind(kind)
      BY <1>1, <2>4 DEF OfKind, Stored
    <3>3. Sized(OfKind(kind)', file')
      <4>1. IsFiniteSet(OfKind(kind)')
        BY <1>2, FS_Subset DEF OfKind, StoredFiles
      <4>2. QED
        BY <4>1, KindsHaveSizes DEF Sized, OfKind, Stored
    <3>4. Cardinality(V) = row.size + Cardinality(Units(OfKind(kind), file'))
      <4>1. OfKind(kind)' \ {f} = OfKind(kind) /\ f \in OfKind(kind)'
        BY <3>2
      <4>2. Cardinality(V) = file'[f].size + Cardinality(Units(OfKind(kind)' \ {f}, file'))
        BY <3>3, <4>1, UnitsAdd
      <4>3. QED
        BY <1>1, <4>1, <4>2
    <3>5. Units(OfKind(kind), file') = U
      BY <1>1, <3>2 DEF Units, OfKind
    <3>6. Cardinality(U) + row.size <= MaxBytes
      BY <2>1, <2>4 DEF InsertWithin
    <3>7. QED
      BY <2>1, <2>2, <3>1, <3>4, <3>5, <3>6, SizesAssumption
  <2>5. QED
    BY <2>3, <2>4
<1>4. QED
  BY <1>2, <1>3 DEF QuotaInv, WithinQuota

\* No file is new or grows.
NoMoreBytes ==
  \A f \in Files : Stored(f)' =>
    /\ Stored(f) /\ file'[f].kind = file[f].kind
    /\ file[f].kind # "text" => file'[f].size = file[f].size

\* A step without new or larger files keeps the quotas.
LEMMA NoMoreBytesQuota ==
  ASSUME QuotaInv, NoMoreBytes
  PROVE  QuotaInv'
<1>1. IsFiniteSet(StoredFiles)'
  <2>1. StoredFiles' \subseteq StoredFiles
    BY DEF NoMoreBytes, StoredFiles
  <2>2. QED
    BY <2>1, FS_Subset DEF QuotaInv
<1>2. ASSUME NEW kind \in {"pdf", "image"} PROVE Bytes(kind)' <= MaxBytes
  <2> DEFINE U == Units(OfKind(kind), file)
             V == Units(OfKind(kind)', file')
  <2>1. V \subseteq U
    BY DEF NoMoreBytes, Units, OfKind
  <2>2. IsFiniteSet(U) /\ Bytes(kind) = Cardinality(U)
    BY BytesAreUnits DEF QuotaInv
  <2>3. Bytes(kind)' = Cardinality(V)
    BY <1>1, BytesAreUnitsAfter
  <2>4. Cardinality(V) <= Cardinality(U) /\ Cardinality(V) \in Nat /\ Cardinality(U) \in Nat
    BY <2>1, <2>2, FS_Subset, FS_CardinalityType
  <2>5. QED
    BY <2>2, <2>3, <2>4, SizesAssumption DEF QuotaInv, WithinQuota
<1>3. QED
  BY <1>1, <1>2 DEF QuotaInv, WithinQuota

\* A fresh database has no files.
LEMMA InitQuota == StoreInit => QuotaInv
<1> SUFFICES ASSUME StoreInit PROVE QuotaInv
  OBVIOUS
<1>1. StoredFiles = {}
  BY RowAssumption DEF StoreInit, StoredFiles, Stored
<1>2. IsFiniteSet(StoredFiles)
  BY <1>1, FS_EmptySet
<1>3. ASSUME NEW kind \in {"pdf", "image"} PROVE Bytes(kind) = 0
  <2>1. OfKind(kind) = {}
    BY <1>1 DEF OfKind, StoredFiles
  <2>2. QED
    BY <1>2, <2>1, BytesAreUnits, NoUnits
<1>4. QED
  BY <1>2, <1>3, SizesAssumption DEF QuotaInv, WithinQuota

\* Of the uploads only PDFs and images are measured, each against the files of its kind.
LEMMA UploadQuota ==
  ASSUME TypeOK, QuotaInv, UploadNext
  PROVE  QuotaInv'
<1>1. ASSUME NEW f \in Files, NEW p \in Places, NEW text \in Texts,
             Insert(f, [place |-> p, kind |-> "text", text |-> text])
      PROVE  QuotaInv'
  <2> DEFINE row == [place |-> p, kind |-> "text", text |-> text]
  <2>1. row \in FileRows /\ row.kind = "text"
    BY DEF FileRows
  <2>2. InsertWithin(f, row)
    BY <1>1, <2>1 DEF InsertWithin
  <2>3. QED
    BY <2>1, <2>2, InsertQuota DEF TypeOK
<1>2. ASSUME NEW f \in Files, NEW p \in Places, NEW kind \in {"pdf", "image"}, NEW size \in Sizes,
             Insert(f, [place |-> p, kind |-> kind, size |-> size]),
             Bytes(kind) + size <= MaxBytes
      PROVE  QuotaInv'
  <2> DEFINE row == [place |-> p, kind |-> kind, size |-> size]
  <2>1. row \in FileRows /\ row.kind = kind /\ row.size = size
    BY DEF FileRows
  <2>2. InsertWithin(f, row)
    BY <1>2, <2>1 DEF InsertWithin
  <2>3. QED
    BY <2>1, <2>2, InsertQuota DEF TypeOK
<1>3. /\ \A s \in Sessions : OfSession(s) \in Places
      /\ \A g \in Groups : OfGroup(g) \in Places
      /\ \A s \in Sessions : Exists(s) => OfGroup(session[s]) \in Places
  BY PlaceCases DEF TypeOK, StoreTypeOK, Exists
<1>4. ASSUME NEW f \in Files, NEW s \in Sessions,
             ApiUploadText(f, s) \/ ToolUploadSessionFile(f, s)
      PROVE  QuotaInv'
  BY <1>1, <1>3, <1>4
     DEF ApiUploadText, ToolUploadSessionFile, SaveSessionFile, SaveGroupFileForSession, SaveGroupFile
<1>5. ASSUME NEW f \in Files, NEW g \in Groups, ToolUploadGroupFile(f, g) PROVE QuotaInv'
  BY <1>1, <1>3, <1>5 DEF ToolUploadGroupFile, SaveGroupFile
<1>6. ASSUME NEW f \in Files, NEW s \in Sessions, IngestAdminImage(f, s) PROVE QuotaInv'
  BY <1>2, <1>3, <1>6 DEF IngestAdminImage, SaveImage
<1>7. ASSUME NEW f \in Files, NEW s \in Sessions,
             IngestAdminPdf(f, s) \/ ToolUploadSessionPdf(f, s)
      PROVE  QuotaInv'
  BY <1>2, <1>3, <1>7
     DEF IngestAdminPdf, ToolUploadSessionPdf, SaveSessionPdf, SaveGroupPdfForSession, SaveGroupPdf,
         InsertPdf
<1>8. ASSUME NEW f \in Files, NEW g \in Groups, ToolUploadGroupPdf(f, g) PROVE QuotaInv'
  BY <1>2, <1>3, <1>8 DEF ToolUploadGroupPdf, SaveGroupPdf, InsertPdf
<1>9. QED
  BY <1>4, <1>5, <1>6, <1>7, <1>8 DEF UploadNext

\* Everything else moves, edits or deletes files, or leaves them alone.
LEMMA OtherQuota ==
  ASSUME TypeOK, QuotaInv, GroupNext \/ FileNext \/ LabelNext \/ UNCHANGED vars
  PROVE  QuotaInv'
<1>1. ASSUME UNCHANGED file PROVE QuotaInv'
  BY <1>1, NoMoreBytesQuota DEF NoMoreBytes, Stored
<1>2. ASSUME NEW g \in Groups, NEW destination \in Groups, ApiDeleteGroup(g, destination)
      PROVE  QuotaInv'
  <2>1. NoMoreBytes
    <3> SUFFICES ASSUME NEW f \in Files, Stored(f)'
                 PROVE  /\ Stored(f) /\ file'[f].kind = file[f].kind
                        /\ file[f].kind # "text" => file'[f].size = file[f].size
      BY DEF NoMoreBytes
    <3>1. \/ file'[f] = file[f]
          \/ Stored(f) /\ file'[f] = [file[f] EXCEPT !.place = OfGroup(destination)]
      BY <1>2 DEF ApiDeleteGroup, DeleteGroup
    <3>2. QED
      BY <3>1 DEF Stored, FileRows
  <2>2. QED
    BY <2>1, NoMoreBytesQuota
<1>3. ASSUME NEW f \in Files, NEW row \in FileRows \cup {Gone}, Stored(f),
             file' = [file EXCEPT ![f] = row],
             row # Gone => row.kind = file[f].kind /\ (row.kind # "text" => row.size = file[f].size)
      PROVE  QuotaInv'
  <2>1. NoMoreBytes
    BY <1>3, RowAssumption DEF NoMoreBytes, Stored, TypeOK, StoreTypeOK
  <2>2. QED
    BY <2>1, NoMoreBytesQuota
<1>4. ASSUME NEW a \in Admins, NEW text \in Texts, FinishEdit(a, text) PROVE QuotaInv'
  <2> DEFINE f == tab[a].file
             row == [file[f] EXCEPT !.text = text]
  <2>1. f \in Files /\ IsText(f) /\ file' = [file EXCEPT ![f] = row]
    BY <1>4, MutateTab DEF FinishEdit, UpdateFile
  <2>2. row \in FileRows /\ row.kind = "text" /\ file[f].kind = "text"
    BY <2>1 DEF IsText, Stored, FileRows
  <2>3. QED
    BY <1>3, <2>1, <2>2 DEF IsText
<1>5. ASSUME NEW a \in Admins, FinishMove(a) PROVE QuotaInv'
  <2> DEFINE f == tab[a].file
  <2>1. f \in Files /\ tab[a].session \in Sessions /\ tab[a].group \in Groups
    BY <1>5, MutateTab DEF FinishMove
  <2>2. PICK p \in {OfSession(tab[a].session), OfGroup(tab[a].group)} :
          Stored(f) /\ file' = [file EXCEPT ![f].place = p]
    BY <1>5 DEF FinishMove, MoveFile
  <2>3. p \in Places
    BY <2>1, PlaceCases
  <2> DEFINE row == [file[f] EXCEPT !.place = p]
  <2>4. row \in FileRows /\ row.kind = file[f].kind /\ (row.kind # "text" => row.size = file[f].size)
    BY <2>2, <2>3 DEF Stored, FileRows
  <2>5. QED
    BY <1>3, <2>1, <2>2, <2>4
<1>6. ASSUME NEW f \in Files, NEW s \in Sessions, ApiDeleteFile(f, s) PROVE QuotaInv'
  BY <1>3, <1>6 DEF ApiDeleteFile, DeleteFile
<1>7. CASE GroupNext
  BY <1>1, <1>2, <1>7
     DEF GroupNext, ApiCreateGroup, CreateGroup, ToolCreateSession, CreateSession, ApiUpdateSession,
         SetSessionGroup
<1>8. CASE FileNext
  BY <1>1, <1>4, <1>5, <1>6, <1>8 DEF FileNext, ApiFile, BeginMutate, GiveUp, store
<1>9. CASE LabelNext
  BY <1>1, <1>9
     DEF LabelNext, BeginLabel, store, FinishLabel, CreateLabel, ApiDeleteLabel, DeleteLabel,
         ApiAssignLabel, AssignLabel
<1>10. CASE UNCHANGED vars
  BY <1>1, <1>10 DEF vars
<1>11. QED
  BY <1>7, <1>8, <1>9, <1>10

\* However many uploads are being checked at the same time, and whatever is moved or
\* deleted in between, PDFs and images stay within their quotas.
THEOREM QuotasHold == Spec => []WithinQuota
<1>1. Init => TypeOK /\ QuotaInv
  BY FiledInit, InitQuota DEF Init, TypeOK, Filed, Tabs
<1>2. TypeOK /\ QuotaInv /\ [Next]_vars => QuotaInv'
  BY UploadQuota, OtherQuota DEF Next
<1>3. QuotaInv => WithinQuota
  BY DEF QuotaInv
<1>4. QED
  BY <1>1, <1>2, <1>3, SessionTypes, PTL DEF Spec
=============================================================================
