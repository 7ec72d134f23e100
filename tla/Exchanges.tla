----------------------------- MODULE Exchanges -----------------------------
(***************************************************************************)
(* The exchanges of one session: saved by models (app/main.py), edited,    *)
(* deleted, restored and masked by the administrator (app/admin.py), with  *)
(* a log of those changes (app/storage.py), and read back in chunks by a   *)
(* model.  Every store method is one transaction, every tool one step of   *)
(* the event loop; a reader makes one call after the other, and anything   *)
(* may change in between.                                                  *)
(***************************************************************************)
EXTENDS Transcript

CONSTANTS
  Exchanges,   \* 1..n, bound: exchanges ever saved
  Unsaved,     \* no such exchange yet
  ChunkLimits, \* values of chunk_max_chars and chunk_max_lines
  MaxEvents    \* bound: changes ever made by the administrator

\* A row of exchanges, of what is changed in it.
Rows == [text : ExchangeTexts, masked : BOOLEAN, deleted : BOOLEAN]

ASSUME ExchangesAssumption ==
  /\ Unsaved \notin Rows
  /\ Exchanges \subseteq Nat
  /\ ChunkLimits \subseteq [chars : Nat \ {0}, lines : Nat \ {0}]

VARIABLES
  exchange,  \* exchange -> its row
  title,     \* "auto" while title_is_auto, "derived", "given" or "suggested"
  log,       \* exchange_admin_events
  limits,    \* the settings transcript_chunk_max_chars and _lines
  reader     \* a model that fetches the transcript, and what it has of it

exchangeVars == <<exchange, title, log, limits, reader>>

NotReading == [at |-> "idle"]

ExchangesInit ==
  /\ exchange = [e \in Exchanges |-> Unsaved]
  /\ title = "auto"
  /\ log = << >>
  /\ limits \in ChunkLimits
  /\ reader = NotReading

IsSaved(e) == exchange[e] # Unsaved
Visible(e) == IsSaved(e) /\ ~exchange[e].deleted

-----------------------------------------------------------------------------
(* The store.                                                              *)

\* The first exchange of a session without a title gives it one.
SaveExchange(e, text) ==
  /\ exchange[e] = Unsaved
  /\ \A f \in Exchanges : f < e => IsSaved(f)
  /\ exchange' = [exchange EXCEPT ![e] = [text |-> text, masked |-> FALSE, deleted |-> FALSE]]
  /\ title' = IF title = "auto" /\ {f \in Exchanges : Visible(f)} = {} THEN "derived" ELSE title
  /\ UNCHANGED <<log, limits, reader>>

\* _record_exchange_event, in the transaction of the change.
Record(e, action, before, after) ==
  /\ Len(log) < MaxEvents
  /\ log' = Append(log, [exchange |-> e, action |-> action, before |-> before, after |-> after])

\* A change of a saved row: the row as it was and as it is then are recorded, also when
\* nothing changed.
Change(e, action, row) ==
  /\ IsSaved(e)
  /\ exchange' = [exchange EXCEPT ![e] = row]
  /\ Record(e, action, exchange[e], row)
  /\ UNCHANGED <<title, limits, reader>>

UpdateExchange(e, text) == Change(e, "edit", [exchange[e] EXCEPT !.text = text])

DeleteExchange(e) == Change(e, "delete", [exchange[e] EXCEPT !.deleted = TRUE])

RestoreExchange(e) == Change(e, "restore", [exchange[e] EXCEPT !.deleted = FALSE])

\* Mutant: the event is recorded before the update.
MaskResponseEarly(e, masked) ==
  /\ IsSaved(e)
  /\ exchange' = [exchange EXCEPT ![e].masked = masked]
  /\ Record(e, "mask", exchange[e], exchange[e])
  /\ UNCHANGED <<title, limits, reader>>

MaskResponse(e, masked) ==
  Change(e, IF masked THEN "mask" ELSE "unmask", [exchange[e] EXCEPT !.masked = masked])

-----------------------------------------------------------------------------
(* Titles and settings.                                                    *)

\* By hand, from the administrator's tab.
SetTitle ==
  /\ title' = "given"
  /\ UNCHANGED <<exchange, log, limits, reader>>

\* api_ai_rename_session, when the suggestion is there: whatever title the session has by
\* then.  Of what was read before the await only that there was an exchange counts.
SuggestTitle ==
  /\ \E e \in Exchanges : IsSaved(e)
  /\ title' = "suggested"
  /\ UNCHANGED <<exchange, log, limits, reader>>

\* Two commits, chars first: the service may end, or the second one fail, in between.
SetChunkLimits(l) ==
  /\ limits' \in {l, [l EXCEPT !.lines = limits.lines]}
  /\ UNCHANGED <<exchange, title, log, reader>>

-----------------------------------------------------------------------------
(* Reading.                                                                *)

\* render_session_transcript of what list_exchanges finds.
Rendered ==
  LET visible == {e \in Exchanges : Visible(e)}
      Nth(k)  == CHOOSE e \in visible : Cardinality({d \in visible : d <= e}) = k
  IN [title |-> title,
      turns |-> [k \in 1..Cardinality(visible) |-> Turn(Nth(k), exchange[Nth(k)])]]

\* get_session_transcript_chunk: one chunk of the transcript of now, cut by the limits of
\* now, with the hash, the limits and whether there are more; or that there is none.
ChunkAnswer(index) ==
  LET chunks == Chunks(Rendered, limits)
  IN IF index \in DOMAIN chunks
     THEN [sha |-> Rendered, limits |-> limits, text |-> chunks[index],
           more |-> index < Len(chunks)]
     ELSE [sha |-> Rendered, limits |-> limits, text |-> NoChunk, more |-> FALSE]

\* The model asks for a chunk and then for the next while there are more.  It goes on as
\* long as hash and limits are those of its first chunk, and gives up otherwise.
FetchChunk ==
  LET index  == IF reader = NotReading THEN 1 ELSE Len(reader.got) + 1
      answer == ChunkAnswer(index)
      first  == [at |-> "reading", sha |-> answer.sha, limits |-> answer.limits, got |-> << >>]
      so     == IF reader = NotReading THEN first ELSE reader
  IN /\ reader = NotReading \/ reader.at = "reading"
     /\ reader' = IF answer.sha = so.sha /\ answer.limits = so.limits
                  THEN [so EXCEPT !.at = IF answer.more THEN "reading" ELSE "done",
                                  !.got = Append(@, answer.text)]
                  ELSE NotReading
     /\ UNCHANGED <<exchange, title, log, limits>>

ReadAgain ==
  /\ reader # NotReading
  /\ reader' = NotReading
  /\ UNCHANGED <<exchange, title, log, limits>>

-----------------------------------------------------------------------------
ExchangesNext ==
  \/ \E e \in Exchanges, text \in ExchangeTexts : SaveExchange(e, text) \/ UpdateExchange(e, text)
  \/ \E e \in Exchanges : DeleteExchange(e) \/ RestoreExchange(e)
  \/ \E e \in Exchanges, masked \in BOOLEAN : MaskResponse(e, masked)
  \/ \E l \in ChunkLimits : SetChunkLimits(l)
  \/ SetTitle \/ SuggestTitle \/ FetchChunk \/ ReadAgain

ExchangesSpec == ExchangesInit /\ [][ExchangesNext]_exchangeVars

-----------------------------------------------------------------------------
\* The changes of an exchange, by their places in the log.
Changes(e) == {i \in DOMAIN log : log[i].exchange = e}

\* Replaying the log of an exchange leads, change by change and without a gap, to the row
\* it has now (exchange_admin_events, which the administrator reads as its history).
AuditTrail ==
  \A e \in Exchanges : \A i \in Changes(e) :
    LET later == {k \in Changes(e) : k > i}
    IN /\ later = {} => log[i].after = exchange[e]
       /\ \A j \in later : (\A k \in later : j <= k) => log[j].before = log[i].after

\* A model that fetched chunk after chunk, all of one hash and one pair of limits, until
\* there were no more, has the transcript of that hash: every character once and in order,
\* in chunks within the limits, whatever changed in between (chunk_text,
\* render_session_transcript_chunk).
ReadWhole ==
  reader.at = "done" =>
    LET got == reader.got
    IN /\ got[1].from = 0
       /\ \A i \in 1..(Len(got) - 1) : got[i + 1].from = got[i].to
       /\ got[Len(got)].to = CharCount(reader.sha)
       /\ \A i \in DOMAIN got : /\ got[i].to - got[i].from <= reader.limits.chars
                                /\ got[i].lines <= reader.limits.lines
=============================================================================
