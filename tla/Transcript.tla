----------------------------- MODULE Transcript -----------------------------
(***************************************************************************)
(* The transcript of a session and its division into chunks                *)
(* (app/session_package.py), as pure functions.                            *)
(*                                                                         *)
(* A transcript is what its SHA-256 stands for: the title and, turn by     *)
(* turn, the exchange, its text and whether the response is masked.  Of    *)
(* its characters only the positions matter: a line is its length, with    *)
(* the line end, and a chunk of text is an interval of positions.          *)
(***************************************************************************)
EXTENDS Naturals, Sequences, SequencesExt, FiniteSetsExt

CONSTANTS
  ExchangeTexts,  \* what can be in an exchange: model, message and response
  Body            \* text -> masked or not -> lengths of the lines it is rendered in

\* splitlines(keepends=True) gives no empty line.
ASSUME TranscriptAssumption == Body \in [ExchangeTexts -> [BOOLEAN -> Seq(Nat \ {0})]]

\* Turns of a saved exchange: a masked response is replaced, whatever it was.
Turn(id, row) == [id |-> id, text |-> row.text, masked |-> row.masked]

\* _render_transcript_markdown: the metadata and the turn sequence first, in one line here.
HeaderLength == 2

LineLengths(transcript) ==
  <<HeaderLength>> \o
    FlattenSeq([i \in DOMAIN transcript.turns |->
                  Body[transcript.turns[i].text][transcript.turns[i].masked]])

CharCount(transcript) == FoldLeft(LAMBDA n, length : n + length, 0, LineLengths(transcript))

\* A line from position from on, in pieces of at most maxChars characters.
Pieces(from, length, maxChars) ==
  [i \in 1..((length + maxChars - 1) \div maxChars) |->
     [from |-> from + (i - 1) * maxChars, to |-> from + Min({i * maxChars, length})]]

\* _split_lines_for_chunking
Segments(lengths, maxChars) ==
  FoldLeft(LAMBDA acc, length : [cursor |-> acc.cursor + length,
                                 segments |-> acc.segments \o Pieces(acc.cursor, length, maxChars)],
           [cursor |-> 0, segments |-> << >>], lengths).segments

NoChunk == [from |-> 0, to |-> 0, lines |-> 0]

\* Mutant: the last chunk is not flushed when it is full.
FlushOpen(acc, limits) ==
  IF acc.open.lines \in {0, limits.lines} THEN acc.chunks ELSE Append(acc.chunks, acc.open)

\* flush: the chunks so far, with the open one when there is one.
Flush(acc, limits) ==
  IF acc.open.lines = 0 THEN acc.chunks ELSE Append(acc.chunks, acc.open)

\* A segment opens a new chunk when the open one has no room for it.
AddSegment(acc, segment, limits) ==
  IF /\ acc.open.lines > 0
     /\ \/ acc.open.lines >= limits.lines
        \/ segment.to - acc.open.from > limits.chars
  THEN [chunks |-> Flush(acc, limits), open |-> [from |-> segment.from, to |-> segment.to, lines |-> 1]]
  ELSE [acc EXCEPT !.open = [from  |-> IF @.lines = 0 THEN segment.from ELSE @.from,
                             to    |-> segment.to,
                             lines |-> @.lines + 1]]

\* chunk_text
Chunks(transcript, limits) ==
  Flush(FoldLeft(LAMBDA acc, segment : AddSegment(acc, segment, limits),
                 [chunks |-> << >>, open |-> NoChunk],
                 Segments(LineLengths(transcript), limits.chars)),
        limits)
=============================================================================
