---------------------------- MODULE CodexClient ----------------------------
(***************************************************************************)
(* The client of the Codex App Server (app/codex_app_server.py): one web   *)
(* socket, one reader, and calls that share them on one event loop.        *)
(*                                                                         *)
(* A call is its coroutine, suspended at an await.  The reader handles the *)
(* server's messages one at a time; what it resolves reaches the call when *)
(* the call is resumed, and other messages, or the end of the connection,  *)
(* may come first.  Request ids are never used twice, so a response is     *)
(* kept with the call that waits for it.  Interrupts of a turn are left    *)
(* out: the server may end a turn with any status at any time.             *)
(***************************************************************************)
EXTENDS Naturals, FiniteSets

CONSTANTS
  Calls,            \* coroutines that use the client
  NoCall,
  CodexThreads,     \* ids of conversations, never used twice
  CodexTurns,       \* ids of turns, never used twice
  Does,             \* call -> the methods it is used for
  MaxOwnedThreads,  \* MAX_OWNED_THREADS
  MaxConnections    \* bound: sockets ever opened

\* chat or extract_structured in a new conversation, chat in one that is owned,
\* device_login_status (and status), start_device_login, cancel_device_login, logout.
Kinds == {"new", "old", "poll", "login", "cancel", "logout"}

ASSUME CodexAssumption ==
  NoCall \notin Calls \cup CodexThreads \cup CodexTurns /\ MaxOwnedThreads \in Nat \ {0}
ASSUME DoesAssumption == Does \in [Calls -> SUBSET Kinds]

VARIABLES
  ws,           \* self._ws: the number of the connection, 0 for none
  dialed,       \* connections opened so far
  matches,      \* those whose server runs the expected version
  connectLock,  \* holder of self._connect_lock
  threads,      \* keys of self._thread_locks
  started,      \* conversations the server ever started
  turns,        \* self._turns: turn -> its state
  served,       \* turn -> what the server did of it
  login,        \* self._login_payload and self._login_outcome
  call          \* call -> where it waits

codexVars ==
  <<ws, dialed, matches, connectLock, threads, started, turns, served, login, call>>

Resting == [at |-> "idle", kind |-> "none", conn |-> 0, reply |-> "none",
            thread |-> NoCall, turn |-> NoCall]

Unserved == [call |-> NoCall, conn |-> 0, state |-> "none", tool |-> FALSE,
             unnamed |-> FALSE]

\* No state is kept of the turn.
NoTurn == [future |-> "none", text |-> FALSE]

\* A login that was started and neither cancelled nor forgotten: its payload is kept.
LoginKept == login \in {"pending", "over"}

\* Awaiting an answer to a request that was sent on connection call[c].conn.
Sent == {"init", "thread", "starting", "rpc"}

CodexInit ==
  /\ ws = 0 /\ dialed = 0 /\ matches = {} /\ connectLock = NoCall
  /\ threads = {} /\ started = {}
  /\ turns = [t \in CodexTurns |-> NoTurn]
  /\ served = [t \in CodexTurns |-> Unserved]
  /\ login = "none"
  /\ call = [c \in Calls |-> Resting]

\* The reader runs exactly while there is a socket: whatever ends it takes the socket away.
Connected == ws # 0

Locked(h) == \E c \in Calls : call[c].thread = h /\ call[c].at # "answered"

\* The turn's state, made when the first message about it, or the call itself, asks for it.
TurnState(t) == IF turns[t] = NoTurn THEN [future |-> "open", text |-> FALSE] ELSE turns[t]

Release(c) == connectLock' = IF connectLock = c THEN NoCall ELSE connectLock

\* The call raises, or returns without an answer of a turn.
Ends(c) == call' = [call EXCEPT ![c] = Resting]

\* Every waiting request and turn fails; conversations and the login are forgotten.
Invalidate(others) ==
  /\ ws' = 0
  /\ threads' = {}
  /\ login' = "none"
  /\ turns' = [t \in CodexTurns |-> NoTurn]
  /\ call' = [c \in Calls |->
       IF c \notin others THEN Resting
       ELSE IF call[c].at \in Sent /\ call[c].reply = "waiting"
         THEN [call[c] EXCEPT !.reply = "error"]
       ELSE IF call[c].at = "turn" /\ turns[call[c].turn] # NoTurn
         THEN [call[c] EXCEPT !.reply = IF turns[call[c].turn].future = "open" THEN "error"
                                        ELSE IF turns[call[c].turn].text
                                          THEN turns[call[c].turn].future ELSE "empty"]
       ELSE call[c]]

-----------------------------------------------------------------------------
(* Connecting: _ensure_connected.                                          *)

\* The request is registered and sent.
Send(c, at) ==
  call' = [call EXCEPT ![c].at = at, ![c].conn = ws, ![c].reply = "waiting"]

\* _make_thread_capacity: room for one more conversation, if need be in the place of one
\* that is not in use (the least recently used one; the order is left out).
MakeThreadCapacity ==
  \/ Cardinality(threads) < MaxOwnedThreads /\ UNCHANGED threads
  \/ /\ Cardinality(threads) >= MaxOwnedThreads
     /\ \E h \in threads : ~Locked(h) /\ threads' = threads \ {h}

\* What a call sends first on an open connection.
Proceed(c, kind) ==
  \/ /\ kind = "new" /\ call[c].thread = NoCall
     /\ MakeThreadCapacity
     /\ call' = [call EXCEPT ![c] = [Resting EXCEPT !.at = "thread", !.kind = kind,
                                       !.conn = ws, !.reply = "waiting"]]
  \/ \* Every conversation there is room for is in use: the call raises.
     /\ kind = "new" /\ call[c].thread = NoCall
     /\ Cardinality(threads) >= MaxOwnedThreads /\ \A h \in threads : Locked(h)
     /\ Ends(c) /\ UNCHANGED threads
  \/ /\ call[c].thread # NoCall
     /\ Send(c, "starting") /\ UNCHANGED threads
  \/ \* A login that is still pending is shown again.
     /\ kind = "login" /\ login = "pending"
     /\ Ends(c) /\ UNCHANGED threads
  \/ /\ kind \in Kinds \ {"new", "old"}
     /\ ~(kind = "login" /\ login = "pending")
     /\ call' = [call EXCEPT ![c] = [Resting EXCEPT !.at = "rpc", !.kind = kind,
                                       !.conn = ws, !.reply = "waiting"]]
     /\ UNCHANGED threads

\* A call that finds a socket uses it at once; any other waits for the connect lock.
Begin(c, kind) ==
  /\ call[c].at = "idle"
  /\ kind = "cancel" => LoginKept
  /\ IF Connected
     THEN Proceed(c, kind)
     ELSE call' = [call EXCEPT ![c] = [Resting EXCEPT !.at = "wait", !.kind = kind]]
            /\ UNCHANGED threads
  /\ UNCHANGED <<ws, dialed, matches, connectLock, started, turns, served, login>>

\* A message in a conversation that is owned and not in use.
BeginTurn(c, h) ==
  /\ call[c].at = "idle"
  /\ "old" \in Does[c] /\ h \in threads /\ ~Locked(h)
  /\ call' = [call EXCEPT ![c] = [Resting EXCEPT !.kind = "old", !.thread = h, !.conn = ws,
                !.at = IF Connected THEN "starting" ELSE "wait",
                !.reply = IF Connected THEN "waiting" ELSE "none"]]
  /\ UNCHANGED <<ws, dialed, matches, connectLock, threads, started, turns, served, login>>

\* The lock is free: somebody has connected meanwhile, or this call does.
TakeLock(c) ==
  /\ call[c].at = "wait" /\ connectLock = NoCall
  /\ IF Connected
     THEN Proceed(c, call[c].kind) /\ UNCHANGED connectLock
     ELSE /\ connectLock' = c
          /\ call' = [call EXCEPT ![c].at = "dial"]
          /\ UNCHANGED threads
  /\ UNCHANGED <<ws, dialed, matches, started, turns, served, login>>

\* Connected, the reader started, and initialize sent: the socket is there for everybody.
Dial(c, match) ==
  /\ call[c].at = "dial" /\ dialed < MaxConnections
  /\ dialed' = dialed + 1
  /\ ws' = dialed'
  /\ matches' = IF match THEN matches \cup {dialed'} ELSE matches
  /\ call' = [call EXCEPT ![c].at = "init", ![c].conn = dialed', ![c].reply = "waiting"]
  /\ UNCHANGED <<connectLock, threads, started, turns, served, login>>

DialFails(c) ==
  /\ call[c].at = "dial"
  /\ Release(c) /\ Ends(c)
  /\ UNCHANGED <<ws, dialed, matches, threads, started, turns, served, login>>

\* The version is the expected one and initialized is sent: the call goes on at once.
Initialized(c) ==
  /\ call[c].at = "init" /\ call[c].reply = "result" /\ call[c].conn \in matches
  /\ Connected
  /\ Release(c) /\ Proceed(c, call[c].kind)
  /\ UNCHANGED <<ws, dialed, matches, started, turns, served, login>>

\* Another version, an error, a timeout, a connection that is lost before initialized is
\* sent: close, with the connect lock held; the socket is gone at once, the rest when its
\* closing is over.
InitializeFails(c) ==
  /\ call[c].at = "init"
  /\ ws' = 0
  /\ call' = [call EXCEPT ![c].at = "close", ![c].reply = "none"]
  /\ UNCHANGED <<dialed, matches, connectLock, threads, started, turns, served, login>>

Close(c) ==
  /\ call[c].at = "close"
  /\ Release(c)
  /\ Invalidate(Calls \ {c})
  /\ UNCHANGED <<dialed, matches, started, served>>

-----------------------------------------------------------------------------
(* The reader: one message of the current connection.                      *)

\* The server starts a turn; what it says of it may come before its response.  Which id
\* not used before it gives the turn does not matter.
ServerStarts(c, t) ==
  /\ call[c].at = "starting" /\ call[c].reply = "waiting" /\ call[c].turn = NoCall
  /\ Connected /\ call[c].conn = ws
  /\ served[t].state = "none" /\ t = CHOOSE u \in CodexTurns : served[u].state = "none"
  /\ served' = [served EXCEPT ![t] = [Unserved EXCEPT !.call = c, !.conn = ws, !.state = "running"]]
  /\ call' = [call EXCEPT ![c].turn = t]
  /\ UNCHANGED <<ws, dialed, matches, connectLock, threads, started, turns, login>>

\* _resolve_response.  Only a turn that was started is answered with one.
Respond(c, reply) ==
  /\ Connected /\ call[c].at \in Sent /\ call[c].conn = ws /\ call[c].reply = "waiting"
  /\ call[c].at = "starting" => ((reply = "result") <=> (call[c].turn # NoCall))
  /\ call' = [call EXCEPT ![c].reply = reply]
  /\ UNCHANGED <<ws, dialed, matches, connectLock, threads, started, turns, served, login>>

Running(t) == Connected /\ served[t].conn = ws /\ served[t].state = "running"

\* A delta, or the completed text of the agent's message.
Delta(t) ==
  /\ Running(t)
  /\ turns' = [turns EXCEPT ![t] = [TurnState(t) EXCEPT !.text = TRUE]]
  /\ UNCHANGED <<ws, dialed, matches, connectLock, threads, started, served, login, call>>

\* Mutant: only turns that are known already are failed.
ToolEventKnown(t) ==
  /\ Running(t)
  /\ served' = [served EXCEPT ![t].tool = TRUE]
  /\ turns' = IF turns[t].future # "open" THEN turns
              ELSE [turns EXCEPT ![t].future = "failed"]
  /\ UNCHANGED <<ws, dialed, matches, connectLock, threads, started, login, call>>

\* The turn used, or asked for, a tool, and the event names it: it fails, known to a call
\* or not.
ToolEvent(t) ==
  /\ Running(t)
  /\ served' = [served EXCEPT ![t].tool = TRUE]
  /\ turns' = [turns EXCEPT ![t] = IF TurnState(t).future # "open" THEN @
                                   ELSE [TurnState(t) EXCEPT !.future = "failed"]]
  /\ UNCHANGED <<ws, dialed, matches, connectLock, threads, started, login, call>>

\* The event of a tool names no turn (params without a string turnId): nothing fails.
ToolEventUnnamed(t) ==
  /\ Running(t)
  /\ served' = [served EXCEPT ![t].unnamed = TRUE]
  /\ UNCHANGED <<ws, dialed, matches, connectLock, threads, started, turns, login, call>>

TurnCompleted(t, status) ==
  /\ Running(t)
  /\ served' = [served EXCEPT ![t].state = status]
  /\ turns' = [turns EXCEPT ![t] = IF TurnState(t).future # "open" THEN @
                                   ELSE [TurnState(t) EXCEPT !.future = status]]
  /\ UNCHANGED <<ws, dialed, matches, connectLock, threads, started, login, call>>

\* Authenticated or failed.
LoginCompleted ==
  /\ Connected /\ LoginKept
  /\ login' = "over"
  /\ UNCHANGED <<ws, dialed, matches, connectLock, threads, started, turns, served, call>>

\* The reader fails: the connection has ended, or a message was not understood.
ReaderEnds ==
  /\ Connected
  /\ Invalidate(Calls)
  /\ UNCHANGED <<dialed, matches, connectLock, started, served>>

-----------------------------------------------------------------------------
(* Calls that are resumed.                                                 *)

\* The conversation is owned, and its first turn started: on the connection of now.
ThreadStarted(c, h) ==
  /\ call[c].at = "thread" /\ call[c].reply = "result"
  /\ h \notin started
  /\ started' = started \cup {h}
  /\ threads' = threads \cup {h}
  /\ call' = [call EXCEPT ![c].thread = h, ![c].conn = ws,
                ![c].at = IF Connected THEN "starting" ELSE "wait",
                ![c].reply = IF Connected THEN "waiting" ELSE "none"]
  /\ UNCHANGED <<ws, dialed, matches, connectLock, turns, served, login>>

TurnStarted(c) ==
  /\ call[c].at = "starting" /\ call[c].reply = "result"
  /\ turns' = [turns EXCEPT ![call[c].turn] = TurnState(call[c].turn)]
  /\ call' = [call EXCEPT ![c].at = "turn", ![c].reply = "none"]
  /\ UNCHANGED <<ws, dialed, matches, connectLock, threads, started, served, login>>

\* What the turn came to, for the call that waits for it.
Outcome(c) ==
  IF turns[call[c].turn] = NoTurn THEN call[c].reply
  ELSE IF turns[call[c].turn].future = "completed" /\ ~turns[call[c].turn].text THEN "empty"
  ELSE turns[call[c].turn].future

TurnEnds(c) ==
  /\ call[c].at = "turn" /\ Outcome(c) # "open"
  /\ turns' = [turns EXCEPT ![call[c].turn] = NoTurn]
  /\ IF Outcome(c) = "completed"
     THEN call' = [call EXCEPT ![c].at = "answered"]
     ELSE Ends(c)
  /\ UNCHANGED <<ws, dialed, matches, connectLock, threads, started, served, login>>

Answered(c) ==
  /\ call[c].at = "answered"
  /\ Ends(c)
  /\ UNCHANGED <<ws, dialed, matches, connectLock, threads, started, turns, served, login>>

\* The start, the end or the cancellation of a login, or account/read; a poll that finds
\* an account forgets the login.
RpcReturns(c) ==
  /\ call[c].at = "rpc" /\ call[c].reply = "result"
  /\ login' \in CASE call[c].kind = "login"  -> {"pending"}
                  [] call[c].kind \in {"cancel", "logout"} -> {"none"}
                  [] call[c].kind = "poll"   -> {login, "none"}
  /\ threads' = IF call[c].kind = "logout" THEN {} ELSE threads
  /\ Ends(c)
  /\ UNCHANGED <<ws, dialed, matches, connectLock, started, turns, served>>

\* An error, a lost connection, a timeout, a send that fails: the call raises.
Raises(c) ==
  /\ \/ call[c].at \in Sent \ {"init"} /\ call[c].reply # "result"
     \/ call[c].at = "turn" /\ Outcome(c) = "open"
  /\ turns' = IF call[c].at = "turn" THEN [turns EXCEPT ![call[c].turn] = NoTurn] ELSE turns
  /\ Ends(c)
  /\ UNCHANGED <<ws, dialed, matches, connectLock, threads, started, served, login>>

\* The task of the call is cancelled.  That is no Exception: an initialize leaves its
\* socket open, and a close leaves the others waiting.
Cancelled(c) ==
  /\ call[c].at \notin {"idle", "answered"}
  /\ turns' = IF call[c].at = "turn" THEN [turns EXCEPT ![call[c].turn] = NoTurn] ELSE turns
  /\ Release(c) /\ Ends(c)
  /\ UNCHANGED <<ws, dialed, matches, threads, started, served, login>>

-----------------------------------------------------------------------------
CodexNext ==
  \/ \E c \in Calls :
       \/ \E kind \in Does[c] \ {"old"} : Begin(c, kind)
       \/ \E h \in CodexThreads : BeginTurn(c, h) \/ ThreadStarted(c, h)
       \/ \E match \in BOOLEAN : Dial(c, match)
       \/ \E reply \in {"result", "error"} : Respond(c, reply)
       \/ \E t \in CodexTurns : ServerStarts(c, t)
       \/ TakeLock(c) \/ DialFails(c) \/ Initialized(c) \/ InitializeFails(c) \/ Close(c)
       \/ TurnStarted(c) \/ TurnEnds(c) \/ Answered(c) \/ RpcReturns(c)
       \/ Raises(c) \/ Cancelled(c)
  \/ \E t \in CodexTurns :
       \/ Delta(t) \/ ToolEvent(t) \/ ToolEventUnnamed(t)
       \/ (\E status \in {"completed", "failed"} : TurnCompleted(t, status))
  \/ LoginCompleted \/ ReaderEnds

CodexSpec == CodexInit /\ [][CodexNext]_codexVars

-----------------------------------------------------------------------------
\* An answer that is returned is of the call's own turn, which the server completed and of
\* which no event of a tool was received that names it, in whatever order its messages, the
\* response and the loss of the connection came (_fail_tool_event, _run_text_turn).  An
\* event that names no turn may have been received of it (ToolEventUnnamed).
AnswersAreClean ==
  \A c \in Calls : call[c].at = "answered" =>
    /\ served[call[c].turn].call = c
    /\ served[call[c].turn].state = "completed"
    /\ ~served[call[c].turn].tool

\* docs/security.md:114, "Runtime mismatch is rejected during initialization": nothing of
\* a conversation is ever sent to a server of another version.
MismatchRejected ==
  \A c \in Calls : call[c].at \in {"thread", "starting"} => call[c].conn \in matches
=============================================================================
