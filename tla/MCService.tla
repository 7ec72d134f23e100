----------------------------- MODULE MCService -----------------------------
(***************************************************************************)
(* Five parts of the service that share nothing but the process: a         *)
(* behaviour is one of one part, chosen at the start, while the others     *)
(* stand still.  The Codex client comes twice: with every method on one    *)
(* connection, and with conversations alone on as many as are allowed.     *)
(***************************************************************************)
EXTENDS CodexClient, Exchanges, OAuth, FileWorkers, ToolOutputRestart

CONSTANTS Chat, Panel   \* a call that extracts, one of the administrator's panel

VARIABLE part

MCDoes == [c \in Calls |-> IF c = Chat THEN {"new"} ELSE {"old", "login", "cancel", "logout"}]

\* Two texts: one of three lines, or two when its response is masked; one with lines
\* longer than the shorter limit.
MCBody ==
  [text \in ExchangeTexts |->
     IF text = "short" THEN [masked \in BOOLEAN |-> IF masked THEN <<1, 2>> ELSE <<1, 1, 1>>]
     ELSE [masked \in BOOLEAN |-> IF masked THEN <<2, 5, 2>> ELSE <<2, 5, 4>>]]

MCLimits == {[chars |-> 3, lines |-> 2], [chars |-> 5, lines |-> 3]}

MCExchanges == 1..2

Init ==
  /\ part \in {"codex", "talk", "exchanges", "oauth", "workers", "restart"}
  /\ CodexInit /\ ExchangesInit /\ OAuthInit /\ WorkersInit /\ RestartInit
  /\ part # "exchanges" => limits = CHOOSE l \in ChunkLimits : TRUE

\* One connection with every method, or several with conversations alone.
InPart ==
  IF part = "codex" THEN dialed' <= 1
  ELSE \A c \in Calls : call'[c].kind \in {"none", "new", "old"}

Next ==
  /\ UNCHANGED part
  /\ \/ /\ part \in {"codex", "talk"} /\ CodexNext /\ InPart
        /\ UNCHANGED <<exchangeVars, oauthVars, workerVars, restartVars>>
     \/ /\ part = "exchanges" /\ ExchangesNext
        /\ UNCHANGED <<codexVars, oauthVars, workerVars, restartVars>>
     \/ /\ part = "oauth" /\ OAuthNext
        /\ UNCHANGED <<codexVars, exchangeVars, workerVars, restartVars>>
     \/ /\ part = "workers" /\ WorkersNext
        /\ UNCHANGED <<codexVars, exchangeVars, oauthVars, restartVars>>
     \/ /\ part = "restart" /\ RestartNext
        /\ UNCHANGED <<codexVars, exchangeVars, oauthVars, workerVars>>

Spec == Init /\ [][Next]_<<part, codexVars, exchangeVars, oauthVars, workerVars, restartVars>>
=============================================================================
