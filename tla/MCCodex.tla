------------------------------ MODULE MCCodex ------------------------------
EXTENDS CodexClient

CONSTANTS Chat, Panel   \* a call that extracts, one of the administrator's panel

MCDoes == [c \in Calls |-> IF c = Chat THEN {"new"} ELSE {"old", "login"}]
=============================================================================
