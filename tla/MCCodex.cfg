CONSTANTS
  Chat = Chat
  Panel = Panel
  Calls = {Chat, Panel}
  NoCall = NoCall
  CodexThreads = {h1}
  CodexTurns = {t1, t2}
  Does <- MCDoes
  MaxOwnedThreads = 1
  MaxConnections = 2
SPECIFICATION CodexSpec
INVARIANT MismatchRejected
CHECK_DEADLOCK FALSE
