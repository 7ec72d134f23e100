CONSTANTS
  Chat = Chat
  Panel = Panel
  Calls = {Chat, Panel}
  NoCall = NoCall
  CodexThreads = {h1}
  CodexTurns = {t1, t2}
  Does <- MCDoes
  MaxOwnedThreads = 1
  MaxConnections = 2
  ExchangeTexts = {"short", "long"}
  Body <- MCBody
  Exchanges <- MCExchanges
  Unsaved = Unsaved
  ChunkLimits <- MCLimits
  MaxEvents = 2
  Clients = {m1, m2}
  Challenges = {a1}
  Codes = {k1, k2}
  Pairs = {p1, p2, p3}
  Nobody = Nobody
  Uploads = {u1, u2, u3, u4, u5}
  MaxAdmitted = 4
  WorkerLimit = 2
  Modes = {"optimized", "maximum_compatibility"}
  DefaultMode = "optimized"
  NoMode = "none"
SPECIFICATION Spec
INVARIANTS AnswersAreClean AuditTrail ReadWhole OneLiveGrant WorkersBounded RestartHonoured
CHECK_DEADLOCK FALSE
