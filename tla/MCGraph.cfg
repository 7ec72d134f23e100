\* Two sessions, two lease owners, two processes; the bounds of each scenario are in MCGraph.
CONSTANTS
  s1 = s1
  s2 = s2
  o1 = o1
  o2 = o2
  r1 = r1
  r2 = r2
  NoOwner = NoOwner
  NoJob = NoJob
  Sessions = {s1, s2}
  Owners = {o1, o2}
  Runtimes = {r1, r2}
  MaxAttempts = 2
  LeaseSeconds = 2
  BaseDelay = 1
  MaxDelay = 3
  Inactivity = 1
  Movable = {s1}
  Erasable = {1, 2}
  MaxTime = 4
  MaxExchanges = 2
  MaxJobs = 3
  MaxProfiles = 2
  MaxDisturbances = 1
SYMMETRY Symmetry
SPECIFICATION MCSpec
CHECK_DEADLOCK FALSE
INVARIANTS
  TypeOK
  AtMostOneLive
  AttemptsBounded
  CompletedIffExtracted
  RuntimeTypeOK
  HoldersWorkAlone
PROPERTIES
  ImplementsLedger
  FinalStays
  LaterAnalysisStays
  OffKeepsOut
  RejectedReportIsHarmless
  InterruptionIsRetried
