\* One worker, a clock that never stops, and a switch turned off and on again.
CONSTANTS
  s1 = s1
  o1 = o1
  o2 = o2
  r1 = r1
  NoOwner = NoOwner
  NoJob = NoJob
  Sessions = {s1}
  Owners = {o1, o2}
  Runtimes = {r1}
  MaxAttempts = 2
  LeaseSeconds = 1
  BaseDelay = 1
  MaxDelay = 1
  Inactivity = 0
  Movable = {}
  Erasable = {}
  MaxTime = 1
  MaxExchanges = 1
  MaxJobs = 2
  MaxProfiles = 1
  MaxDisturbances = 1
SPECIFICATION LiveSpec
CHECK_DEADLOCK FALSE
PROPERTIES
  EligibleIsProcessed
