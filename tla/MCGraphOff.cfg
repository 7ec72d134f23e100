\* One worker, and a switch turned off around a claim.
CONSTANTS
  s1 = s1
  o1 = o1
  r1 = r1
  NoOwner = NoOwner
  NoJob = NoJob
  Sessions = {s1}
  Owners = {o1}
  Runtimes = {r1}
  MaxAttempts = 1
  LeaseSeconds = 2
  BaseDelay = 1
  MaxDelay = 1
  Inactivity = 0
  Movable = {}
  Erasable = {}
  MaxTime = 1
  MaxExchanges = 1
  MaxJobs = 2
  MaxProfiles = 1
  MaxDisturbances = 1
SPECIFICATION RuntimeSpec
CHECK_DEADLOCK FALSE
INVARIANT
  IdleWhileOff
