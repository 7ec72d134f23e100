CONSTANTS
  Docs = {d1}
  Contents = {g}
  Absent = Absent
  Threads = {b1, b2, auto, reader}
  Builders = {b1, b2}
  AutoThread = auto
  MaxRevision = 2
  MaxSyncs = 1
  MaxGeneration = 2
  MaxUpsets = 1
SPECIFICATION FairSpec
PROPERTIES StoppedBuildEnds
CHECK_DEADLOCK FALSE
