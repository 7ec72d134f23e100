CONSTANTS
  Docs = {d1, d2}
  Contents = {g}
  Absent = Absent
  Threads = {b1, b2, auto, reader}
  Builders = {b1, b2}
  AutoThread = auto
  MaxRevision = 2
  MaxSyncs = 1
  MaxGeneration = 2
  MaxUpsets = 1
SPECIFICATION Spec
INVARIANTS LateChangesStayDirty
SYMMETRY Symmetry
CHECK_DEADLOCK FALSE
