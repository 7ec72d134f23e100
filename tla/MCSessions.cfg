CONSTANTS
  Groups = {uncategorized, g}
  Uncategorized = uncategorized
  Sessions = {s1, s2}
  Files = {f1, f2}
  Labels = {l1}
  Texts = {t1, t2}
  Sizes = {1}
  Admins = {a1, a2}
  None = None
  Gone = Gone
  MaxBytes = 1
  MaxLabels = 1
SPECIFICATION Spec
SYMMETRY Symmetry
INVARIANTS LabelsFollowGroup NothingStranded WithinQuota
PROPERTIES EditsWereSeen
