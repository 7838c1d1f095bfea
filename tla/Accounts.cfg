SPECIFICATION Spec
CONSTANTS
  People = {p1, p2}
  Tabs = {t1, t2}
  SessionIds = {s1, s2}
  MaxReloads = 2
  MaxOrphans = 1
  None = None
SYMMETRY MCSymmetry
INVARIANTS TypeOK HomeBeforeApp ActsAsShown
CHECK_DEADLOCK FALSE
