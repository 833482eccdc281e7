CONSTANTS
  Photos = {p1, p2}
  Posts = {t1, t2}
  MaxSaves = 3
  MaxCrashes = 1
SPECIFICATION Spec
INVARIANTS
  LabelInv
CHECK_DEADLOCK FALSE
