CONSTANTS
  Sessions = {s1}
  AssignmentIds = {a1}
  Lineages = {l1}
  ShiftIds = {h1}
  LoadIds = {d1, d2}
  MaxDate = 1
  MaxVersion = 1
  MaxLoads = 2
  MaxSaves = 2
SPECIFICATION Spec
INVARIANT ReplacedEntirely
