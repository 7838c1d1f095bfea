CONSTANTS
  Sessions = {s1}
  AssignmentIds = {a1, a2}
  Lineages = {l1, l2}
  ShiftIds = {h1}
  LoadIds = {d1, d2}
  MaxDate = 3
  MaxVersion = 3
  MaxLoads = 2
  MaxSaves = 2
SPECIFICATION Spec
SYMMETRY Symmetric
INVARIANTS TypeOK PinIsEffective LoadsAreOfOneSave
PROPERTY PricesAreHistory
