CONSTANTS
  Vehicles = {v1}
  Trailers = {}
  HomeVehicles = {}
  First = v1
  Codes = {c1}
  Managers = {m1, m2}
  MaxTemplate = 1
  MaxChecks = 1
  MaxDefects = 1
SPECIFICATION Spec
PROPERTY ForwardOnly
CHECK_DEADLOCK FALSE
