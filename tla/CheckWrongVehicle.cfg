CONSTANTS
  Vehicles = {v1, v2}
  Trailers = {}
  HomeVehicles = {}
  First = v1
  Codes = {c1}
  Managers = {m1}
  MaxTemplate = 1
  MaxChecks = 1
  MaxDefects = 1
SPECIFICATION Spec
INVARIANT UnpairedIsOwn
CHECK_DEADLOCK FALSE
