CONSTANTS
  Vehicles = {v1, t1, h1}
  Trailers = {t1}
  HomeVehicles = {h1}
  First = v1
  Codes = {c1}
  Managers = {m1}
  MaxTemplate = 1
  MaxChecks = 2
  MaxDefects = 2
SPECIFICATION Spec
INVARIANTS DefectsMatchFailures ReturnedIsComplete ItemsOfTheCheck
