CONSTANTS
  Tabs = {b1}
  Installs <- FreshInstall
  LegacyShifts = {}
  Revised = {}
  NewIds <- MCNewIds
  MaxCloses = 1
SPECIFICATION Spec
INVARIANT RetryIsTolerated
