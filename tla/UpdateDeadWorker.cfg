SPECIFICATION FairSpec
CONSTANTS
  MaxRuns = 2
  MaxVersion = 1
  Services = {server, updater}
  Server = server
  Updater = updater
  Unparsable = {}
  Modes = {"truenas"}
  Faults = {"workerCrash"}
PROPERTY LockoutEnds
CHECK_DEADLOCK FALSE
