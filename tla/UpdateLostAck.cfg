SPECIFICATION Spec
CONSTANTS
  MaxRuns = 2
  MaxVersion = 1
  Services = {server, updater}
  Server = server
  Updater = updater
  Unparsable = {}
  Modes = {"truenas"}
  Faults = {"ackLost"}
INVARIANT FailedNeverRedeploys
CHECK_DEADLOCK FALSE
