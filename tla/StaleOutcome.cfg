SPECIFICATION BannerSpec
CONSTANTS
  MaxRuns = 2
  MaxVersion = 1
  Services = {server, updater}
  Server = server
  Updater = updater
  Unparsable = {}
  Modes = {"truenas"}
  Faults = {"ackLost", "slowWorker", "callTimeout", "pollLost", "workerCrash", "sidecarCrash"}
  Clients = {c1}
PROPERTY MemoryMasksOldOutcomes
CHECK_DEADLOCK FALSE
