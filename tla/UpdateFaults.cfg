SPECIFICATION Spec
CONSTANTS
  MaxRuns = 2
  MaxVersion = 2
  Services = {server, updater}
  Server = server
  Updater = updater
  Unparsable = {2}
  Modes = {"truenas", "generic"}
  Faults = {"inspect", "retag", "ackLost", "slowWorker", "callTimeout", "pollLost", "workerCrash", "sidecarCrash"}
INVARIANTS TypeOK LockHeld ReportedByWorker SuccessEarned FailureRestored
PROPERTY OutcomeIsFinal
