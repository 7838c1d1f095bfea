SPECIFICATION FairBannerSpec
CONSTANTS
  MaxRuns = 2
  MaxVersion = 1
  Services = {server, updater}
  Server = server
  Updater = updater
  Unparsable = {}
  Modes = {"truenas", "generic"}
  Faults = {}
  Clients = {c1, c2}
PROPERTIES ImplementsContract RedeploysWhole SuccessMeansDeployed NoStaleOutcome LockoutEnds WatchingEnds
\* With the newest release running and every banner closed, nothing is left to do.
CHECK_DEADLOCK FALSE
