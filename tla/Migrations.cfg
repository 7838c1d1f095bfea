CONSTANTS
  Tabs = {b1}
  Installs <- AllInstalls
  LegacyShifts = {"h1", "h2"}
  Revised = {"h5"}
  NewIds <- MCNewIds
  MaxCloses = 3
SPECIFICATION FairSpec
INVARIANTS TypeOK VersionTellsShape NothingDoubled ChainsResolve
PROPERTY UpgradesComplete
