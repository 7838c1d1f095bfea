SPECIFICATION Spec
CONSTANTS
  ChangeDay = 21
  Rules <- MCRules
  Rates <- MCRates
  Dates <- MCDates
  Starts <- MCStarts
  Ends <- MCEnds
  Breaks = {45}
  Drivings = {570}
  Instants <- MCInstants
  Slot = 15
  MaxShifts = 3
INVARIANTS PaidAsWorked RestClosesTheCycle WeeksAgree
PROPERTY NextStartIsHonest
CHECK_DEADLOCK FALSE
