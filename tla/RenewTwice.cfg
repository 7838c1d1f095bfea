SPECIFICATION Spec
CONSTANTS
  Screens = {"documents"}
  Ids = {r1, r2, r3, r4}
  Listed = {r1, r2}
  Workspaces = {w1, w2}
  Home = w1
  Assignments = {a1, a2}
  Preferred = None
  None = None
  MaxCalls <- MCMaxCalls
  MaxLoads = 2
PROPERTY RenewalNeverDoubles
