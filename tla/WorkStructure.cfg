CONSTANTS
  Sessions = {s1}
  Orgs = {o1, o2}
  SiteIds = {t1, t2}
  PlacementIds = {p1}
  EngagementIds = {e1}
  AssignmentIds = {a1, a2}
  Lineages = {l1, l2}
  MaxDate = 2
SPECIFICATION Spec
INVARIANTS TypeOK ProviderCompatible ClosedWithinEngagement
PROPERTY ChainsFrozen
