CONSTANTS
  Sessions = {s1}
  Orgs = {o1}
  SiteIds = {t1}
  PlacementIds = {p1}
  EngagementIds = {e1}
  AssignmentIds = {a1}
  Lineages = {l1}
  MaxDate = 2
SPECIFICATION Spec
INVARIANT NothingOutlivesEngagement
