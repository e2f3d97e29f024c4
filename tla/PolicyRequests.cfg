\* Two requests in flight over two recommendations of one route.
CONSTANTS
  r1 = r1  r2 = r2  s1 = s1  p1 = p1  p2 = p2  p3 = p3  k1 = k1
  q1 = q1  q2 = q2  finops = finops  viewer = viewer
  None = None
  Recs = {r1, r2}
  SeedIds = {s1}
  NewIds = {p1, p2}
  Keys = {k1}
  KeyOf <- OneKey
  SeedRoute <- SeedRoutes
  Validated = {r1, r2}
  LowRisk = {r1}
  Users = {finops}
  Approvers = {finops}
  AutoApproveLowRisk = FALSE
  MaxDecisions = 3
  Requests = {q1, q2}
  AdmitOverlap = TRUE
SPECIFICATION RequestsSpec
SYMMETRY Interchangeable
INVARIANT VersionsWereApproved
PROPERTIES FreshCommitsAreAtomic VersionsAreImmutable
CHECK_DEADLOCK FALSE
