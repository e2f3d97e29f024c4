\* Three recommendations of one route, one of them low-risk under automatic
\* approval, and a fourth that fails validation: every order of decisions,
\* activations and rollbacks up to three versions above the seeded one.
CONSTANTS
  r1 = r1  r2 = r2  r3 = r3  r4 = r4  s1 = s1  s2 = s2  p1 = p1  p2 = p2  p3 = p3
  k1 = k1  finops = finops  viewer = viewer
  None = None
  Recs = {r1, r2, r3, r4}
  SeedIds = {s1, s2}
  NewIds = {p1, p2, p3}
  Keys = {k1}
  KeyOf <- OneKey
  SeedRoute <- SeedRoutes
  Validated = {r1, r2, r3}
  LowRisk = {r1, r4}
  Users = {finops, viewer}
  Approvers = {finops}
  AutoApproveLowRisk = TRUE
  MaxDecisions = 4
SPECIFICATION Spec
SYMMETRY FreshIds
INVARIANTS OneLiveWhileInOrder StackWhileInOrder
PROPERTY RolledBackIsFinalInOrder
CHECK_DEADLOCK FALSE
