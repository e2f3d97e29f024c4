\* An execution that ends unrecorded.
CONSTANTS
  m1 = m1  m2 = m2  m3 = m3  noPolicy = noPolicy
  r1 = r1  r2 = r2
  None = None
  NoPolicy = noPolicy
  Requests = {r1}
  Models = {m1, m2, m3}
  Rated <- MCRated  Priced <- MCPriced  Timed <- MCTimed
  Quality <- MCQuality  Cost <- MCCost  Latency <- MCLatency  Name <- MCName
  Policies <- MCPolicies
  Outcomes = {"ALLOW", "DOWNGRADE", "REQUIRE_APPROVAL", "BLOCK"}
SPECIFICATION Spec
PROPERTY EveryExecutionIsRecorded
