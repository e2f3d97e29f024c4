SPECIFICATION Spec
CONSTANTS
  p1 = p1
  p2 = p2
  T = T
  P = P
  q1 = q1
  q2 = q2
  i1 = i1
  i2 = i2
  Ids = {i1, i2}
  Scopes = {T, P}
  Places = {p1, p2}
  Sources <- MCSources
  TypeOf <- MCTypeOf
  Covers <- MCCovers
  Offers <- MCOffers
  Patches <- MCPatches
  Days = {1, 2}
  Calendar <- MCCalendar
  Currencies = {"USD", "EUR", "XTS"}
  Rates <- MCRates
  Costs = {1}
  Ceilings <- MCCeilings
  Requests = {q1, q2}
  MaxReaders = 1
  MaxSpend = 1
  MaxUpdates = 2
  OutcomeByState <- MCOutcomeByState
  ApproveProjectedBreach = TRUE
SYMMETRY MCSymmetry
INVARIANTS
  SpentBudgetBlocks
  BlockHasCause
  StatusIsOfItsTime
PROPERTIES
  SecondActiveOnlyByRaceOrPatch
  LoneUpdateOrdersThresholds
