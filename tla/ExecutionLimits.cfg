SPECIFICATION LimitsSpec
CHECK_DEADLOCK FALSE
CONSTANTS
    MaxIterations = 2
    MaxToolCalls = 2
    MaxTotalTokens = 3
    MaxDuration = 2
    Registry <- MCRegistry
    Names <- MCNames
    Held = {"ANALYST"}
    WorkloadType = "supply_chain"
    Parameters = {"limit"}
    Counts = {0, 1, 3}
    Unset = Unset
    Garbled = Garbled
    ClockBound = 3
    TokenBound = 6
INVARIANTS
    CeilingsHold
    RunsByItsRow
PROPERTIES
    RefusedTokensStayRefused
