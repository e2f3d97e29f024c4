SPECIFICATION AdviceSpec
CHECK_DEADLOCK FALSE
CONSTANTS
    Sessions = {s1}
    Absent = Absent
    Unknown = Unknown
    Models = {"m1", "m2"}
    SeedEntry <- MCSeedEntry
    Prices <- MCPrices
    Observations <- MCObservations
    Histories <- MCHistories
    Inputs <- MCInputs
    Workloads = {"w1"}
    NoWorkload = ""
    Charge = 5
    MaxRequests = 2
    MaxVersions = 4
INVARIANTS
    ClaimsHaveEvidence
    SavingIsOfRealPrices
PROPERTIES
    InvestigationsEnd
