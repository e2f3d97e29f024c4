SPECIFICATION Spec
CHECK_DEADLOCK FALSE
CONSTANTS
    Executions = {e1, e2}
    Metrics = {"vibration", "pressure", "spare"}
    NormalRange <- MCNormalRange
    Unreadable = Unreadable
    None = None
    SupplierBound = 2
    RouteBound = 5
    ShortageBound = 5
    Jobs <- MCJobs
INVARIANTS
    OneEnding
    PaidCallsAreRecorded
    InferenceIsMarked
    UnapprovedIsBounded
