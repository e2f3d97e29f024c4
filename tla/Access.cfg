SPECIFICATION Spec
CONSTANTS
    None = None
    Tenants <- MCTenants
    Subjects <- MCSubjects
    Plants <- MCPlants
    Departments <- MCDepartments
    Tokens <- MCTokens
    PartsOf <- MCPartsOf
    Asked <- MCAsked
    Rows <- MCRows
    MaxRequests = 2
    Window = 2
    Leeway = 0
    MaxTime = 3
INVARIANTS
    WindowNeverOverfull
    RefusedOnlyWhenFull
    QuerySeesWhatRecordsAllow
    RefusedIsOutOfReach
PROPERTIES
    PromisedInstantStands
