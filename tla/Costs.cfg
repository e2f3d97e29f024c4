SPECIFICATION Spec
CONSTANTS
    None = None
    Tenants <- MCTenants
    Subjects <- MCSubjects
    Plants <- MCPlants
    Departments <- MCDepartments
    Spellings <- MCSpellings
    UnitOf <- MCUnitOf
    Executions = {e1, e2}
    Work <- MCWork
    Questions <- MCQuestions
    MaxTime = 2
    BucketOf <- MCBucketOf
INVARIANTS
    RecordedTogether
    ActualIsMeasured
    SummaryIsTheTruth
    PartsAddUp
