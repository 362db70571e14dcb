SPECIFICATION FairHSpec
CONSTANTS
    NULL = NULL
    LEGACY = LEGACY
    w1 = w1
    w2 = w2
    r1 = r1
    r2 = r2
    day = day
    week = week
    Workers <- MCWorkers
    Docs = {1}
    Records = {r1}
    Periods <- MCPeriods
    RecordsOf <- MCRecordsOf
    Days = {day}
    MaxEdits = 2
    MaxCrashes = 2
INVARIANTS
    TypeOK
    MarkedMeansNormalized
PROPERTIES
    EditsSurvive
    StartUpCompletes
CHECK_DEADLOCK FALSE
