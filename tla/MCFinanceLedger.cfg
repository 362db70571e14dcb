SPECIFICATION Spec
CONSTANTS
    NULL = NULL
    d1 = d1
    d2 = d2
    m1 = m1
    i1 = i1
    i2 = i2
    Dates <- MCDates
    Amounts = {0, 1}
    Lines = {1}
    Ids <- MCOneId
    Periods <- MCPeriods
    DaysOf <- MCDaysOf
    LegacyDocuments <- MCLegacyDocuments
    DocumentForms <- MCDocumentForms
    RecordForms <- MCRecordForms
    Kinds <- MCAllKinds
INVARIANTS
    TypeOK
    TransactionsFollowSources
    LinkedRowsFollowSources
PROPERTIES
    OnlyMovesLeaveStaleSnapshots
    RewrittenSnapshotsAreFresh
CHECK_DEADLOCK FALSE
