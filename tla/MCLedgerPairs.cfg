SPECIFICATION Spec
CONSTANTS
    NULL = NULL
    d1 = d1
    d2 = d2
    m1 = m1
    i1 = i1
    i2 = i2
    Dates <- MCDates
    Amounts = {0, 1}
    Lines = {1}
    Ids <- MCIds
    Periods <- MCPeriods
    DaysOf <- MCDaysOf
    LegacyDocuments = {}
    DocumentForms <- MCInvoiceForms
    RecordForms <- MCRecordForms
    Kinds = {"document", "expense", "inventory"}
SYMMETRY MCSymmetry
INVARIANT TransactionsFollowSources
PROPERTY OnlyMovesLeaveStaleSnapshots
CHECK_DEADLOCK FALSE
