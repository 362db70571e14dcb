SPECIFICATION Spec
CONSTANTS
    i1 = i1
    i2 = i2
    NULL = NULL
    Dates <- MCDates
    Amounts = {0}
    Lines = {}
    Ids <- MCIds
    Forms <- MCForms
    RevenueVat = 10
    ExpenseVat = 22
    DaysOfMonth = 28
SYMMETRY MCSymmetry
INVARIANTS
    TypeOK
    SalesCountOnce
    PeriodsAddUp
    ScreensMatch
CHECK_DEADLOCK FALSE
