SPECIFICATION HSpec
CONSTANTS
    NULL = NULL
    r1 = r1
    r2 = r2
    d1 = d1
    d2 = d2
    w = w
    Reqs <- MCReqs
    Ids = {1, 2}
    Dates = {1, 2}
    Amounts = {1}
    Periods <- MCPeriods
    DaysOf <- MCDaysOf
    PeriodsOf <- MCPeriodsOf
    DepositLimit = 9
    TransactionLimit = 9
    MaxRequests = 3
    Failures = TRUE
INVARIANTS
    StaleOnlyWhereDisturbed
    TransactionsOnceUnlessDisturbed
SYMMETRY MCSymmetry
CHECK_DEADLOCK FALSE
