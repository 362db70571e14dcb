SPECIFICATION SSpec
CONSTANTS
    NULL = NULL
    r1 = r1
    d1 = d1
    d2 = d2
    w = w
    m1 = m1
    m2 = m2
    Reqs = {r1}
    Ids = {1, 2}
    Dates = {1, 2}
    Amounts = {0, 1}
    Periods <- MCPeriods
    DaysOf <- MCDaysOf
    PeriodsOf <- MCPeriodsOf
    DepositLimit = 9
    TransactionLimit = 9
    MaxRequests = 4
    Failures = FALSE
PROPERTY
    ImplementsLedger
CHECK_DEADLOCK FALSE
