SPECIFICATION FairHSpec
CONSTANTS
    NULL = NULL
    r1 = r1
    r2 = r2
    Reqs = {r1}
    SubIds = {1, 2}
    Kinds = {"stripe", "cancel"}
    InOrder = TRUE
    Redelivery = FALSE
    MaxArrivals = 9
    MaxFailures = 1
INVARIANTS
    SettledFollowsStripe
PROPERTY
    ConvergesToStripe
CHECK_DEADLOCK FALSE
