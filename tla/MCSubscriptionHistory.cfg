SPECIFICATION HSpec
CONSTANTS
    NULL = NULL
    r1 = r1
    r2 = r2
    Reqs = {r1, r2}
    SubIds = {1, 2}
    Kinds <- MCAllKinds
    InOrder = FALSE
    Redelivery = TRUE
    MaxArrivals = 5
    MaxFailures = 1
SYMMETRY MCSymmetry
INVARIANTS
    TypeOK
    AtMostOneCurrent
    FollowsUnlessDrifted
PROPERTY
    ClosedRowsStay
CHECK_DEADLOCK FALSE
