SPECIFICATION HSpec
CONSTANTS
    NULL = NULL
    r1 = r1
    r2 = r2
    u1 = u1
    u2 = u2
    e1 = e1
    e2 = e2
    p1 = p1
    p2 = p2
    Reqs = {r1, r2}
    Users = {u1, u2}
    Emails = {e1, e2}
    AdminEmail = e1
    Passwords = {p1, p2}
    AdminPassword = p1
    Values = {1, 2}
    Updates <- MCUpdates
    Kinds = {"register", "verify", "reset", "change", "onboarding", "billing", "admin", "start"}
    MaxRequests = 4
SYMMETRY MCSymmetry
INVARIANTS
    TypeOK
    SubscriptionStatusStands
    NeverLockedOut
PROPERTIES
    CodesAreSound
    AccountsStand
CHECK_DEADLOCK FALSE
