--------------------------- MODULE MCSubscriptions ---------------------------
EXTENDS SubscriptionHistory, TLC

CONSTANTS r1, r2

MCAllKinds == {"stripe", "select", "cancel", "revenuecat", "admin"}
MCSymmetry == Permutations({r1, r2})
=============================================================================
