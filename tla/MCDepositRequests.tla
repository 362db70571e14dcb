------------------------- MODULE MCDepositRequests -------------------------
(***************************************************************************)
(* Two request slots, and days that share a week.                          *)
(***************************************************************************)
EXTENDS DepositHistory, TLC

CONSTANTS r1, r2, d1, d2, w

MCReqs == {r1, r2}
MCPeriods == {d1, d2, w}
MCDaysOf == d1 :> {1} @@ d2 :> {2} @@ w :> {1, 2}
MCPeriodsOf == <<<<d1, w>>, <<d2, w>>>>
MCSymmetry == Permutations(MCReqs)
=============================================================================
