-------------------------- MODULE MCSerialDeposits --------------------------
(***************************************************************************)
(* Two days of one week that are in different months.                      *)
(***************************************************************************)
EXTENDS SerialDeposits, TLC

CONSTANTS r1, d1, d2, w, m1, m2

MCPeriods == {d1, d2, w, m1, m2}
MCDaysOf == d1 :> {1} @@ d2 :> {2} @@ w :> {1, 2} @@ m1 :> {1} @@ m2 :> {2}
MCPeriodsOf == <<<<d1, w, m1>>, <<d2, w, m2>>>>
=============================================================================
