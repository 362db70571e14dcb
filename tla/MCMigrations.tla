---------------------------- MODULE MCMigrations ----------------------------
(***************************************************************************)
(* Two workers; daily records of one day and its week.                     *)
(***************************************************************************)
EXTENDS MigrationHistory, TLC

CONSTANTS w1, w2, r1, r2, day, week

MCWorkers == {w1, w2}
MCRecords == {r1, r2}
MCPeriods == {day, week}
MCRecordsOf == [p \in MCPeriods |-> Records]
=============================================================================
