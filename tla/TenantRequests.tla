--------------------------- MODULE TenantRequests ---------------------------
(***************************************************************************)
(* The requests one restaurant has open at the same time.  Each runs one   *)
(* handler; every await of a handler is a step, and the steps of different *)
(* requests interleave.  A request that raises an exception ends: what it  *)
(* has written stays.                                                      *)
(***************************************************************************)
EXTENDS Integers, Sequences, FiniteSets, SequencesExt

CONSTANTS
    Reqs,           \* bound: the requests served at once
    Failures,       \* whether a request may fail between two of its steps
    NULL

ASSUME ReqsAssumption == IsFiniteSet(Reqs)

VARIABLES
    req,        \* the local variables of each open handler
    arrived     \* the requests so far; bounded in Desk

(* The record f with these fields written over.                            *)
With(f, fields) ==
    [x \in DOMAIN f \cup DOMAIN fields |-> IF x \in DOMAIN fields THEN fields[x] ELSE f[x]]

Idle == [pc |-> "idle"]
At(r, pc) == req[r].pc = pc
InFlight == {r \in Reqs : ~At(r, "idle")}

RequestsInit ==
    /\ req = [r \in Reqs |-> Idle]
    /\ arrived = 0

(* A request arrives and runs to its first write or its second await.  The *)
(* places of Reqs are alike: it takes the first that is free.              *)
Begin(r, local) ==
    /\ At(r, "idle")
    /\ \A q \in Reqs : At(q, "idle") => r <= q
    /\ req' = [req EXCEPT ![r] = local]
    /\ arrived' = arrived + 1

Goto(r, pc) == req' = [req EXCEPT ![r].pc = pc]
Keep(r, local) == req' = [req EXCEPT ![r] = local]
Done(r) == req' = [req EXCEPT ![r] = Idle]
Raised(r) == Done(r)
=============================================================================
