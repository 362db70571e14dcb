--------------------------- MODULE DepositHistory ---------------------------
(***************************************************************************)
(* When can concurrent requests leave a wrong snapshot or wrong            *)
(* transactions behind?  Two history variables record where requests got   *)
(* in each other's way or failed; everywhere else the stored data must be  *)
(* right.                                                                  *)
(***************************************************************************)
EXTENDS DepositRequests

VARIABLES
    suspect,    \* periods whose snapshot may be wrong
    shaky,      \* deposits whose transactions may be wrong
    shared,     \* per request, the periods another one worked on since it read its rows
    crowded     \* requests whose deposit another one worked on at the same time

hvars == <<deposits, created, txs, snap, req, arrived, suspect, shaky, shared, crowded>>

SetOf(seq) == {seq[n] : n \in 1 .. Len(seq)}

(* The periods of a set of dates.                                          *)
At(dates) == UNION {SetOf(PeriodsOf[d]) : d \in dates}

DepositDate == [i \in Ids |-> IF deposits[i] = NULL THEN {} ELSE {deposits[i].date}]

(* The dates of a deposit and of its transactions.                         *)
RowDates == [i \in Ids |-> DepositDate[i] \cup {t.date : t \in {u \in txs : u.id = i}}]

Reading(r) == req[r].pc \in {"read_deposits", "read_transactions"}
Saving(r) == req[r].pc \in {"find", "save"}

(* The periods request r has still to save, and until it has written its   *)
(* rows also those of the rows it will change.                             *)
Scope(r) ==
    IF req[r] = Idle THEN {}
    ELSE IF Saving(r) THEN SetOf(req[r].periods) \cup At(SetOf(Tail(req[r].days)))
    ELSE IF Reading(r) THEN At(SetOf(req[r].days))
    ELSE At(SetOf(req[r].days) \cup RowDates[req[r].id])

SameDeposit(r, s) == req[r] # Idle /\ req[s] # Idle /\ req[r].id = req[s].id

(* The periods that r and another request in flight both have to save; all *)
(* those of both if they work on the same deposit.                         *)
Contended(r) ==
    UNION {IF SameDeposit(r, s) THEN Scope(r) \cup Scope(s) ELSE Scope(r) \cap Scope(s) :
             s \in Reqs \ {r}}

Crowd == {r \in InFlight : \E s \in Reqs \ {r} : SameDeposit(r, s)}

HInit ==
    /\ Init
    /\ suspect = {} /\ shaky = {}
    /\ shared = [r \in Reqs |-> {}]
    /\ crowded = {}

(* What a step of r disturbs (lost) and puts right (healed).               *)
Record(r, lost, lostIds, healed, healedIds) ==
    /\ suspect' = (suspect \ healed) \cup lost \cup UNION {Contended(q)' : q \in Reqs}
    /\ shaky' = (shaky \ healedIds) \cup lostIds \cup {req'[q].id : q \in Crowd'}
    /\ crowded' = (crowded \cap InFlight') \cup Crowd'
    /\ shared' = [q \in Reqs |->
                    IF req'[q] = Idle THEN {}
                    ELSE (IF q = r /\ req[r] # Idle /\ req[r].pc = "read_deposits" THEN {} ELSE shared[q])
                           \cup Contended(q)']

(* A request on a deposit knows the deposit's date, not the dates of       *)
(* transactions another request left it with.                              *)
Started(r) == Record(r, At(RowDates[req'[r].id] \ DepositDate[req'[r].id]), {}, {}, {})

(* A request that fails leaves what it had still to do.                    *)
Broke(r) == Record(r, Scope(r), {req[r].id}, {}, {})

(* A request that has had p to itself since it read its rows puts it right *)
(* when it saves it, and one that has had its deposit to itself puts the   *)
(* transactions right when it has replaced them.                           *)
Went(r) ==
    Record(r, {}, {},
           IF req[r].pc = "save" THEN {Head(req[r].periods)} \ shared[r] ELSE {},
           IF req[r].pc \in {"fill", "drop"} /\ r \notin crowded THEN {req[r].id} ELSE {})

StepFails(r) ==
    \/ req[r].pc \in {"write", "drop"} /\ deposits[req[r].id] = NULL
    \/ req[r].pc = "save" /\ SaveFails(r)

HNext ==
    \E r \in Reqs :
       \/ Arrive(r) /\ Started(r)
       \/ Step(r) /\ (IF StepFails(r) THEN Broke(r) ELSE Went(r))
       \/ Fail(r) /\ Broke(r)

HSpec == HInit /\ [][HNext]_hvars

-----------------------------------------------------------------------------
Fresh(p) == snap[p] = Aggregate(p, DepositRows, txs)

(* A snapshot is wrong only in a period some request in flight has still   *)
(* to save, or in one two requests contended for or a failed request left  *)
(* unsaved, until a request that has the period to itself saves it: the    *)
(* refresh of one day never spoils another, and one undisturbed request    *)
(* repairs what was lost.                                                  *)
StaleOnlyWhereDisturbed ==
    \A p \in Periods \ suspect : Fresh(p) \/ \E r \in Reqs : p \in Scope(r)

(* The transactions of a deposit are the one row its content asks for,     *)
(* stored once, unless a request is at work on it, two were at once, or    *)
(* one failed.                                                             *)
TransactionsOnceUnlessDisturbed ==
    \A i \in Ids \ shaky :
       (\A r \in Reqs : req[r] # Idle => req[r].id # i \/ Reading(r) \/ Saving(r)) =>
          LET rows == {t \in txs : t.id = i}
          IN  IF deposits[i] = NULL THEN rows = {}
              ELSE /\ Cardinality(rows) = 1
                   /\ \A t \in rows : t.date = deposits[i].date /\ t.amount = deposits[i].amount
=============================================================================
