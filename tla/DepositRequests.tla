-------------------------- MODULE DepositRequests --------------------------
(***************************************************************************)
(* Requests on cash deposits as the server really runs them: every await   *)
(* of a handler is a step, other requests run in between, and a request    *)
(* may fail or the server may stop between any two of its steps.  Nothing  *)
(* is locked and nothing is rolled back.                                   *)
(*                                                                         *)
(* Deposits stand for every kind of source: all handlers write the source, *)
(* replace its transactions (a delete, then an insert) and then recompute  *)
(* the snapshots of the dates they know, from rows read before.            *)
(***************************************************************************)
EXTENDS Integers, Sequences, FiniteSets

CONSTANTS
    Reqs,               \* bound: request slots, the requests served at once
    Ids,                \* deposit ids, in the order of creation
    Dates, Amounts,
    Periods,            \* the days, weeks and months
    DaysOf,             \* the dates of a period
    PeriodsOf,          \* the day, the week and the month of a date
    DepositLimit,       \* page_size of the deposits _sync_restaurant_record reads
    TransactionLimit,   \* and of the transactions
    MaxRequests,        \* bound: requests in all
    Failures,           \* whether requests may fail half way
    NULL

VARIABLES
    deposits,   \* restaurant_cash_deposits: id -> row or NULL
    created,    \* how many ids have been used
    txs,        \* restaurant_finance_transactions, each row with the slot that inserted it
    snap,       \* restaurant_finance_snapshots: one per period (unique index)
    req,        \* the local state of each request
    arrived     \* bounds the requests

store == <<deposits, created, txs, snap>>
vars == <<deposits, created, txs, snap, req, arrived>>

Rows == [date: Dates, amount: Amounts]
Idle == [pc |-> "idle"]
InFlight == {r \in Reqs : req[r] # Idle}

ASSUME IdsAssumption == Cardinality(Ids) \in Nat /\ Ids = 1 .. Cardinality(Ids)
ASSUME NullAssumption == NULL \notin Rows
ASSUME PeriodsAssumption ==
    \A d \in Dates :
       /\ PeriodsOf[d] \in Seq(Periods) \ {<<>>}
       /\ \A p \in Periods : d \in DaysOf[p] <=> \E n \in 1 .. Len(PeriodsOf[d]) : PeriodsOf[d][n] = p
ASSUME LimitsAssumption == DepositLimit \in Nat /\ TransactionLimit \in Nat

Init ==
    /\ deposits = [i \in Ids |-> NULL]
    /\ created = 0
    /\ txs = {}
    /\ snap = [p \in Periods |-> NULL]
    /\ req = [r \in Reqs |-> Idle]
    /\ arrived = 0

Goto(r, pc) == req' = [req EXCEPT ![r].pc = pc]
Failed(r) == req' = [req EXCEPT ![r] = Idle]

MayStart(r) ==
    /\ req[r] = Idle
    /\ arrived < MaxRequests

(* A request on deposit i: the row it writes and the dates it will sync.   *)
Begin(r, pc, i, row, days) ==
    /\ req' = [req EXCEPT ![r] = [pc |-> pc, id |-> i, row |-> row, days |-> days]]
    /\ arrived' = arrived + 1

-----------------------------------------------------------------------------
(* The handlers up to their sync.                                          *)

(* create_cash_deposit up to its first insert.                             *)
Create(r, row) ==
    /\ MayStart(r)
    /\ created + 1 \in Ids
    /\ created' = created + 1
    /\ deposits' = [deposits EXCEPT ![created'] = row]
    /\ Begin(r, "clear", created', row, <<row.date>>)
    /\ UNCHANGED <<txs, snap>>

(* Mutant: the old date is forgotten.                                      *)
BeginUpdateNewDate(r, i, row) ==
    /\ MayStart(r)
    /\ deposits[i] # NULL
    /\ Begin(r, "write", i, row, <<row.date>>)
    /\ UNCHANGED store

(* update_cash_deposit looks the deposit up and remembers its old date.    *)
BeginUpdate(r, i, row) ==
    /\ MayStart(r)
    /\ deposits[i] # NULL
    /\ Begin(r, "write", i, row, <<deposits[i].date, row.date>>)
    /\ UNCHANGED store

(* So does delete_cash_deposit.                                            *)
BeginDelete(r, i) ==
    /\ MayStart(r)
    /\ deposits[i] # NULL
    /\ Begin(r, "drop_transactions", i, NULL, <<deposits[i].date>>)
    /\ UNCHANGED store

(* find_one_and_update; a row that is gone is a NotFoundException.         *)
Write(r) ==
    /\ req[r].pc = "write"
    /\ IF deposits[req[r].id] = NULL
       THEN Failed(r) /\ UNCHANGED deposits
       ELSE /\ deposits' = [deposits EXCEPT ![req[r].id] = req[r].row]
            /\ Goto(r, "clear")
    /\ UNCHANGED <<created, txs, snap>>

Others(i) == {t \in txs : t.id # i}

(* Mutant: the transactions are added without removing the old ones.       *)
ClearNothing(r) ==
    /\ req[r].pc = "clear"
    /\ Goto(r, "fill")
    /\ UNCHANGED <<deposits, created, txs, snap>>

(* replace_for_source: delete_many,                                        *)
Clear(r) ==
    /\ req[r].pc = "clear"
    /\ txs' = Others(req[r].id)
    /\ Goto(r, "fill")
    /\ UNCHANGED <<deposits, created, snap>>

(* then insert_many.                                                       *)
Fill(r) ==
    /\ req[r].pc = "fill"
    /\ txs' = txs \cup {[id |-> req[r].id, date |-> req[r].row.date,
                         amount |-> req[r].row.amount, by |-> r]}
    /\ Goto(r, "read_deposits")
    /\ UNCHANGED <<deposits, created, snap>>

(* A deletion removes the transactions first,                              *)
DropTransactions(r) ==
    /\ req[r].pc = "drop_transactions"
    /\ txs' = Others(req[r].id)
    /\ Goto(r, "drop")
    /\ UNCHANGED <<deposits, created, snap>>

(* then the deposit, which another request may have deleted meanwhile.     *)
Drop(r) ==
    /\ req[r].pc = "drop"
    /\ IF deposits[req[r].id] = NULL
       THEN Failed(r) /\ UNCHANGED deposits
       ELSE /\ deposits' = [deposits EXCEPT ![req[r].id] = NULL]
            /\ Goto(r, "read_deposits")
    /\ UNCHANGED <<created, txs, snap>>

-----------------------------------------------------------------------------
(* _sync_restaurant_record for the first of req[r].days.                   *)

DepositRows == {[id |-> i, row |-> deposits[i]] : i \in {j \in Ids : deposits[j] # NULL}}

(* The newest DepositLimit deposits, by creation.                          *)
NewestDeposits ==
    {d \in DepositRows : Cardinality({e \in DepositRows : e.id > d.id}) < DepositLimit}

(* A page of transactions, by business date, newest first; the clock reads *)
(* of the processes that order rows of one date are left out.              *)
TransactionPages ==
    {page \in SUBSET txs :
       /\ Cardinality(page) = IF Cardinality(txs) < TransactionLimit
                              THEN Cardinality(txs) ELSE TransactionLimit
       /\ \A t \in page, u \in txs \ page : t.date >= u.date}

ReadDeposits(r) ==
    /\ req[r].pc = "read_deposits"
    /\ req' = [req EXCEPT ![r] = [pc |-> "read_transactions", id |-> @.id, row |-> @.row,
                                  days |-> @.days, deposits |-> NewestDeposits]]
    /\ UNCHANGED store

ReadTransactions(r) ==
    /\ req[r].pc = "read_transactions"
    /\ \E page \in TransactionPages :
          req' = [req EXCEPT ![r] = [pc |-> "find", id |-> @.id, row |-> @.row, days |-> @.days,
                                     deposits |-> @.deposits, txs |-> page,
                                     periods |-> PeriodsOf[Head(@.days)], found |-> "none"]]
    /\ UNCHANGED store

(* What a snapshot of p says of the rows read; none without a deposit.     *)
Aggregate(p, rows, page) ==
    LET counted == {d \in rows : d.row.date \in DaysOf[p]}
    IN  IF counted = {} THEN NULL
        ELSE [deposits |-> counted,
              moves |-> {[id |-> t.id, date |-> t.date, amount |-> t.amount, by |-> t.by] :
                           t \in {u \in page : u.date \in DaysOf[p]}}]

(* find_by_...: whether the period has a snapshot to update or delete.     *)
Find(r) ==
    /\ req[r].pc = "find"
    /\ req' = [req EXCEPT ![r].pc = "save", ![r].found =
                               IF snap[Head(req[r].periods)] # NULL THEN "seen" ELSE "none"]
    /\ UNCHANGED store

(* Mutant: all periods of the first date only.                             *)
NextPeriodOneDate(r, other) ==
    [other EXCEPT ![r] =
       IF Len(@.periods) > 1
       THEN [@ EXCEPT !.pc = "find", !.periods = Tail(@), !.found = "none"]
       ELSE Idle]

(* After a period the next one, after a date the next one.                 *)
Advanced(x) ==
    IF Len(x.periods) > 1
    THEN [x EXCEPT !.pc = "find", !.periods = Tail(@), !.found = "none"]
    ELSE IF Len(x.days) > 1
    THEN [pc |-> "read_deposits", id |-> x.id, row |-> x.row, days |-> Tail(x.days)]
    ELSE Idle

NextPeriod(r, other) == [other EXCEPT ![r] = Advanced(@)]

(* Write the snapshot of the first period: update, insert or delete what   *)
(* Find saw.  An update or delete of a snapshot another request deleted    *)
(* since is a NotFoundException, an insert where another request inserted  *)
(* since violates the unique index; either ends the request.  Deleting a   *)
(* snapshot makes the id others found useless, even if it is recreated.    *)
New(r) == Aggregate(Head(req[r].periods), req[r].deposits, req[r].txs)

SaveFails(r) ==
    \/ req[r].found = "gone"
    \/ req[r].found = "none" /\ New(r) # NULL /\ snap[Head(req[r].periods)] # NULL

Save(r) ==
    LET p == Head(req[r].periods)
        deletes == New(r) = NULL /\ req[r].found = "seen"
        misled == {q \in InFlight \ {r} : /\ deletes
                                          /\ req[q].pc = "save" /\ Head(req[q].periods) = p
                                          /\ req[q].found = "seen"}
    IN  /\ req[r].pc = "save"
        /\ IF SaveFails(r)
           THEN Failed(r) /\ UNCHANGED snap
           ELSE /\ snap' = [snap EXCEPT ![p] = IF New(r) # NULL \/ deletes THEN New(r) ELSE @]
                /\ req' = NextPeriod(r, [q \in Reqs |->
                                           IF q \in misled THEN [req[q] EXCEPT !.found = "gone"]
                                                           ELSE req[q]])
        /\ UNCHANGED <<deposits, created, txs>>

(* The request fails between two awaits, or the process stops: what it has *)
(* written stays.                                                          *)
Fail(r) ==
    /\ Failures
    /\ req[r] # Idle
    /\ Failed(r)
    /\ UNCHANGED <<store, arrived>>

-----------------------------------------------------------------------------
Step(r) ==
    /\ \/ Write(r) \/ Clear(r) \/ Fill(r) \/ DropTransactions(r) \/ Drop(r)
       \/ ReadDeposits(r) \/ ReadTransactions(r) \/ Find(r) \/ Save(r)
    /\ UNCHANGED arrived

Arrive(r) ==
    \/ \E row \in Rows : Create(r, row)
    \/ \E i \in Ids, row \in Rows : BeginUpdate(r, i, row)
    \/ \E i \in Ids : BeginDelete(r, i)

Next == \E r \in Reqs : Arrive(r) \/ Step(r) \/ Fail(r)

Spec == Init /\ [][Next]_vars
=============================================================================
