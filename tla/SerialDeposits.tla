--------------------------- MODULE SerialDeposits ---------------------------
(***************************************************************************)
(* Requests of DepositRequests that are served one at a time and do not    *)
(* fail are the atomic requests of FinanceLedger: `committed' is the store *)
(* when the last one ended, and under the mapping below every behaviour of *)
(* `committed' is one of FinanceLedger working with deposits alone.        *)
(***************************************************************************)
EXTENDS DepositRequests

VARIABLE committed

svars == <<deposits, created, txs, snap, req, arrived, committed>>

(* One at a time, nothing fails, and one page holds the rows: a page that  *)
(* does not is the one way a lone request misses rows.                     *)
ASSUME SerialAssumption == ~Failures /\ \A r, s \in Reqs : r = s
ASSUME PagesAssumption == Cardinality(Ids) <= DepositLimit /\ Cardinality(Ids) <= TransactionLimit

Stored == [deposits |-> deposits, txs |-> txs, snap |-> snap]

SInit == Init /\ committed = Stored
SNext == Next /\ committed' = IF InFlight' = {} THEN Stored' ELSE committed
SSpec == SInit /\ [][SNext]_svars

-----------------------------------------------------------------------------
(* The deposit and the transaction rows FinanceLedger has for those here,  *)
(* which leave the kind and the type out.                                  *)
LedgerDeposits == [kind: {"deposit"}, type: {"bank_deposit"}, date: Dates, amount: Amounts]

Snapshots ==
    [deposits: SUBSET [id: Ids, row: Rows],
     moves: SUBSET [id: Ids, date: Dates, amount: Amounts, by: Reqs]]

ASSUME LedgerAssumption == Dates # {} /\ NULL \notin Dates \cup LedgerDeposits \cup Snapshots

LedgerDeposit(row) ==
    IF row = NULL THEN NULL
    ELSE [kind |-> "deposit", type |-> "bank_deposit", date |-> row.date, amount |-> row.amount]

LedgerTransaction(t) ==
    [kind |-> "deposit", type |-> "bank_deposit", channel |-> "cash",
     date |-> t.date, amount |-> t.amount]

LedgerSnapshot(s) ==
    IF s = NULL THEN NULL
    ELSE LET rowOf == [i \in {d.id : d \in s.deposits} |->
                         (CHOOSE d \in s.deposits : d.id = i).row]
         IN  [rows |-> [i \in DOMAIN rowOf |-> LedgerDeposit(rowOf[i])],
              purchases |-> [i \in {} |-> NULL],
              deposits |-> {},
              moves |-> {<<t.id, LedgerTransaction(t)>> : t \in s.moves}]

LedgerSources == [i \in Ids |-> LedgerDeposit(committed.deposits[i])]

LedgerTransactions ==
    [i \in Ids |-> {LedgerTransaction(t) : t \in {u \in committed.txs : u.id = i}}]

LedgerSnapshots == [p \in Periods |-> LedgerSnapshot(committed.snap[p])]

Ledger == INSTANCE FinanceLedger WITH
    Lines <- {},
    LegacyDocuments <- {}, DocumentForms <- {}, RecordForms <- {},
    Kinds <- {"deposit"},
    src <- LedgerSources,
    txs <- LedgerTransactions,
    linkedExpense <- [i \in Ids |-> NULL],
    linkedDeposits <- [i \in Ids |-> {}],
    lineItems <- [i \in Ids |-> [l \in {} |-> NULL]],
    snap <- LedgerSnapshots,
    today <- CHOOSE d \in Dates : TRUE

(* Each deposit request, once through all its awaits, has done exactly     *)
(* what the atomic handler of FinanceLedger does: nothing is left over     *)
(* from a step and every snapshot of the old and the new date is computed  *)
(* from the final rows.                                                    *)
ImplementsLedger == Ledger!Init /\ [][Ledger!Next]_(Ledger!vars)
=============================================================================
