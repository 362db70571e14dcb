------------------------------- MODULE Figures -------------------------------
(***************************************************************************)
(* The figures the owner of a restaurant is shown.  Every screen computes  *)
(* its own from the same rows: the snapshots of a day, a week and a month  *)
(* (restaurant_cash.py), the home cards, the cash overview, the daily data *)
(* list and its details, the expense list, the analytics and the VAT.      *)
(*                                                                         *)
(* The variable is what the owner has entered; the derived rows and the    *)
(* snapshots are those of a ledger at rest, when every handler has ended   *)
(* (FinanceLedger is about the handlers).  Days are naturals; an amount is *)
(* a whole number, and a VAT amount counts hundredths.                     *)
(***************************************************************************)
EXTENDS LedgerRows, FiniteSetsExt, Functions

CONSTANTS
    Ids,            \* the rows that may exist at once
    Forms,          \* what may be entered: rows as the handlers store them
    RevenueVat,     \* VAT rates in hundredths
    ExpenseVat,
    DaysOfMonth     \* length of a month

ASSUME VatAssumption == RevenueVat \in Nat /\ ExpenseVat \in Nat
ASSUME MonthAssumption == DaysOfMonth \in Nat \ {0}

ASSUME IdsAssumption == IsFiniteSet(Ids)

ExpenseKinds == {"expense", "food_cost_manual", "inventory"}

(* The rows the handlers store, all of them dated: a document is           *)
(* processed, the requests accept no negative amount, a revenue entry comes*)
(* in as cash until it is edited as a deposit.                             *)
Rows ==
    [kind: {"document"}, type: DocumentTypes, status: {"processed"}, date: Dates,
     amount: Nat, total: Nat, vat: Nat, lines: SUBSET Lines]
    \cup [kind: {"manual_entry"}, method: {"method_1", "method_2"}, date: Dates,
          paid: [AllPaidFields -> Nat], opening: Nat, closing: Nat, lunch: Nat, dinner: Nat]
    \cup [kind: ExpenseKinds, section: {"cash", "bank"}, food: BOOLEAN, date: Dates, amount: Nat]
    \cup [kind: {"deposit"}, type: {"bank_deposit", "cash_deposit"}, date: Dates,
          amount: Nat, lunch: Nat, dinner: Nat]
    \cup [kind: {"revenue_entry"}, type: {"cash_in", "bank_deposit", "cash_deposit"}, date: Dates,
          amount: Nat, lunch: Nat, dinner: Nat]

ASSUME FormsAssumption == Forms \subseteq Rows
ASSUME NullIsNoExpense == NULL \notin [kind: ExpenseKinds, date: Dates, amount: Nat]

VARIABLE rows       \* Ids -> a row or NULL

Sum(f(_), S) == SumFunctionOnSet([x \in S |-> f(x)], S)
Pos(n) == IF n > 0 THEN n ELSE 0

(* The rows of these kinds dated in the days P.                            *)
Of(kinds, P) == {i \in Ids : rows[i] # NULL /\ rows[i].kind \in kinds /\ rows[i].date \in P}

-----------------------------------------------------------------------------
(* What create_daily_data computes from the form of a method.              *)
CashOut(method, paid, opening, closing) ==
    IF method = "method_1" THEN 0
    ELSE Pos(opening + paid["cash_payments"] - paid["expenses_in_cash"] - closing)

TotalRevenue(r) ==
    IF r.method = "method_1"
    THEN r.paid["pos_payments"] + r.paid["cash_withdrawals"]
           + r.paid["expenses_in_cash"] + r.closing - r.opening
    ELSE r.paid["pos_payments"] + r.paid["cash_payments"] + r.paid["bank_transfer_payments"]

CashFlow(r) == r.paid["cash_payments"] - r.paid["cash_out"] - r.paid["expenses_in_cash"]

CashAvailable(r) == IF r.method = "method_1" THEN r.closing ELSE Pos(CashFlow(r))

(* The form of a record, with what is computed of it.                      *)
Record(method, date, paid, opening, closing, lunch, dinner) ==
    [kind |-> "manual_entry", method |-> method, date |-> date,
     paid |-> [paid EXCEPT !["cash_out"] = CashOut(method, paid, opening, closing)],
     opening |-> opening, closing |-> closing, lunch |-> lunch, dinner |-> dinner]

-----------------------------------------------------------------------------
(* The finance transactions and the linked rows of row i.                  *)
TransactionsOf(i) ==
    LET s == rows[i]
    IN  CASE s = NULL -> {}
          [] IsDocument(s) -> DocumentTransactions(s)
          [] IsRecord(s) -> DailyRecordTransactions(s)
          [] IsDeposit(s) -> CashDepositTransactions(s)
          [] OTHER ->
               {[t EXCEPT !.channel = s.section] :
                  t \in ExpenseTransactions(IF IsItem(s) THEN "expense" ELSE s.kind, s)}

(* Expense rows: those entered and those linked to a record or a document. *)
ExpenseRow(i) ==
    LET s == rows[i]
    IN  CASE s = NULL -> NULL
          [] IsDocument(s) -> DocumentLinkedExpense(s)
          [] IsRecord(s) -> RecordLinkedExpense(s)
          [] IsExpense(s) \/ IsItem(s) -> [kind |-> s.kind, date |-> s.date, amount |-> s.amount]
          [] OTHER -> NULL

ExpenseRows(P) == {i \in Ids : ExpenseRow(i) # NULL /\ ExpenseRow(i).date \in P}

(* Deposit rows of row i: the one entered or those linked.                 *)
DepositRowsOf(i) ==
    LET s == rows[i]
    IN  CASE s = NULL -> {}
          [] IsDocument(s) -> DocumentLinkedDeposits({}, s)
          [] IsRecord(s) -> RecordLinkedDeposits({}, s)
          [] IsDeposit(s) ->
               {[subtype |-> "own", type |-> s.type, date |-> s.date, amount |-> s.amount]}
          [] OTHER -> {}

DepositRows(P) == {x \in UNION {{i} \X DepositRowsOf(i) : i \in Ids} : x[2].date \in P}

-----------------------------------------------------------------------------
(* Mutant: a sale typed cash_collection is no longer known as the record's.*)
OtherSaleKindsAll == {"manual_entry", "revenue_entry", "expense"}

(* calculate_cash_ledger over the days P.                                  *)
SaleTypes == {"bank_collection", "cash_collection"}

TransactionTotal(P, kinds, types, channels) ==
    Sum(LAMBDA x : x[2].amount,
        {x \in UNION {{i} \X TransactionsOf(i) : i \in Ids} :
           /\ x[2].date \in P
           /\ x[2].kind \in kinds
           /\ x[2].type \in types
           /\ x[2].channel \in channels})

AnyKind == {"document", "manual_entry", "expense", "food_cost_manual", "deposit", "revenue_entry"}
AnyChannel == {"pos", "cash", "bank", "bank_transfer", "document"}

Paid(P, f) == Sum(LAMBDA i : rows[i].paid[f], Of({"manual_entry"}, P))

DocumentExpenses(P) == TransactionTotal(P, {"document"}, {"expense"}, AnyChannel)
ManualExpenses(P) == TransactionTotal(P, {"expense"}, {"expense"}, AnyChannel)

BankDeposits(P) ==
    Paid(P, "bank_transfer_payments")
      + TransactionTotal(P, AnyKind, {"bank_deposit", "cash_deposit"}, AnyChannel)
      + TransactionTotal(P, {"document"}, {"bank_collection"}, AnyChannel)

Available(P) ==
    Pos(Sum(LAMBDA i : CashAvailable(rows[i]), Of({"manual_entry"}, P))
          + TransactionTotal(P, {"document"}, {"cash_collection"}, AnyChannel)
          - TransactionTotal(P, {"expense"}, {"expense"}, {"cash"})
          - DocumentExpenses(P))

RevenueEntries(P) == Sum(LAMBDA i : rows[i].amount, Of({"revenue_entry"}, P))

(* build_aggregate_snapshot over the days P.  Sales are those of records,  *)
(* of revenue entries, of deposits, of documents and of anything else.     *)
OtherSaleKinds == AnyKind \ {"manual_entry", "document", "deposit"}

Revenue(P) ==
    Sum(LAMBDA i : TotalRevenue(rows[i]), Of({"manual_entry"}, P))
      + RevenueEntries(P)
      + TransactionTotal(P, {"deposit", "document"}, SaleTypes, AnyChannel)
      + TransactionTotal(P, OtherSaleKinds, SaleTypes, AnyChannel)

ExpensesIn(P) == Paid(P, "expenses_in_cash") + ManualExpenses(P) + DocumentExpenses(P)

Profit(P) == Revenue(P) - ExpensesIn(P)

Lunches(P) == Sum(LAMBDA i : rows[i].lunch, Of({"manual_entry", "revenue_entry"}, P))
Dinners(P) == Sum(LAMBDA i : rows[i].dinner, Of({"manual_entry", "revenue_entry"}, P))

(* There is a snapshot of the days P if anything but a linked expense is   *)
(* dated there.                                                            *)
Summarized(P) ==
    \/ Of({"manual_entry", "document"} \cup ExpenseKinds, P) # {}
    \/ DepositRows(P) # {}

(* The days with a snapshot, and the week and the month of a day.          *)
Days == {d \in Dates : Summarized({d})}
Week(d) == {e \in Dates : e \div 7 = d \div 7}
Month(d) == {e \in Dates : e \div DaysOfMonth = d \div DaysOfMonth}

-----------------------------------------------------------------------------
(* What the owner enters.  A record, an item, a document and a deposit may *)
(* be edited; an expense may only be removed.                              *)
Editable == {"document", "manual_entry", "deposit", "revenue_entry", "inventory"}

(* The row left by an edit to the form f.  The form of a processed         *)
(* document carries its date, its total and its lines, but neither its     *)
(* type nor the amount that is booked; that of a record is what is         *)
(* computed of the new form.                                               *)
EditedRow(row, f) ==
    IF IsDocument(row)
    THEN [row EXCEPT !.date = f.date, !.total = f.total, !.vat = f.vat]
    ELSE f

(* A revenue entry is entered as cash coming in; the form of a deposit     *)
(* that edits it knows only the types of a deposit.                        *)
EditForms(row) ==
    IF row.kind = "revenue_entry"
    THEN {[row EXCEPT !.type = f.type, !.date = f.date, !.amount = f.amount] :
            f \in {g \in Forms : g.kind = "deposit"}}
    ELSE {f \in Forms : f.kind = row.kind}

Enter(i) == rows[i] = NULL /\ \E f \in Forms : rows' = [rows EXCEPT ![i] = f]

(* Mutant: the amount of the form is saved too, under the type it has.     *)
EditAmount(i) ==
    /\ rows[i] # NULL
    /\ rows[i].kind \in Editable
    /\ \E f \in EditForms(rows[i]) :
          rows' = [rows EXCEPT ![i] = [EditedRow(rows[i], f) EXCEPT !.amount = f.amount]]

Edit(i) ==
    /\ rows[i] # NULL
    /\ rows[i].kind \in Editable
    /\ \E f \in EditForms(rows[i]) : rows' = [rows EXCEPT ![i] = EditedRow(rows[i], f)]

Remove(i) == rows[i] # NULL /\ rows' = [rows EXCEPT ![i] = NULL]

Init == rows = [i \in Ids |-> NULL]

Next == \E i \in Ids : Enter(i) \/ Edit(i) \/ Remove(i)

Spec == Init /\ [][Next]_rows
=============================================================================
