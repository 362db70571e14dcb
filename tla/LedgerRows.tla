----------------------------- MODULE LedgerRows -----------------------------
(***************************************************************************)
(* The rows of one tenant's finance ledger, and the pure functions of      *)
(* services/restaurant.py that derive rows from a source record: finance   *)
(* transactions, the linked row of the expense list, and the linked rows   *)
(* of the cash list.                                                       *)
(*                                                                         *)
(* A source is a record a user wrote: a document, a daily record (source   *)
(* kind "manual_entry"), an expense, a food cost entry, a deposit, a       *)
(* revenue entry or an inventory item.  Amounts are small naturals, a day  *)
(* is a natural, and NULL is a missing row or an absent field.             *)
(***************************************************************************)
EXTENDS Integers

CONSTANTS
    Dates,      \* the business dates, an interval of naturals
    Amounts,    \* the amounts a row may carry, 0 included
    Lines,      \* indexes of the stockable lines of a document
    NULL        \* no row, no value

ASSUME DatesAssumption == Dates \subseteq Nat
ASSUME AmountsAssumption == Amounts \subseteq Nat /\ 0 \in Amounts
ASSUME NullIsNoDate == NULL \notin Dates

DocumentTypes == {"expense", "cash", "revenue", "profit", "unknown"}

(* The amounts a daily record carries under each entry method that feed    *)
(* other rows; they also name the subtypes of the linked deposit rows.     *)
PaidFields(method) ==
    IF method = "method_1"
    THEN {"pos_payments", "cash_withdrawals", "expenses_in_cash"}
    ELSE {"pos_payments", "cash_payments", "bank_transfer_payments",
          "cash_out", "expenses_in_cash"}

AllPaidFields == PaidFields("method_1") \cup PaidFields("method_2")

DepositSubtypes == AllPaidFields \cup {"cash_in", "cash_amount", "revenue_amount"}

DepositTypes == {"bank_deposit", "cash_deposit", "pos_payment", "cash_in",
                 "bank_transfer_payment", "cash_withdrawal", "cash_out", "cash_expense"}

(* Sources, by kind.                                                       *)
Documents ==
    [kind: {"document"}, type: DocumentTypes, status: {"processed", "pending"},
     date: Dates \cup {NULL}, amount: Amounts, lines: SUBSET Lines]

DailyRecords ==
    [kind: {"manual_entry"}, method: {"method_1", "method_2"}, date: Dates,
     paid: [AllPaidFields -> Amounts]]

Expenses == [kind: {"expense", "food_cost_manual"}, date: Dates, amount: Amounts]

Deposits == [kind: {"deposit", "revenue_entry"}, type: DepositTypes,
             date: Dates, amount: Amounts]

InventoryItems == [kind: {"inventory"}, date: Dates \cup {NULL}, qty: Nat]

Sources == Documents \cup DailyRecords \cup Expenses \cup Deposits \cup InventoryItems

(* Derived rows.                                                           *)
LinkedExpenses ==
    [kind: {"document", "manual_entry", "inventory"}, date: Dates, amount: Nat]

LinkedDeposits ==
    [subtype: DepositSubtypes, type: DepositTypes, date: Dates, amount: Nat]

TransactionTypes ==
    DepositTypes \cup {"expense", "cash_collection", "bank_collection",
                       "profit_adjustment", "document", "withdrawal"}

Transactions ==
    [kind: {"document", "manual_entry", "expense", "food_cost_manual",
            "deposit", "revenue_entry"},
     type: TransactionTypes, channel: {"pos", "cash", "bank_transfer", "document", "section"},
     date: Dates, amount: Nat]

ASSUME NullIsNoRow == NULL \notin Sources \cup LinkedExpenses

-----------------------------------------------------------------------------
IsDocument(s) == s # NULL /\ s.kind = "document"
IsProcessed(s) == IsDocument(s) /\ s.status = "processed"
IsRecord(s) == s # NULL /\ s.kind = "manual_entry"
IsExpense(s) == s # NULL /\ s.kind \in {"expense", "food_cost_manual"}
IsDeposit(s) == s # NULL /\ s.kind \in {"deposit", "revenue_entry"}
IsItem(s) == s # NULL /\ s.kind = "inventory"

(* A processed, dated document is one transaction, typed by the document.  *)
DocumentTransactions(doc) ==
    IF doc.status # "processed" \/ doc.date = NULL \/ doc.amount = 0
    THEN {}
    ELSE {[kind |-> "document",
           type |-> CASE doc.type = "expense" -> "expense"
                      [] doc.type = "cash" -> "cash_collection"
                      [] doc.type = "revenue" -> "bank_collection"
                      [] doc.type = "profit" -> "profit_adjustment"
                      [] OTHER -> "document",
           channel |-> CASE doc.type = "cash" -> "cash"
                         [] doc.type = "revenue" -> "bank_transfer"
                         [] OTHER -> "document",
           date |-> doc.date,
           amount |-> doc.amount]}

(* An expense row is one transaction, whatever its amount, under the       *)
(* source kind its handler names.                                          *)
ExpenseTransactions(kind, row) ==
    {[kind |-> kind, type |-> "expense", channel |-> "section",
      date |-> row.date, amount |-> row.amount]}

CashDepositTransactions(dep) ==
    {[kind |-> dep.kind, type |-> dep.type, channel |-> "cash",
      date |-> dep.date, amount |-> dep.amount]}

(* Which amounts of a daily record become transactions, and as what.       *)
RecordTransactionType(method) ==
    IF method = "method_1"
    THEN [pos_payments |-> "bank_collection", cash_withdrawals |-> "withdrawal",
          expenses_in_cash |-> "expense"]
    ELSE [pos_payments |-> "bank_collection", cash_payments |-> "cash_collection",
          bank_transfer_payments |-> "bank_collection"]

DailyRecordTransactions(rec) ==
    {[kind |-> "manual_entry",
      type |-> RecordTransactionType(rec.method)[f],
      channel |-> CASE f = "pos_payments" -> "pos"
                    [] f = "bank_transfer_payments" -> "bank_transfer"
                    [] OTHER -> "cash",
      date |-> rec.date,
      amount |-> rec.paid[f]] :
        f \in {g \in DOMAIN RecordTransactionType(rec.method) : rec.paid[g] > 0}}

-----------------------------------------------------------------------------
(* The linked expense row after _upsert_source_linked_expense: no row for  *)
(* an amount that is not positive.                                         *)
UpsertLinkedExpense(kind, date, amount) ==
    IF amount <= 0 THEN NULL ELSE [kind |-> kind, date |-> date, amount |-> amount]

DocumentLinkedExpense(doc) ==
    IF doc.status # "processed" \/ doc.type # "expense" \/ doc.date = NULL
    THEN NULL
    ELSE UpsertLinkedExpense("document", doc.date, doc.amount)

RecordLinkedExpense(rec) ==
    UpsertLinkedExpense("manual_entry", rec.date, rec.paid["expenses_in_cash"])

(* The rows of subtype f after _upsert_source_linked_cash_deposit.         *)
UpsertLinkedDeposit(f, type, date, amount) ==
    IF amount <= 0 THEN {}
    ELSE {[subtype |-> f, type |-> type, date |-> date, amount |-> amount]}

(* The linked deposits of a document that had the rows `old'.              *)
DocumentLinkedDeposits(old, doc) ==
    IF doc.status # "processed" \/ doc.type \notin {"cash", "revenue"} \/ doc.date = NULL
    THEN {}
    ELSE LET own == IF doc.type = "cash" THEN "cash_amount" ELSE "revenue_amount"
             type == IF doc.type = "cash" THEN "cash_deposit" ELSE "bank_deposit"
         IN  {r \in old : r.subtype \notin {"cash_amount", "revenue_amount"}}
               \cup UpsertLinkedDeposit(own, type, doc.date, doc.amount)

DepositTypeOf ==
    [pos_payments |-> "pos_payment", cash_payments |-> "cash_in",
     bank_transfer_payments |-> "bank_transfer_payment", cash_out |-> "cash_out",
     expenses_in_cash |-> "cash_expense", cash_withdrawals |-> "cash_withdrawal"]

(* Mutant: method 1 forgets the cash payments of method 2.                 *)
StaleSubtypesForgetful(method) ==
    IF method = "method_1"
    THEN {"cash_in", "cash_out", "bank_transfer_payments"}
    ELSE {"cash_in", "cash_withdrawals"}

(* The subtypes a sync of a daily record deletes outright.                 *)
StaleSubtypes(method) ==
    IF method = "method_1"
    THEN {"cash_in", "cash_out", "cash_payments", "bank_transfer_payments"}
    ELSE {"cash_in", "cash_withdrawals"}

(* The linked deposits of a daily record that had the rows `old': every    *)
(* subtype of its method is upserted and the other method's are deleted.   *)
RecordLinkedDeposits(old, rec) ==
    LET written == PaidFields(rec.method)
    IN  {r \in old : r.subtype \notin written \cup StaleSubtypes(rec.method)}
          \cup UNION {UpsertLinkedDeposit(f, DepositTypeOf[f], rec.date, rec.paid[f]) :
                        f \in written}
=============================================================================
