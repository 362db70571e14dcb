---------------------------- MODULE FinanceLedger ----------------------------
(***************************************************************************)
(* One tenant's ledger in services/restaurant.py when its requests are     *)
(* served one after the other: each action is one whole request handler.   *)
(*                                                                         *)
(* `src' holds what users wrote; everything else is derived from it by the *)
(* handlers, one source at a time, and is only right if every handler      *)
(* rewrites all of it: the transactions, the rows linked into the expense  *)
(* list and the cash list, the stock items of an invoice's lines, and the  *)
(* precomputed day, week and month snapshots.                              *)
(***************************************************************************)
EXTENDS LedgerRows

CONSTANTS
    Ids,            \* identifiers of source records
    Periods,        \* the days, weeks and months that have a snapshot
    DaysOf,         \* the dates of each period
    LegacyDocuments,\* unconfirmed documents older versions left behind
    DocumentForms,  \* bound: what a document may be created with
    RecordForms,    \* bound: the amounts a daily record form is submitted with
    Kinds           \* bound: the kinds of sources a run works with

VARIABLES
    src,            \* the source records, NULL where there is none
    txs,            \* restaurant_finance_transactions, by source
    linkedExpense,  \* the generated row of restaurant_expenses, by source
    linkedDeposits, \* the generated rows of restaurant_cash_deposits, by source
    lineItems,      \* the purchase date of each stock item of a document
    snap,           \* restaurant_finance_snapshots
    today           \* the current UTC date

vars == <<src, txs, linkedExpense, linkedDeposits, lineItems, snap, today>>

ASSUME PeriodsAssumption == DaysOf \in [Periods -> SUBSET Dates]
ASSUME LegacyAssumption ==
    LegacyDocuments \subseteq {doc \in Documents : doc.status = "pending"}
ASSUME FormsAssumption ==
    /\ RecordForms \subseteq [AllPaidFields -> Amounts]
    /\ DocumentForms \subseteq [type: DocumentTypes, amount: Amounts, lines: SUBSET Lines]

-----------------------------------------------------------------------------
(* The rows a snapshot of the days D counts.  Generated expense rows of    *)
(* documents and daily records are left out, the purchase rows of          *)
(* inventory items are not; a document counts once it is processed.        *)
SourceIn(s, D) ==
    /\ s # NULL
    /\ ~IsItem(s)
    /\ IsDocument(s) => IsProcessed(s)
    /\ s.date \in D

PurchaseIn(e, D) == e # NULL /\ e.kind = "inventory" /\ e.date \in D

(* What the snapshot of p is computed from: the rows and the transactions  *)
(* of its days.  Without any row (transactions alone do not count) there   *)
(* is no snapshot.                                                         *)
SnapshotOf(p, s, e, ds, ts) ==
    LET D == DaysOf[p]
        rows == {i \in Ids : SourceIn(s[i], D)}
        purchases == {i \in Ids : PurchaseIn(e[i], D)}
        deposits == {row \in UNION {{i} \X ds[i] : i \in Ids} : row[2].date \in D}
        moves == {row \in UNION {{i} \X ts[i] : i \in Ids} : row[2].date \in D}
    IN  IF rows = {} /\ purchases = {} /\ deposits = {}
        THEN NULL
        ELSE [rows |-> [i \in rows |-> s[i]],
              purchases |-> [i \in purchases |-> e[i]],
              deposits |-> deposits,
              moves |-> moves]

(* Mutant: the snapshots are computed from the rows before the request.    *)
SyncRecordsTooEarly(days) ==
    snap' = [p \in Periods |->
               IF DaysOf[p] \cap days # {}
               THEN SnapshotOf(p, src, linkedExpense, linkedDeposits, txs)
               ELSE snap[p]]

(* _sync_restaurant_record for every date in `days': the day, its week and *)
(* its month are recomputed from what the handler left in the store.       *)
SyncRecords(days) ==
    snap' = [p \in Periods |->
               IF DaysOf[p] \cap days # {}
               THEN SnapshotOf(p, src', linkedExpense', linkedDeposits', txs')
               ELSE snap[p]]

(* Store source s under i with its derived rows.                           *)
Store(i, s, e, ds, ts) ==
    /\ src' = [src EXCEPT ![i] = s]
    /\ linkedExpense' = [linkedExpense EXCEPT ![i] = e]
    /\ linkedDeposits' = [linkedDeposits EXCEPT ![i] = ds]
    /\ txs' = [txs EXCEPT ![i] = ts]

NoItems == [l \in Lines |-> NULL]

(* Object ids are never reused; an id none of whose rows are left stands   *)
(* for a new one.                                                          *)
Unused(i) == src[i] = NULL /\ txs[i] = {}

OrToday(d) == IF d = NULL THEN today ELSE d

Init ==
    /\ src \in [Ids -> {NULL} \cup LegacyDocuments]
    /\ txs = [i \in Ids |-> {}]
    /\ linkedExpense = [i \in Ids |-> NULL]
    /\ linkedDeposits = [i \in Ids |-> {}]
    /\ lineItems = [i \in Ids |-> NoItems]
    /\ snap = [p \in Periods |-> NULL]
    /\ today \in Dates

-----------------------------------------------------------------------------
(* Documents.                                                              *)

(* The stock items of a document: one per stockable line of a processed    *)
(* expense document, dated by the invoice.                                 *)
DocumentItems(doc) ==
    [l \in Lines |->
       IF doc.status = "processed" /\ doc.type = "expense" /\ l \in doc.lines
       THEN OrToday(doc.date) ELSE NULL]

(* _sync_processed_document_side_effects, with the snapshots of `days'.    *)
SyncProcessedDocument(i, doc, days) ==
    /\ Store(i, doc, DocumentLinkedExpense(doc),
             DocumentLinkedDeposits(linkedDeposits[i], doc), DocumentTransactions(doc))
    /\ lineItems' = [lineItems EXCEPT ![i] = DocumentItems(doc)]
    /\ SyncRecords(days)
    /\ UNCHANGED today

(* What a confirm or update request changes: absent fields are kept, and   *)
(* of the amounts only the total, which is the ledger's amount of an       *)
(* "unknown" document alone.  Neither the type nor the typed amount can be *)
(* edited.                                                                 *)
Edited(doc, date, total, lines) ==
    [doc EXCEPT !.date = IF date = NULL THEN @ ELSE date,
                !.amount = IF total = NULL \/ doc.type # "unknown" THEN @ ELSE total,
                !.lines = IF lines = NULL THEN @ ELSE lines]

Processed(doc) == [doc EXCEPT !.status = "processed", !.date = OrToday(@)]

CreateDocument(i, form, date) ==
    /\ Unused(i)
    /\ LET doc == [kind |-> "document", type |-> form.type, status |-> "processed",
                   date |-> OrToday(date), amount |-> form.amount, lines |-> form.lines]
       IN  SyncProcessedDocument(i, doc, {doc.date})

ConfirmDocument(i, date, total, lines) ==
    /\ IsDocument(src[i])
    /\ LET doc == Processed(Edited(src[i], date, total, lines))
       IN  SyncProcessedDocument(i, doc, {doc.date})

UpdateProcessedDocument(i, date, total, lines) ==
    /\ IsProcessed(src[i])
    /\ LET doc == Processed(Edited(src[i], date, total, lines))
       IN  SyncProcessedDocument(i, doc, {doc.date, src[i].date})

UpdatePendingDocument(i, date, total, lines) ==
    /\ IsDocument(src[i])
    /\ ~IsProcessed(src[i])
    /\ Store(i, Edited(src[i], date, total, lines), NULL, {}, {})
    /\ lineItems' = [lineItems EXCEPT ![i] = NoItems]
    /\ UNCHANGED <<snap, today>>

DeleteDocument(i) ==
    /\ IsDocument(src[i])
    /\ Store(i, NULL, NULL, {}, {})
    /\ lineItems' = [lineItems EXCEPT ![i] = NoItems]
    /\ SyncRecords({src[i].date} \ {NULL})
    /\ UNCHANGED today

-----------------------------------------------------------------------------
(* Direct expenses, food cost entries, deposits and revenue entries.       *)

CreateExpense(i, kind, date, amount) ==
    /\ Unused(i)
    /\ kind = "expense" => date # NULL
    /\ LET row == [kind |-> kind, date |-> OrToday(date), amount |-> amount]
       IN  /\ Store(i, row, NULL, {}, ExpenseTransactions(kind, row))
           /\ SyncRecords({row.date})
    /\ UNCHANGED <<lineItems, today>>

(* Only a row that is itself a source: generated expenses are refused.     *)
DeleteExpense(i) ==
    /\ IsExpense(src[i])
    /\ Store(i, NULL, NULL, {}, {})
    /\ SyncRecords({src[i].date})
    /\ UNCHANGED <<lineItems, today>>

CreateDeposit(i, kind, type, date, amount) ==
    /\ Unused(i)
    /\ kind = "revenue_entry" <=> type = "cash_in"
    /\ kind = "revenue_entry" => amount > 0
    /\ kind = "deposit" => date # NULL
    /\ LET dep == [kind |-> kind, type |-> type, date |-> OrToday(date), amount |-> amount]
       IN  /\ Store(i, dep, NULL, {}, CashDepositTransactions(dep))
           /\ SyncRecords({dep.date})
    /\ UNCHANGED <<lineItems, today>>

(* Mutant: the transactions are not rebuilt.                               *)
UpdateCashDepositKeepTransactions(i, type, date, amount) ==
    /\ IsDeposit(src[i])
    /\ LET dep == [src[i] EXCEPT !.type = type, !.date = date, !.amount = amount]
       IN  Store(i, dep, NULL, {}, txs[i])
    /\ SyncRecords({src[i].date, date})
    /\ UNCHANGED <<lineItems, today>>

(* The edit form knows the two deposit types only, for a revenue entry too.*)
UpdateCashDeposit(i, type, date, amount) ==
    /\ IsDeposit(src[i])
    /\ LET dep == [src[i] EXCEPT !.type = type, !.date = date, !.amount = amount]
       IN  /\ Store(i, dep, NULL, {}, CashDepositTransactions(dep))
           /\ SyncRecords({src[i].date, date})
    /\ UNCHANGED <<lineItems, today>>

DeleteCashDeposit(i) ==
    /\ IsDeposit(src[i])
    /\ Store(i, NULL, NULL, {}, {})
    /\ SyncRecords({src[i].date})
    /\ UNCHANGED <<lineItems, today>>

-----------------------------------------------------------------------------
(* Daily records.                                                          *)

SyncDailyRecord(i, rec, days) ==
    /\ Store(i, rec, RecordLinkedExpense(rec),
             RecordLinkedDeposits(linkedDeposits[i], rec), DailyRecordTransactions(rec))
    /\ SyncRecords(days)
    /\ UNCHANGED <<lineItems, today>>

CreateDailyData(i, method, date, paid) ==
    /\ Unused(i)
    /\ SyncDailyRecord(i, [kind |-> "manual_entry", method |-> method,
                           date |-> date, paid |-> paid], {date})

(* Mutant: only the new date is recomputed.                                *)
UpdateDailyDataNewDate(i, method, date, paid) ==
    /\ IsRecord(src[i])
    /\ SyncDailyRecord(i, [kind |-> "manual_entry", method |-> method,
                           date |-> date, paid |-> paid], {date})

UpdateDailyData(i, method, date, paid) ==
    /\ IsRecord(src[i])
    /\ SyncDailyRecord(i, [kind |-> "manual_entry", method |-> method,
                           date |-> date, paid |-> paid], {src[i].date, date})

DeleteDailyData(i) ==
    /\ IsRecord(src[i])
    /\ Store(i, NULL, NULL, {}, {})
    /\ SyncRecords({src[i].date})
    /\ UNCHANGED <<lineItems, today>>

-----------------------------------------------------------------------------
(* Inventory items: each directly bought item has a purchase row in the    *)
(* expense list.  Unit prices are 1, so a quantity is also an amount.      *)

PurchaseExpense(item) ==
    [kind |-> "inventory", date |-> OrToday(item.date), amount |-> item.qty]

CreateInventoryItem(i, date, qty) ==
    /\ Unused(i)
    /\ LET item == [kind |-> "inventory", date |-> date, qty |-> qty]
       IN  /\ Store(i, item, PurchaseExpense(item), {},
                    ExpenseTransactions("expense", PurchaseExpense(item)))
           /\ SyncRecords({OrToday(date)})
    /\ UNCHANGED <<lineItems, today>>

(* The purchase row is rewritten from the item's current stock and date;   *)
(* an item without a purchase date counts as bought today.                 *)
UpdateInventoryItem(i, date, qty) ==
    /\ IsItem(src[i])
    /\ LET item == [src[i] EXCEPT !.date = IF date = NULL THEN @ ELSE date,
                                  !.qty = IF qty = NULL THEN @ ELSE qty]
       IN  /\ Store(i, item, PurchaseExpense(item), {},
                    ExpenseTransactions("expense", PurchaseExpense(item)))
           /\ SyncRecords({OrToday(src[i].date), OrToday(item.date)})
    /\ UNCHANGED <<lineItems, today>>

(* An item of a document line has no purchase row of its own.              *)
UpdateDocumentItem(i, l, date) ==
    /\ lineItems[i][l] # NULL
    /\ LET new == IF date = NULL THEN lineItems[i][l] ELSE date
       IN  /\ lineItems' = [lineItems EXCEPT ![i][l] = new]
           /\ UNCHANGED <<src, txs, linkedExpense, linkedDeposits, today>>
           /\ SyncRecords({lineItems[i][l], new})

DeleteInventoryItem(i) ==
    /\ IsItem(src[i])
    /\ Store(i, NULL, NULL, {}, {})
    /\ SyncRecords({OrToday(src[i].date), linkedExpense[i].date})
    /\ UNCHANGED <<lineItems, today>>

DeleteDocumentItem(i, l) ==
    /\ lineItems[i][l] # NULL
    /\ lineItems' = [lineItems EXCEPT ![i][l] = NULL]
    /\ UNCHANGED <<src, txs, linkedExpense, linkedDeposits, today>>
    /\ SyncRecords({lineItems[i][l]})

(* Mutant: removing more than there is.                                    *)
UpdateInventoryStockUnchecked(i, add, remove) ==
    /\ IsItem(src[i])
    /\ src[i].qty + add \in Amounts
    /\ src' = [src EXCEPT ![i].qty = @ + add - remove]
    /\ UNCHANGED <<txs, linkedExpense, linkedDeposits, lineItems, snap, today>>

(* Stock moves do not touch the purchase row nor the snapshots.            *)
UpdateInventoryStock(i, add, remove) ==
    /\ IsItem(src[i])
    /\ remove <= src[i].qty
    /\ src[i].qty + add \in Amounts     \* bound
    /\ src' = [src EXCEPT ![i].qty = @ + add - remove]
    /\ UNCHANGED <<txs, linkedExpense, linkedDeposits, lineItems, snap, today>>

-----------------------------------------------------------------------------
(* delete_daily_data_collection_by_date: the daily records and processed   *)
(* documents of the day and the expense rows of the day that are not       *)
(* generated from one of them.  A purchase row takes its item with it.     *)
(* The transactions of an expense row are deleted under source kind        *)
(* "expense" whatever kind they were stored with.                          *)
Deletable(d) ==
    {i \in Ids :
       \/ (IsRecord(src[i]) \/ IsProcessed(src[i]) \/ IsExpense(src[i])) /\ src[i].date = d
       \/ IsItem(src[i]) /\ linkedExpense[i].date = d}

(* Mutant: every expense row is taken for a food cost entry.               *)
LeftAfterDeleteWrongKind(i) ==
    IF IsExpense(src[i]) THEN {t \in txs[i] : t.kind # "food_cost_manual"} ELSE {}

LeftAfterDelete(i) ==
    IF IsExpense(src[i]) THEN {t \in txs[i] : t.kind # "expense"} ELSE {}

DeleteRows(gone) ==
    /\ src' = [i \in Ids |-> IF i \in gone THEN NULL ELSE src[i]]
    /\ linkedExpense' = [i \in Ids |-> IF i \in gone THEN NULL ELSE linkedExpense[i]]
    /\ linkedDeposits' = [i \in Ids |-> IF i \in gone THEN {} ELSE linkedDeposits[i]]
    /\ lineItems' = [i \in Ids |-> IF i \in gone THEN NoItems ELSE lineItems[i]]
    /\ txs' = [i \in Ids |-> IF i \in gone THEN LeftAfterDelete(i) ELSE txs[i]]

(* Mutant: only the dates of the items are recomputed.                     *)
DeleteCollectionByDateItemDates(d) ==
    LET gone == Deletable(d)
    IN  /\ gone # {}
        /\ DeleteRows(gone)
        /\ SyncRecords({OrToday(src[i].date) : i \in {j \in gone : IsItem(src[j])}})
        /\ UNCHANGED today

DeleteCollectionByDate(d) ==
    LET gone == Deletable(d)
    IN  /\ gone # {}
        /\ DeleteRows(gone)
        /\ SyncRecords({d} \cup {OrToday(src[i].date) : i \in {j \in gone : IsItem(src[j])}})
        /\ UNCHANGED today

(* Midnight.                                                               *)
NextDay ==
    /\ today + 1 \in Dates
    /\ today' = today + 1
    /\ UNCHANGED <<src, txs, linkedExpense, linkedDeposits, lineItems, snap>>

-----------------------------------------------------------------------------
OptDates == Dates \cup {NULL}
OptAmounts == Amounts \cup {NULL}
OptLines == (SUBSET Lines) \cup {NULL}

DocumentStep(i) ==
    \/ \E form \in DocumentForms, date \in OptDates : CreateDocument(i, form, date)
    \/ \E date \in OptDates, total \in OptAmounts, lines \in OptLines :
          \/ ConfirmDocument(i, date, total, lines)
          \/ UpdateProcessedDocument(i, date, total, lines)
          \/ UpdatePendingDocument(i, date, total, lines)
    \/ DeleteDocument(i)
    \/ \E l \in Lines, date \in OptDates : UpdateDocumentItem(i, l, date)
    \/ \E l \in Lines : DeleteDocumentItem(i, l)

ExpenseStep(i) ==
    \/ \E kind \in {"expense", "food_cost_manual"}, date \in OptDates, amount \in Amounts :
          CreateExpense(i, kind, date, amount)
    \/ DeleteExpense(i)

DepositStep(i) ==
    \/ \E kind \in {"deposit", "revenue_entry"},
          type \in {"bank_deposit", "cash_deposit", "cash_in"},
          date \in OptDates, amount \in Amounts : CreateDeposit(i, kind, type, date, amount)
    \/ \E type \in {"bank_deposit", "cash_deposit"}, date \in Dates, amount \in Amounts :
          UpdateCashDeposit(i, type, date, amount)
    \/ DeleteCashDeposit(i)

RecordStep(i) ==
    \/ \E method \in {"method_1", "method_2"}, date \in Dates, paid \in RecordForms :
          \/ CreateDailyData(i, method, date, paid)
          \/ UpdateDailyData(i, method, date, paid)
    \/ DeleteDailyData(i)

ItemStep(i) ==
    \/ \E date \in OptDates, qty \in Amounts : CreateInventoryItem(i, date, qty)
    \/ \E date \in OptDates, qty \in OptAmounts : UpdateInventoryItem(i, date, qty)
    \/ DeleteInventoryItem(i)
    \/ \E add \in Amounts, remove \in Amounts : UpdateInventoryStock(i, add, remove)

Next ==
    \/ \E i \in Ids : \/ "document" \in Kinds /\ DocumentStep(i)
                      \/ "expense" \in Kinds /\ ExpenseStep(i)
                      \/ "deposit" \in Kinds /\ DepositStep(i)
                      \/ "manual_entry" \in Kinds /\ RecordStep(i)
                      \/ "inventory" \in Kinds /\ ItemStep(i)
    \/ \E d \in Dates : DeleteCollectionByDate(d)
    \/ NextDay

Spec == Init /\ [][Next]_vars
=============================================================================
