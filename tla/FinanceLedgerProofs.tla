------------------------ MODULE FinanceLedgerProofs ------------------------
(***************************************************************************)
(* The ledger's invariants, proved for any dates, amounts, forms and any   *)
(* number of sources.                                                      *)
(*                                                                         *)
(* The five invariants are proved together: what a handler leaves behind   *)
(* depends on what was there before (a sync keeps the linked rows of       *)
(* subtypes it does not know, a new source takes an id whose old rows must *)
(* be gone), so none of them is inductive alone.  LedgerInv says them of   *)
(* one source at a time, and since a handler writes one source, a step     *)
(* keeps it if the rows it stores agree with each other.                   *)
(***************************************************************************)
EXTENDS FinanceLedgerProps, TLAPS

-----------------------------------------------------------------------------
(* The row builders of LedgerRows: what they return, and that a sync       *)
(* forgets the rows an earlier content of the source had.                  *)

(* A source is of the kind its tag says, and NULL is of none: the kind     *)
(* tests the handlers make are conclusive.                                 *)
LEMMA SourceKinds ==
    ASSUME NEW s \in Sources \cup {NULL}
    PROVE  /\ IsDocument(s) => s \in Documents
           /\ IsRecord(s) => s \in DailyRecords
           /\ IsExpense(s) => s \in Expenses
           /\ IsDeposit(s) => s \in Deposits
           /\ IsItem(s) => s \in InventoryItems
           /\ s = NULL \/ IsDocument(s) \/ IsRecord(s) \/ IsExpense(s) \/ IsDeposit(s) \/ IsItem(s)
  BY DEF Sources, IsDocument, IsRecord, IsExpense, IsDeposit, IsItem,
         Documents, DailyRecords, Expenses, Deposits, InventoryItems

(* The converse: a member of each set passes exactly its own test.         *)
LEMMA KindTests ==
    /\ \A s \in Documents : s # NULL /\ IsDocument(s) /\ ~IsRecord(s) /\ ~IsExpense(s)
                              /\ ~IsDeposit(s) /\ ~IsItem(s)
    /\ \A s \in DailyRecords : s # NULL /\ IsRecord(s) /\ ~IsDocument(s) /\ ~IsExpense(s)
                              /\ ~IsDeposit(s) /\ ~IsItem(s)
    /\ \A s \in Expenses : s # NULL /\ IsExpense(s) /\ ~IsDocument(s) /\ ~IsRecord(s)
                              /\ ~IsDeposit(s) /\ ~IsItem(s)
    /\ \A s \in Deposits : s # NULL /\ IsDeposit(s) /\ ~IsDocument(s) /\ ~IsRecord(s)
                              /\ ~IsExpense(s) /\ ~IsItem(s)
    /\ \A s \in InventoryItems : s # NULL /\ IsItem(s) /\ ~IsDocument(s) /\ ~IsRecord(s)
                              /\ ~IsExpense(s) /\ ~IsDeposit(s)
  <1>1. \A s \in Sources : s # NULL
    BY NullIsNoRow DEF Sources
  <1>2. QED
    BY <1>1 DEF Sources, IsDocument, IsRecord, IsExpense, IsDeposit, IsItem,
            Documents, DailyRecords, Expenses, Deposits, InventoryItems

(* The transactions a document builds are well formed.                     *)
LEMMA DocumentTransactionsType ==
    ASSUME NEW doc \in Documents
    PROVE  DocumentTransactions(doc) \subseteq Transactions
  BY AmountsAssumption
     DEF Documents, DocumentTypes, DocumentTransactions, Transactions, TransactionTypes,
         DepositTypes

(* So are those of an expense row, under the kinds its handlers use.       *)
LEMMA ExpenseTransactionsType ==
    ASSUME NEW row, row.date \in Dates, row.amount \in Nat,
           NEW kind \in {"expense", "food_cost_manual"}
    PROVE  ExpenseTransactions(kind, row) \subseteq Transactions
  BY DEF ExpenseTransactions, Transactions, TransactionTypes, DepositTypes

(* Those of a deposit.                                                     *)
LEMMA CashDepositTransactionsType ==
    ASSUME NEW dep \in Deposits
    PROVE  CashDepositTransactions(dep) \subseteq Transactions
  <1>1. /\ dep.kind \in {"deposit", "revenue_entry"}
        /\ dep.type \in TransactionTypes
        /\ dep.date \in Dates
        /\ dep.amount \in Nat
    BY AmountsAssumption DEF Deposits, TransactionTypes
  <1>2. QED
    BY <1>1 DEF CashDepositTransactions, Transactions

(* And those of a daily record.                                            *)
LEMMA DailyRecordTransactionsType ==
    ASSUME NEW rec \in DailyRecords
    PROVE  DailyRecordTransactions(rec) \subseteq Transactions
  <1> DEFINE T == RecordTransactionType(rec.method)
  <1>1. DOMAIN T \subseteq AllPaidFields
    BY DEF RecordTransactionType, AllPaidFields, PaidFields
  <1>2. \A f \in DOMAIN T : T[f] \in TransactionTypes
    BY DEF RecordTransactionType, TransactionTypes
  <1>3. \A f \in DOMAIN T : rec.paid[f] \in Nat
    BY <1>1, AmountsAssumption DEF DailyRecords
  <1>4. rec.date \in Dates
    BY DEF DailyRecords
  <1> HIDE DEF T
  <1>5. QED
    BY <1>2, <1>3, <1>4 DEF DailyRecordTransactions, Transactions, T

(* A linked expense is NULL or a well-formed row.                          *)
LEMMA UpsertLinkedExpenseType ==
    ASSUME NEW kind \in {"document", "manual_entry"}, NEW date \in Dates, NEW amount \in Amounts
    PROVE  UpsertLinkedExpense(kind, date, amount) \in LinkedExpenses \cup {NULL}
  BY AmountsAssumption DEF UpsertLinkedExpense, LinkedExpenses

LEMMA DocumentLinkedExpenseType ==
    ASSUME NEW doc \in Documents
    PROVE  DocumentLinkedExpense(doc) \in LinkedExpenses \cup {NULL}
  BY UpsertLinkedExpenseType DEF DocumentLinkedExpense, Documents

LEMMA RecordLinkedExpenseType ==
    ASSUME NEW rec \in DailyRecords
    PROVE  RecordLinkedExpense(rec) \in LinkedExpenses \cup {NULL}
  <1>1. "expenses_in_cash" \in AllPaidFields
    BY DEF AllPaidFields, PaidFields
  <1>2. QED
    BY <1>1, UpsertLinkedExpenseType DEF RecordLinkedExpense, DailyRecords

-----------------------------------------------------------------------------
(* The linked deposits a document has are well formed and of the two       *)
(* document subtypes.                                                      *)
LEMMA DocumentLinkedDepositsType ==
    ASSUME NEW doc \in Documents
    PROVE  /\ DocumentLinkedDeposits({}, doc) \subseteq LinkedDeposits
           /\ \A r \in DocumentLinkedDeposits({}, doc) :
                 r.subtype \in {"cash_amount", "revenue_amount"}
  <1>1. ASSUME NEW f \in {"cash_amount", "revenue_amount"},
               NEW type \in {"cash_deposit", "bank_deposit"},
               NEW date \in Dates, NEW amount \in Amounts,
               NEW r \in UpsertLinkedDeposit(f, type, date, amount)
        PROVE  r \in LinkedDeposits /\ r.subtype = f
    BY AmountsAssumption
       DEF UpsertLinkedDeposit, LinkedDeposits, DepositSubtypes, DepositTypes
  <1>2. doc.date \in Dates \cup {NULL} /\ doc.amount \in Amounts
    BY DEF Documents
  <1>3. QED
    BY <1>1, <1>2 DEF DocumentLinkedDeposits

(* A sync of a document leaves nothing of the rows its earlier content     *)
(* had: a document that was a cash document and is a revenue one now has   *)
(* the revenue row only.                                                   *)
LEMMA DocumentDepositsForget ==
    ASSUME NEW old, NEW doc,
           \A r \in old : r.subtype \in {"cash_amount", "revenue_amount"}
    PROVE  DocumentLinkedDeposits(old, doc) = DocumentLinkedDeposits({}, doc)
  <1>1. {r \in old : r.subtype \notin {"cash_amount", "revenue_amount"}}
          = {r \in {} : r.subtype \notin {"cash_amount", "revenue_amount"}}
    OBVIOUS
  <1>2. QED
    BY <1>1 DEF DocumentLinkedDeposits

(* The linked deposits of a daily record are well formed and of the        *)
(* subtypes of its method.                                                 *)
LEMMA RecordLinkedDepositsType ==
    ASSUME NEW rec \in DailyRecords
    PROVE  /\ RecordLinkedDeposits({}, rec) \subseteq LinkedDeposits
           /\ \A r \in RecordLinkedDeposits({}, rec) : r.subtype \in AllPaidFields
  <1>1. PaidFields(rec.method) \subseteq AllPaidFields
    BY DEF PaidFields, AllPaidFields, DailyRecords
  <1>2. \A f \in AllPaidFields : DepositTypeOf[f] \in DepositTypes /\ f \in DepositSubtypes
    BY DEF AllPaidFields, PaidFields, DepositTypeOf, DepositTypes, DepositSubtypes
  <1>3. \A f \in AllPaidFields : rec.paid[f] \in Nat
    BY AmountsAssumption DEF DailyRecords
  <1>4. rec.date \in Dates
    BY DEF DailyRecords
  <1>5. ASSUME NEW f \in AllPaidFields,
               NEW r \in UpsertLinkedDeposit(f, DepositTypeOf[f], rec.date, rec.paid[f])
        PROVE  r \in LinkedDeposits /\ r.subtype = f
    BY <1>2, <1>3, <1>4 DEF UpsertLinkedDeposit, LinkedDeposits
  <1>6. RecordLinkedDeposits({}, rec)
          = UNION {UpsertLinkedDeposit(f, DepositTypeOf[f], rec.date, rec.paid[f]) :
                     f \in PaidFields(rec.method)}
    BY DEF RecordLinkedDeposits
  <1>7. QED
    BY <1>1, <1>5, <1>6

(* A sync of a daily record leaves nothing of the rows its earlier content *)
(* had, whichever of the two methods that content was entered with: the    *)
(* subtypes it writes and those it deletes cover both.                     *)
LEMMA RecordDepositsForget ==
    ASSUME NEW old, NEW rec \in DailyRecords,
           \A r \in old : r.subtype \in AllPaidFields
    PROVE  RecordLinkedDeposits(old, rec) = RecordLinkedDeposits({}, rec)
  <1> DEFINE covered == PaidFields(rec.method) \cup StaleSubtypes(rec.method)
  <1>1. AllPaidFields \subseteq covered
    BY DEF AllPaidFields, PaidFields, StaleSubtypes, DailyRecords
  <1>2. {r \in old : r.subtype \notin covered} = {r \in {} : r.subtype \notin covered}
    BY <1>1
  <1>3. QED
    BY <1>2 DEF RecordLinkedDeposits

-----------------------------------------------------------------------------
(* The rows stored for one source agree with each other.                   *)
RowsAgree(s, e, ds, ts, items) ==
    /\ s \in Sources \cup {NULL}
    /\ ts \subseteq Transactions /\ TransactionsAgree(s, e, ts)
    /\ e \in LinkedExpenses \cup {NULL} /\ LinkedExpenseAgrees(s, e)
    /\ ds \subseteq LinkedDeposits /\ ds = LinkedDepositsOf(s)
    /\ items \in [Lines -> Dates \cup {NULL}] /\ ItemsAgree(s, items)

Agree(i) == RowsAgree(src[i], linkedExpense[i], linkedDeposits[i], txs[i], lineItems[i])

LedgerInv == TypeOK /\ \A i \in Ids : Agree(i)

-----------------------------------------------------------------------------
(* LedgerInv is the conjunction of the invariants.                         *)
LEMMA LedgerInvImplies ==
    LedgerInv => /\ TypeOK
                 /\ TransactionsFollowSources
                 /\ LinkedExpensesFollowSources
                 /\ LinkedDepositsFollowSources
                 /\ LineItemsHaveTheirLine
  <1> SUFFICES ASSUME LedgerInv
               PROVE  /\ TypeOK
                      /\ TransactionsFollowSources
                      /\ LinkedExpensesFollowSources
                      /\ LinkedDepositsFollowSources
                      /\ LineItemsHaveTheirLine
    OBVIOUS
  <1> QED
    BY DEF LedgerInv, Agree, RowsAgree, TransactionsFollowSources,
           LinkedExpensesFollowSources, LinkedDepositsFollowSources,
           LineItemsHaveTheirLine

-----------------------------------------------------------------------------
(* The rows each kind of source is stored with agree with it.              *)

(* No source: no rows.                                                     *)
LEMMA NoSourceAgrees ==
    RowsAgree(NULL, NULL, {}, {}, NoItems)
  <1>1. /\ ~IsDocument(NULL) /\ ~IsRecord(NULL) /\ ~IsExpense(NULL)
        /\ ~IsDeposit(NULL) /\ ~IsItem(NULL)
    BY DEF IsDocument, IsRecord, IsExpense, IsDeposit, IsItem
  <1>2. LinkedExpenseAgrees(NULL, NULL) /\ LinkedDepositsOf(NULL) = {}
    BY <1>1 DEF LinkedExpenseAgrees, LinkedDepositsOf
  <1>3. TransactionsAgree(NULL, NULL, {})
    BY DEF TransactionsAgree
  <1>4. NoItems \in [Lines -> Dates \cup {NULL}] /\ ItemsAgree(NULL, NoItems)
    BY DEF NoItems, ItemsAgree
  <1>5. QED
    BY <1>2, <1>3, <1>4 DEF RowsAgree

(* A document, whatever rows its earlier content had, provided they were   *)
(* a document's.                                                           *)
LEMMA DocumentAgrees ==
    ASSUME NEW doc \in Documents, NEW old, today \in Dates,
           \A r \in old : r.subtype \in {"cash_amount", "revenue_amount"}
    PROVE  RowsAgree(doc, DocumentLinkedExpense(doc), DocumentLinkedDeposits(old, doc),
                     DocumentTransactions(doc), DocumentItems(doc))
  <1>1. /\ IsDocument(doc) /\ ~IsRecord(doc) /\ ~IsExpense(doc) /\ ~IsDeposit(doc)
        /\ ~IsItem(doc) /\ doc # NULL
    BY KindTests
  <1>2. LinkedExpenseAgrees(doc, DocumentLinkedExpense(doc))
    BY <1>1 DEF LinkedExpenseAgrees
  <1>3. LinkedDepositsOf(doc) = DocumentLinkedDeposits({}, doc)
    BY <1>1 DEF LinkedDepositsOf
  <1>4. TransactionsAgree(doc, DocumentLinkedExpense(doc), DocumentTransactions(doc))
    BY <1>1 DEF TransactionsAgree, TransactionsOf
  <1>5. DocumentItems(doc) \in [Lines -> Dates \cup {NULL}]
    BY DEF DocumentItems, OrToday, Documents
  <1>6. ItemsAgree(doc, DocumentItems(doc))
    BY <1>1 DEF ItemsAgree, DocumentItems, IsProcessed
  <1>7. doc \in Sources
    BY DEF Sources
  <1>8. QED
    BY <1>2, <1>3, <1>4, <1>5, <1>6, <1>7, DocumentTransactionsType,
       DocumentLinkedExpenseType, DocumentLinkedDepositsType, DocumentDepositsForget
       DEF RowsAgree

(* An unconfirmed document has no rows at all.                             *)
LEMMA PendingAgrees ==
    ASSUME NEW doc \in Documents, doc.status # "processed"
    PROVE  RowsAgree(doc, NULL, {}, {}, NoItems)
  <1>1. /\ IsDocument(doc) /\ ~IsRecord(doc) /\ ~IsExpense(doc) /\ ~IsDeposit(doc)
        /\ ~IsItem(doc) /\ doc \in Sources
    BY KindTests DEF Sources
  <1>2. /\ DocumentLinkedExpense(doc) = NULL
        /\ DocumentLinkedDeposits({}, doc) = {}
        /\ DocumentTransactions(doc) = {}
    BY DEF DocumentLinkedExpense, DocumentLinkedDeposits, DocumentTransactions
  <1>3. NoItems \in [Lines -> Dates \cup {NULL}] /\ ItemsAgree(doc, NoItems)
    BY DEF NoItems, ItemsAgree
  <1>4. QED
    BY <1>1, <1>2, <1>3
       DEF RowsAgree, TransactionsAgree, TransactionsOf, LinkedExpenseAgrees, LinkedDepositsOf

(* A daily record, whichever method its earlier content used.              *)
LEMMA RecordAgrees ==
    ASSUME NEW rec \in DailyRecords, NEW old,
           \A r \in old : r.subtype \in AllPaidFields
    PROVE  RowsAgree(rec, RecordLinkedExpense(rec), RecordLinkedDeposits(old, rec),
                     DailyRecordTransactions(rec), NoItems)
  <1>1. /\ IsRecord(rec) /\ ~IsDocument(rec) /\ ~IsExpense(rec) /\ ~IsDeposit(rec)
        /\ ~IsItem(rec) /\ rec \in Sources
    BY KindTests DEF Sources
  <1>2. /\ LinkedExpenseAgrees(rec, RecordLinkedExpense(rec))
        /\ LinkedDepositsOf(rec) = RecordLinkedDeposits({}, rec)
        /\ TransactionsAgree(rec, RecordLinkedExpense(rec), DailyRecordTransactions(rec))
    BY <1>1 DEF LinkedExpenseAgrees, LinkedDepositsOf, TransactionsAgree, TransactionsOf
  <1>3. NoItems \in [Lines -> Dates \cup {NULL}] /\ ItemsAgree(rec, NoItems)
    BY DEF NoItems, ItemsAgree
  <1>4. QED
    BY <1>1, <1>2, <1>3, DailyRecordTransactionsType, RecordLinkedExpenseType,
       RecordLinkedDepositsType, RecordDepositsForget DEF RowsAgree

(* A direct expense or food cost entry.                                    *)
LEMMA ExpenseAgrees ==
    ASSUME NEW row \in Expenses
    PROVE  RowsAgree(row, NULL, {}, ExpenseTransactions(row.kind, row), NoItems)
  <1>1. /\ IsExpense(row) /\ ~IsRecord(row) /\ ~IsDocument(row) /\ ~IsItem(row)
        /\ ~IsDeposit(row) /\ row \in Sources
    BY KindTests DEF Sources
  <1>2. /\ LinkedExpenseAgrees(row, NULL)
        /\ LinkedDepositsOf(row) = {}
        /\ TransactionsAgree(row, NULL, ExpenseTransactions(row.kind, row))
    BY <1>1 DEF LinkedExpenseAgrees, LinkedDepositsOf, TransactionsAgree, TransactionsOf
  <1>3. NoItems \in [Lines -> Dates \cup {NULL}] /\ ItemsAgree(row, NoItems)
    BY DEF NoItems, ItemsAgree
  <1>4. ExpenseTransactions(row.kind, row) \subseteq Transactions
    BY ExpenseTransactionsType, AmountsAssumption DEF Expenses
  <1>5. QED
    BY <1>1, <1>2, <1>3, <1>4 DEF RowsAgree

(* A deposit or revenue entry.                                             *)
LEMMA DepositAgrees ==
    ASSUME NEW dep \in Deposits
    PROVE  RowsAgree(dep, NULL, {}, CashDepositTransactions(dep), NoItems)
  <1>1. /\ IsDeposit(dep) /\ ~IsRecord(dep) /\ ~IsDocument(dep) /\ ~IsItem(dep)
        /\ ~IsExpense(dep) /\ dep \in Sources
    BY KindTests DEF Sources
  <1>2. /\ LinkedExpenseAgrees(dep, NULL)
        /\ LinkedDepositsOf(dep) = {}
        /\ TransactionsAgree(dep, NULL, CashDepositTransactions(dep))
    BY <1>1 DEF LinkedExpenseAgrees, LinkedDepositsOf, TransactionsAgree, TransactionsOf
  <1>3. NoItems \in [Lines -> Dates \cup {NULL}] /\ ItemsAgree(dep, NoItems)
    BY DEF NoItems, ItemsAgree
  <1>4. QED
    BY <1>1, <1>2, <1>3, CashDepositTransactionsType DEF RowsAgree

(* An inventory item with a purchase row e dated like it.                  *)
LEMMA ItemAgrees ==
    ASSUME NEW item \in InventoryItems,
           NEW e \in LinkedExpenses, e.kind = "inventory",
           item.date # NULL => e.date = item.date
    PROVE  RowsAgree(item, e, {}, ExpenseTransactions("expense", e), NoItems)
  <1>1. /\ IsItem(item) /\ ~IsRecord(item) /\ ~IsDocument(item) /\ ~IsDeposit(item)
        /\ ~IsExpense(item) /\ item \in Sources
    BY KindTests DEF Sources
  <1>2. e # NULL
    BY NullIsNoRow
  <1>3. /\ LinkedExpenseAgrees(item, e)
        /\ LinkedDepositsOf(item) = {}
        /\ TransactionsAgree(item, e, ExpenseTransactions("expense", e))
    BY <1>1, <1>2 DEF LinkedExpenseAgrees, LinkedDepositsOf, TransactionsAgree, TransactionsOf
  <1>4. NoItems \in [Lines -> Dates \cup {NULL}] /\ ItemsAgree(item, NoItems)
    BY DEF NoItems, ItemsAgree
  <1>5. ExpenseTransactions("expense", e) \subseteq Transactions
    BY ExpenseTransactionsType DEF LinkedExpenses
  <1>6. QED
    BY <1>1, <1>3, <1>4, <1>5 DEF RowsAgree

-----------------------------------------------------------------------------
(* Only documents have stock items.                                        *)
LEMMA NoItemsElsewhere ==
    ASSUME NEW i \in Ids, LedgerInv, ~IsProcessed(src[i])
    PROVE  lineItems[i] = NoItems
  BY DEF LedgerInv, TypeOK, Agree, RowsAgree, ItemsAgree, NoItems

(* The rows a document has are of the document subtypes, a daily record's  *)
(* of the subtypes of the two methods.                                     *)
LEMMA OldDeposits ==
    ASSUME NEW i \in Ids, LedgerInv
    PROVE  /\ IsDocument(src[i]) =>
                \A r \in linkedDeposits[i] : r.subtype \in {"cash_amount", "revenue_amount"}
           /\ IsRecord(src[i]) =>
                \A r \in linkedDeposits[i] : r.subtype \in AllPaidFields
           /\ src[i] = NULL => linkedDeposits[i] = {}
  <1>1. src[i] \in Sources \cup {NULL} /\ linkedDeposits[i] = LinkedDepositsOf(src[i])
    BY DEF LedgerInv, Agree, RowsAgree
  <1>2. CASE IsDocument(src[i])
    <2>1. src[i] \in Documents
      BY <1>1, <1>2, SourceKinds
    <2>2. ~IsRecord(src[i]) /\ src[i] # NULL
      BY <2>1, KindTests
    <2>3. QED
      BY <1>1, <1>2, <2>1, <2>2, DocumentLinkedDepositsType DEF LinkedDepositsOf
  <1>3. CASE IsRecord(src[i])
    <2>1. src[i] \in DailyRecords
      BY <1>1, <1>3, SourceKinds
    <2>2. ~IsDocument(src[i]) /\ src[i] # NULL
      BY <2>1, KindTests
    <2>3. QED
      BY <1>1, <1>3, <2>1, <2>2, RecordLinkedDepositsType DEF LinkedDepositsOf
  <1>4. CASE ~IsDocument(src[i]) /\ ~IsRecord(src[i])
    BY <1>1, <1>4 DEF LinkedDepositsOf
  <1>5. QED
    BY <1>2, <1>3, <1>4

(* A handler that stores agreeing rows for one source and leaves the rest  *)
(* alone keeps the invariant.                                              *)
LEMMA StoreKeeps ==
    ASSUME LedgerInv, NEW i \in Ids, NEW s, NEW e, NEW ds, NEW ts, NEW items, NEW days,
           RowsAgree(s, e, ds, ts, items),
           Store(i, s, e, ds, ts),
           \/ lineItems' = [lineItems EXCEPT ![i] = items]
           \/ UNCHANGED lineItems /\ lineItems[i] = items,
           SyncRecords(days) \/ UNCHANGED snap,
           UNCHANGED today
    PROVE  LedgerInv'
  <1>1. TypeOK'
    BY DEF LedgerInv, TypeOK, Store, SyncRecords, RowsAgree
  <1>2. Agree(i)'
    <2>1. /\ src'[i] = s /\ linkedExpense'[i] = e /\ linkedDeposits'[i] = ds
          /\ txs'[i] = ts /\ lineItems'[i] = items
      BY DEF LedgerInv, TypeOK, Store
    <2>2. QED
      BY <2>1 DEF Agree
  <1>3. ASSUME NEW j \in Ids, j # i PROVE Agree(j)'
    <2>1. /\ src'[j] = src[j] /\ linkedExpense'[j] = linkedExpense[j]
          /\ linkedDeposits'[j] = linkedDeposits[j]
          /\ txs'[j] = txs[j] /\ lineItems'[j] = lineItems[j]
      BY <1>3 DEF LedgerInv, TypeOK, Store
    <2>2. QED
      BY <2>1 DEF Agree, LedgerInv
  <1>4. QED
    BY <1>1, <1>2, <1>3 DEF LedgerInv

-----------------------------------------------------------------------------
(* What a request leaves of a document is a document.                      *)
LEMMA EditedType ==
    ASSUME NEW doc \in Documents, NEW date \in OptDates, NEW total \in OptAmounts,
           NEW lines \in OptLines, today \in Dates
    PROVE  /\ Edited(doc, date, total, lines) \in Documents
           /\ Edited(doc, date, total, lines).status = doc.status
           /\ Processed(Edited(doc, date, total, lines)) \in Documents
  <1>1. ASSUME NEW d \in Documents PROVE Processed(d) \in Documents
    BY DEF Processed, OrToday, Documents
  <1>2. /\ Edited(doc, date, total, lines) \in Documents
        /\ Edited(doc, date, total, lines).status = doc.status
    BY DEF Edited, Documents, OptDates, OptAmounts, OptLines
  <1>3. QED
    BY <1>1, <1>2

(* Every handler that ends in the document side effects keeps the          *)
(* invariant.                                                              *)
LEMMA SyncDocumentKeeps ==
    ASSUME LedgerInv, NEW i \in Ids, NEW doc \in Documents, NEW days,
           IsDocument(src[i]) \/ src[i] = NULL,
           SyncProcessedDocument(i, doc, days)
    PROVE  LedgerInv'
  <1>1. \A r \in linkedDeposits[i] : r.subtype \in {"cash_amount", "revenue_amount"}
    BY OldDeposits
  <1>2. today \in Dates
    BY DEF LedgerInv, TypeOK
  <1>3. RowsAgree(doc, DocumentLinkedExpense(doc), DocumentLinkedDeposits(linkedDeposits[i], doc),
                  DocumentTransactions(doc), DocumentItems(doc))
    BY <1>1, <1>2, DocumentAgrees
  <1>4. QED
    BY <1>3, StoreKeeps DEF SyncProcessedDocument

(* So does every handler that ends in the daily record side effects.       *)
LEMMA SyncDailyRecordKeeps ==
    ASSUME LedgerInv, NEW i \in Ids, NEW rec \in DailyRecords, NEW days,
           IsRecord(src[i]) \/ src[i] = NULL,
           SyncDailyRecord(i, rec, days)
    PROVE  LedgerInv'
  <1>1. \A r \in linkedDeposits[i] : r.subtype \in AllPaidFields
    BY OldDeposits
  <1>2. RowsAgree(rec, RecordLinkedExpense(rec), RecordLinkedDeposits(linkedDeposits[i], rec),
                  DailyRecordTransactions(rec), NoItems)
    BY <1>1, RecordAgrees
  <1>3. lineItems[i] = NoItems
    BY NoItemsElsewhere DEF IsProcessed, IsDocument, IsRecord
  <1>4. QED
    BY <1>2, <1>3, StoreKeeps DEF SyncDailyRecord

(* Storing anything but a document where there was no document.            *)
LEMMA StorePlainKeeps ==
    ASSUME LedgerInv, NEW i \in Ids, NEW s, NEW e, NEW ds, NEW ts, NEW days,
           ~IsDocument(src[i]),
           RowsAgree(s, e, ds, ts, NoItems),
           Store(i, s, e, ds, ts),
           SyncRecords(days),
           UNCHANGED <<lineItems, today>>
    PROVE  LedgerInv'
  <1>1. lineItems[i] = NoItems
    BY NoItemsElsewhere DEF IsProcessed
  <1>2. QED
    BY <1>1, StoreKeeps

(* The kinds exclude each other, so a handler's guard says which it is.    *)
LEMMA NotADocument ==
    ASSUME NEW s, s = NULL \/ IsRecord(s) \/ IsExpense(s) \/ IsDeposit(s) \/ IsItem(s)
    PROVE  ~IsDocument(s)
  BY DEF IsDocument, IsRecord, IsExpense, IsDeposit, IsItem

-----------------------------------------------------------------------------
(* The invariant holds at the start: no source but unconfirmed documents,  *)
(* and no rows.                                                            *)
LEMMA InitLedgerInv == Init => LedgerInv
  <1> SUFFICES ASSUME Init PROVE LedgerInv
    OBVIOUS
  <1>1. \A doc \in LegacyDocuments : doc \in Documents /\ doc.status # "processed"
    BY LegacyAssumption
  <1>2. TypeOK
    BY <1>1 DEF Init, TypeOK, NoItems, Sources
  <1>3. ASSUME NEW i \in Ids PROVE Agree(i)
    <2>1. /\ linkedExpense[i] = NULL /\ linkedDeposits[i] = {} /\ txs[i] = {}
          /\ lineItems[i] = NoItems
          /\ src[i] = NULL \/ src[i] \in LegacyDocuments
      BY DEF Init
    <2>2. QED
      BY <2>1, <1>1, NoSourceAgrees, PendingAgrees DEF Agree
  <1>4. QED
    BY <1>2, <1>3 DEF LedgerInv

(* Requests on documents keep the invariant.                               *)
LEMMA DocumentStepKeeps ==
    ASSUME LedgerInv, NEW i \in Ids, DocumentStep(i)
    PROVE  LedgerInv'
  <1>1. today \in Dates /\ src[i] \in Sources \cup {NULL} /\ (src[i] = NULL \/ src[i] \in Sources)
    BY DEF LedgerInv, TypeOK
  <1>2. IsDocument(src[i]) => src[i] \in Documents
    BY <1>1, SourceKinds
  <1>3. ASSUME NEW form \in DocumentForms, NEW date \in OptDates, CreateDocument(i, form, date)
        PROVE  LedgerInv'
    <2> DEFINE doc == [kind |-> "document", type |-> form.type, status |-> "processed",
                       date |-> OrToday(date), amount |-> form.amount, lines |-> form.lines]
    <2>1. doc \in Documents
      BY <1>1, FormsAssumption DEF Documents, OrToday, OptDates
    <2>2. src[i] = NULL /\ SyncProcessedDocument(i, doc, {doc.date})
      BY <1>3 DEF CreateDocument, Unused
    <2> HIDE DEF doc
    <2>3. QED
      BY <2>1, <2>2, SyncDocumentKeeps
  <1>4. ASSUME NEW date \in OptDates, NEW total \in OptAmounts, NEW lines \in OptLines,
               ConfirmDocument(i, date, total, lines)
        PROVE  LedgerInv'
    <2> DEFINE doc == Processed(Edited(src[i], date, total, lines))
    <2>1. IsDocument(src[i]) /\ SyncProcessedDocument(i, doc, {doc.date})
      BY <1>4 DEF ConfirmDocument
    <2>2. doc \in Documents
      BY <1>1, <1>2, <2>1, EditedType
    <2> HIDE DEF doc
    <2>3. QED
      BY <2>1, <2>2, SyncDocumentKeeps
  <1>5. ASSUME NEW date \in OptDates, NEW total \in OptAmounts, NEW lines \in OptLines,
               UpdateProcessedDocument(i, date, total, lines)
        PROVE  LedgerInv'
    <2> DEFINE doc == Processed(Edited(src[i], date, total, lines))
    <2>1. IsDocument(src[i]) /\ SyncProcessedDocument(i, doc, {doc.date, src[i].date})
      BY <1>5 DEF UpdateProcessedDocument, IsProcessed
    <2>2. doc \in Documents
      BY <1>1, <1>2, <2>1, EditedType
    <2> HIDE DEF doc
    <2>3. QED
      BY <2>1, <2>2, SyncDocumentKeeps
  <1>6. ASSUME NEW date \in OptDates, NEW total \in OptAmounts, NEW lines \in OptLines,
               UpdatePendingDocument(i, date, total, lines)
        PROVE  LedgerInv'
    <2> DEFINE doc == Edited(src[i], date, total, lines)
    <2>1. src[i] \in Documents /\ src[i].status # "processed"
      BY <1>2, <1>6 DEF UpdatePendingDocument, IsProcessed
    <2>2. doc \in Documents /\ doc.status # "processed"
      BY <1>1, <2>1, EditedType
    <2>3. RowsAgree(doc, NULL, {}, {}, NoItems)
      BY <2>2, PendingAgrees
    <2>4. /\ Store(i, doc, NULL, {}, {})
          /\ lineItems' = [lineItems EXCEPT ![i] = NoItems]
          /\ UNCHANGED <<snap, today>>
      BY <1>6 DEF UpdatePendingDocument
    <2> HIDE DEF doc
    <2>5. QED
      BY <2>3, <2>4, StoreKeeps
  <1>7. ASSUME DeleteDocument(i) PROVE LedgerInv'
    BY <1>7, NoSourceAgrees, StoreKeeps DEF DeleteDocument
  <1>8. ASSUME NEW l \in Lines, NEW new \in Dates \cup {NULL}, NEW days,
               lineItems[i][l] # NULL,
               lineItems' = [lineItems EXCEPT ![i][l] = new],
               UNCHANGED <<src, txs, linkedExpense, linkedDeposits, today>>,
               SyncRecords(days)
        PROVE  LedgerInv'
    <2> DEFINE items == [lineItems[i] EXCEPT ![l] = new]
    <2>1. Agree(i)
      BY DEF LedgerInv
    <2>2. items \in [Lines -> Dates \cup {NULL}]
      BY <2>1 DEF Agree, RowsAgree
    <2>3. ItemsAgree(src[i], items)
      <3>1. \A m \in Lines : items[m] # NULL => lineItems[i][m] # NULL
        BY <2>1, <1>8 DEF Agree, RowsAgree
      <3>2. QED
        BY <3>1, <2>1 DEF ItemsAgree, Agree, RowsAgree
    <2>4. RowsAgree(src[i], linkedExpense[i], linkedDeposits[i], txs[i], items)
      BY <2>1, <2>2, <2>3 DEF Agree, RowsAgree
    <2>5. Store(i, src[i], linkedExpense[i], linkedDeposits[i], txs[i])
      BY <1>8 DEF Store, LedgerInv, TypeOK
    <2>6. lineItems' = [lineItems EXCEPT ![i] = items]
      BY <1>8
    <2> HIDE DEF items
    <2>7. QED
      BY <1>8, <2>4, <2>5, <2>6, StoreKeeps
  <1>9. ASSUME NEW l \in Lines, NEW date \in OptDates, UpdateDocumentItem(i, l, date)
        PROVE  LedgerInv'
    <2> DEFINE new == IF date = NULL THEN lineItems[i][l] ELSE date
    <2>1. new \in Dates \cup {NULL}
      BY DEF LedgerInv, TypeOK, OptDates
    <2>2. /\ lineItems[i][l] # NULL
          /\ lineItems' = [lineItems EXCEPT ![i][l] = new]
          /\ UNCHANGED <<src, txs, linkedExpense, linkedDeposits, today>>
          /\ SyncRecords({lineItems[i][l], new})
      BY <1>9 DEF UpdateDocumentItem
    <2> HIDE DEF new
    <2>3. QED
      BY <1>8, <2>1, <2>2
  <1>10. ASSUME NEW l \in Lines, DeleteDocumentItem(i, l) PROVE LedgerInv'
    BY <1>8, <1>10 DEF DeleteDocumentItem
  <1>11. QED
    BY <1>3, <1>4, <1>5, <1>6, <1>7, <1>9, <1>10 DEF DocumentStep

(* Requests on expenses and food cost entries keep the invariant.          *)
LEMMA ExpenseStepKeeps ==
    ASSUME LedgerInv, NEW i \in Ids, ExpenseStep(i)
    PROVE  LedgerInv'
  <1>1. today \in Dates
    BY DEF LedgerInv, TypeOK
  <1>2. ASSUME NEW kind \in {"expense", "food_cost_manual"}, NEW date \in OptDates,
               NEW amount \in Amounts, CreateExpense(i, kind, date, amount)
        PROVE  LedgerInv'
    <2> DEFINE row == [kind |-> kind, date |-> OrToday(date), amount |-> amount]
    <2>1. row \in Expenses /\ row.kind = kind
      BY <1>1 DEF Expenses, OrToday, OptDates
    <2>2. /\ src[i] = NULL
          /\ Store(i, row, NULL, {}, ExpenseTransactions(row.kind, row))
          /\ SyncRecords({row.date})
          /\ UNCHANGED <<lineItems, today>>
      BY <1>2, <2>1 DEF CreateExpense, Unused
    <2> HIDE DEF row
    <2>3. QED
      BY <2>1, <2>2, ExpenseAgrees, NotADocument, StorePlainKeeps
  <1>3. ASSUME DeleteExpense(i) PROVE LedgerInv'
    BY <1>3, NoSourceAgrees, NotADocument, StorePlainKeeps DEF DeleteExpense
  <1>4. QED
    BY <1>2, <1>3 DEF ExpenseStep

(* So do those on deposits and revenue entries.                            *)
LEMMA DepositStepKeeps ==
    ASSUME LedgerInv, NEW i \in Ids, DepositStep(i)
    PROVE  LedgerInv'
  <1>1. today \in Dates /\ src[i] \in Sources \cup {NULL}
    BY DEF LedgerInv, TypeOK
  <1>2. ASSUME NEW kind \in {"deposit", "revenue_entry"},
               NEW type \in {"bank_deposit", "cash_deposit", "cash_in"},
               NEW date \in OptDates, NEW amount \in Amounts,
               CreateDeposit(i, kind, type, date, amount)
        PROVE  LedgerInv'
    <2> DEFINE dep == [kind |-> kind, type |-> type, date |-> OrToday(date), amount |-> amount]
    <2>1. dep \in Deposits
      BY <1>1 DEF Deposits, DepositTypes, OrToday, OptDates
    <2>2. /\ src[i] = NULL
          /\ Store(i, dep, NULL, {}, CashDepositTransactions(dep))
          /\ SyncRecords({dep.date})
          /\ UNCHANGED <<lineItems, today>>
      BY <1>2 DEF CreateDeposit, Unused
    <2> HIDE DEF dep
    <2>3. QED
      BY <2>1, <2>2, DepositAgrees, NotADocument, StorePlainKeeps
  <1>3. ASSUME NEW type \in {"bank_deposit", "cash_deposit"}, NEW date \in Dates,
               NEW amount \in Amounts, UpdateCashDeposit(i, type, date, amount)
        PROVE  LedgerInv'
    <2> DEFINE dep == [src[i] EXCEPT !.type = type, !.date = date, !.amount = amount]
    <2>1. src[i] \in Deposits
      BY <1>1, <1>3, SourceKinds DEF UpdateCashDeposit
    <2>2. dep \in Deposits
      BY <2>1 DEF Deposits, DepositTypes
    <2>3. /\ IsDeposit(src[i])
          /\ Store(i, dep, NULL, {}, CashDepositTransactions(dep))
          /\ SyncRecords({src[i].date, date})
          /\ UNCHANGED <<lineItems, today>>
      BY <1>3 DEF UpdateCashDeposit
    <2> HIDE DEF dep
    <2>4. QED
      BY <2>2, <2>3, DepositAgrees, NotADocument, StorePlainKeeps
  <1>4. ASSUME DeleteCashDeposit(i) PROVE LedgerInv'
    BY <1>4, NoSourceAgrees, NotADocument, StorePlainKeeps DEF DeleteCashDeposit
  <1>5. QED
    BY <1>2, <1>3, <1>4 DEF DepositStep

(* And those on daily records.                                             *)
LEMMA RecordStepKeeps ==
    ASSUME LedgerInv, NEW i \in Ids, RecordStep(i)
    PROVE  LedgerInv'
  <1>1. ASSUME NEW method \in {"method_1", "method_2"}, NEW date \in Dates,
               NEW paid \in RecordForms,
               CreateDailyData(i, method, date, paid) \/ UpdateDailyData(i, method, date, paid)
        PROVE  LedgerInv'
    <2> DEFINE rec == [kind |-> "manual_entry", method |-> method, date |-> date, paid |-> paid]
    <2>1. rec \in DailyRecords
      BY FormsAssumption DEF DailyRecords
    <2>2. /\ IsRecord(src[i]) \/ src[i] = NULL
          /\ SyncDailyRecord(i, rec, {date}) \/ SyncDailyRecord(i, rec, {src[i].date, date})
      BY <1>1 DEF CreateDailyData, UpdateDailyData, Unused
    <2> HIDE DEF rec
    <2>3. QED
      BY <2>1, <2>2, SyncDailyRecordKeeps
  <1>2. ASSUME DeleteDailyData(i) PROVE LedgerInv'
    BY <1>2, NoSourceAgrees, NotADocument, StorePlainKeeps DEF DeleteDailyData
  <1>3. QED
    BY <1>1, <1>2 DEF RecordStep

(* And those on inventory items; a stock move never makes stock negative.  *)
LEMMA ItemStepKeeps ==
    ASSUME LedgerInv, NEW i \in Ids, ItemStep(i)
    PROVE  LedgerInv'
  <1>1. today \in Dates /\ src[i] \in Sources \cup {NULL}
    BY DEF LedgerInv, TypeOK
  <1>2. ASSUME NEW item \in InventoryItems
        PROVE  RowsAgree(item, PurchaseExpense(item), {},
                         ExpenseTransactions("expense", PurchaseExpense(item)), NoItems)
    <2>1. /\ PurchaseExpense(item) \in LinkedExpenses
          /\ PurchaseExpense(item).kind = "inventory"
          /\ item.date # NULL => PurchaseExpense(item).date = item.date
      BY <1>1 DEF PurchaseExpense, LinkedExpenses, OrToday, InventoryItems
    <2>2. QED
      BY <2>1, ItemAgrees
  <1>3. ASSUME NEW date \in OptDates, NEW qty \in Amounts, CreateInventoryItem(i, date, qty)
        PROVE  LedgerInv'
    <2> DEFINE item == [kind |-> "inventory", date |-> date, qty |-> qty]
    <2>1. item \in InventoryItems
      BY AmountsAssumption DEF InventoryItems, OptDates
    <2>2. /\ src[i] = NULL
          /\ Store(i, item, PurchaseExpense(item), {},
                   ExpenseTransactions("expense", PurchaseExpense(item)))
          /\ SyncRecords({OrToday(date)})
          /\ UNCHANGED <<lineItems, today>>
      BY <1>3 DEF CreateInventoryItem, Unused
    <2> HIDE DEF item
    <2>3. QED
      BY <1>2, <2>1, <2>2, NotADocument, StorePlainKeeps
  <1>4. ASSUME NEW date \in OptDates, NEW qty \in OptAmounts, UpdateInventoryItem(i, date, qty)
        PROVE  LedgerInv'
    <2> DEFINE item == [src[i] EXCEPT !.date = IF date = NULL THEN @ ELSE date,
                                      !.qty = IF qty = NULL THEN @ ELSE qty]
    <2>1. src[i] \in InventoryItems
      BY <1>1, <1>4, SourceKinds DEF UpdateInventoryItem
    <2>2. item \in InventoryItems
      BY <2>1, AmountsAssumption DEF InventoryItems, OptDates, OptAmounts
    <2>3. /\ IsItem(src[i])
          /\ Store(i, item, PurchaseExpense(item), {},
                   ExpenseTransactions("expense", PurchaseExpense(item)))
          /\ SyncRecords({OrToday(src[i].date), OrToday(item.date)})
          /\ UNCHANGED <<lineItems, today>>
      BY <1>4 DEF UpdateInventoryItem
    <2> HIDE DEF item
    <2>4. QED
      BY <1>2, <2>2, <2>3, NotADocument, StorePlainKeeps
  <1>5. ASSUME DeleteInventoryItem(i) PROVE LedgerInv'
    BY <1>5, NoSourceAgrees, NotADocument, StorePlainKeeps DEF DeleteInventoryItem
  <1>6. ASSUME NEW add \in Amounts, NEW remove \in Amounts, UpdateInventoryStock(i, add, remove)
        PROVE  LedgerInv'
    <2> DEFINE item == [src[i] EXCEPT !.qty = @ + add - remove]
               e == linkedExpense[i]
    <2>1. src[i] \in InventoryItems /\ IsItem(src[i]) /\ remove <= src[i].qty
      BY <1>1, <1>6, SourceKinds DEF UpdateInventoryStock
    <2>2. src[i].qty + add - remove \in Nat
      BY <2>1, AmountsAssumption DEF InventoryItems
    <2>3. item \in InventoryItems /\ item.date = src[i].date
      BY <2>1, <2>2 DEF InventoryItems
    <2>4. /\ ~IsDocument(src[i]) /\ ~IsRecord(src[i]) /\ ~IsExpense(src[i])
          /\ ~IsDeposit(src[i]) /\ src[i] # NULL
      BY <2>1, KindTests
    <2>5. Agree(i)
      BY DEF LedgerInv
    <2>6. /\ e \in LinkedExpenses /\ e.kind = "inventory"
          /\ item.date # NULL => e.date = item.date
      BY <2>1, <2>3, <2>4, <2>5 DEF Agree, RowsAgree, LinkedExpenseAgrees
    <2>7. linkedDeposits[i] = {} /\ txs[i] = ExpenseTransactions("expense", e)
      BY <2>1, <2>4, <2>5 DEF Agree, RowsAgree, LinkedDepositsOf, TransactionsAgree, TransactionsOf
    <2>8. lineItems[i] = NoItems
      BY <2>4, NoItemsElsewhere DEF IsProcessed
    <2>9. /\ Store(i, item, e, {}, ExpenseTransactions("expense", e))
          /\ UNCHANGED <<lineItems, snap, today>>
      BY <1>6, <2>7 DEF UpdateInventoryStock, Store, LedgerInv, TypeOK
    <2>10. RowsAgree(item, e, {}, ExpenseTransactions("expense", e), NoItems)
      BY <2>3, <2>6, ItemAgrees
    <2> HIDE DEF item, e
    <2>11. QED
      BY <2>8, <2>9, <2>10, StoreKeeps
  <1>7. QED
    BY <1>3, <1>4, <1>5, <1>6 DEF ItemStep

(* Deleting a day keeps the invariant: every source it takes loses all its *)
(* rows, but for the transaction of a food cost entry.                     *)
LEMMA DeleteCollectionKeeps ==
    ASSUME LedgerInv, NEW d \in Dates, DeleteCollectionByDate(d)
    PROVE  LedgerInv'
  <1> DEFINE gone == Deletable(d)
  <1>1. /\ src' = [i \in Ids |-> IF i \in gone THEN NULL ELSE src[i]]
        /\ linkedExpense' = [i \in Ids |-> IF i \in gone THEN NULL ELSE linkedExpense[i]]
        /\ linkedDeposits' = [i \in Ids |-> IF i \in gone THEN {} ELSE linkedDeposits[i]]
        /\ lineItems' = [i \in Ids |-> IF i \in gone THEN NoItems ELSE lineItems[i]]
        /\ txs' = [i \in Ids |-> IF i \in gone THEN LeftAfterDelete(i) ELSE txs[i]]
        /\ DOMAIN snap' = Periods
        /\ UNCHANGED today
    BY DEF DeleteCollectionByDate, DeleteRows, SyncRecords
  <1>2. ASSUME NEW i \in Ids
        PROVE  /\ LeftAfterDelete(i) \subseteq Transactions
               /\ \A t \in LeftAfterDelete(i) : t.kind = "food_cost_manual"
    <2>1. Agree(i)
      BY DEF LedgerInv
    <2>2. CASE ~IsExpense(src[i])
      BY <2>2 DEF LeftAfterDelete
    <2>3. CASE IsExpense(src[i])
      <3>1. src[i] \in Expenses
        BY <2>1, <2>3, SourceKinds DEF Agree, RowsAgree
      <3>2. /\ ~IsDocument(src[i]) /\ ~IsRecord(src[i]) /\ ~IsDeposit(src[i])
            /\ ~IsItem(src[i]) /\ src[i] # NULL
        BY <3>1, KindTests
      <3>3. /\ txs[i] \subseteq Transactions
            /\ txs[i] = ExpenseTransactions(src[i].kind, src[i])
        BY <2>1, <2>3, <3>2 DEF Agree, RowsAgree, TransactionsAgree, TransactionsOf
      <3>4. src[i].kind \in {"expense", "food_cost_manual"}
        BY <2>3 DEF IsExpense
      <3>5. QED
        BY <2>3, <3>3, <3>4 DEF LeftAfterDelete, ExpenseTransactions
    <2>4. QED
      BY <2>2, <2>3
  <1> HIDE DEF gone
  <1>3. TypeOK'
    BY <1>1, <1>2 DEF LedgerInv, TypeOK, NoItems
  <1>4. ASSUME NEW i \in Ids, i \notin gone PROVE Agree(i)'
    BY <1>1, <1>4 DEF LedgerInv, Agree
  <1>5. ASSUME NEW i \in Ids, i \in gone PROVE Agree(i)'
    <2>1. /\ src'[i] = NULL /\ linkedExpense'[i] = NULL /\ linkedDeposits'[i] = {}
          /\ lineItems'[i] = NoItems /\ txs'[i] = LeftAfterDelete(i)
      BY <1>1, <1>5
    <2>2. RowsAgree(NULL, NULL, {}, LeftAfterDelete(i), NoItems)
      BY <1>2, NoSourceAgrees DEF RowsAgree, TransactionsAgree
    <2>3. QED
      BY <2>1, <2>2 DEF Agree
  <1>6. QED
    BY <1>3, <1>4, <1>5 DEF LedgerInv

(* Midnight changes no row.                                                *)
LEMMA NextDayKeeps ==
    ASSUME LedgerInv, NextDay \/ UNCHANGED vars
    PROVE  LedgerInv'
  <1>1. /\ UNCHANGED <<src, txs, linkedExpense, linkedDeposits, lineItems, snap>>
        /\ today' \in Dates
    BY DEF NextDay, vars, LedgerInv, TypeOK
  <1>2. TypeOK'
    BY <1>1 DEF LedgerInv, TypeOK
  <1>3. \A i \in Ids : Agree(i)'
    BY <1>1 DEF LedgerInv, Agree
  <1>4. QED
    BY <1>2, <1>3 DEF LedgerInv

(* The ledger's inductive invariant: after any sequence of requests every  *)
(* source's transactions, linked rows and stock items agree with it.       *)
THEOREM LedgerInvariant == Spec => []LedgerInv
  <1>1. LedgerInv /\ [Next]_vars => LedgerInv'
    <2> SUFFICES ASSUME LedgerInv, [Next]_vars PROVE LedgerInv'
      OBVIOUS
    <2>1. CASE UNCHANGED vars \/ NextDay
      BY <2>1, NextDayKeeps
    <2>2. ASSUME NEW d \in Dates, DeleteCollectionByDate(d) PROVE LedgerInv'
      BY <2>2, DeleteCollectionKeeps
    <2>3. ASSUME NEW i \in Ids,
                 \/ DocumentStep(i) \/ ExpenseStep(i) \/ DepositStep(i)
                 \/ RecordStep(i) \/ ItemStep(i)
          PROVE  LedgerInv'
      BY <2>3, DocumentStepKeeps, ExpenseStepKeeps, DepositStepKeeps, RecordStepKeeps,
         ItemStepKeeps
    <2>4. QED
      BY <2>1, <2>2, <2>3 DEF Next
  <1>2. QED
    BY <1>1, InitLedgerInv, PTL DEF Spec

(* Rows have the shape the handlers give them, and stock is never negative.*)
THEOREM TypeCorrect == Spec => []TypeOK
  BY LedgerInvariant, LedgerInvImplies, PTL

(* The transactions of a source are exactly those of its current content.  *)
THEOREM TransactionsCorrect == Spec => []TransactionsFollowSources
  BY LedgerInvariant, LedgerInvImplies, PTL

(* So is its generated row in the expense list,                            *)
THEOREM LinkedExpensesCorrect == Spec => []LinkedExpensesFollowSources
  BY LedgerInvariant, LedgerInvImplies, PTL

(* and so are its generated rows in the cash list.                         *)
THEOREM LinkedDepositsCorrect == Spec => []LinkedDepositsFollowSources
  BY LedgerInvariant, LedgerInvImplies, PTL

(* Stock items never outlive the invoice line they came from.              *)
THEOREM LineItemsCorrect == Spec => []LineItemsHaveTheirLine
  BY LedgerInvariant, LedgerInvImplies, PTL

(* Together: all of a source's rows in other lists are those it asks for.  *)
THEOREM LinkedRowsCorrect == Spec => []LinkedRowsFollowSources
<1>1. /\ LinkedExpensesFollowSources
      /\ LinkedDepositsFollowSources
      /\ LineItemsHaveTheirLine
      => LinkedRowsFollowSources
  BY DEF LinkedRowsFollowSources
<1> QED
  BY <1>1, LinkedExpensesCorrect, LinkedDepositsCorrect, LineItemsCorrect, PTL

-----------------------------------------------------------------------------
(* The action properties of the ledger, for any sources and any division   *)
(* of the dates into days, weeks and months.                               *)
(*                                                                         *)
(* A period whose days a handler does not recompute keeps its snapshot, so *)
(* it stays fresh exactly if the handler changed no row of its days.  The  *)
(* rows of a source are dated like the source (Dated), an item's purchase  *)
(* row excepted, so it is enough to look at the dates a source had and     *)
(* has.                                                                    *)

(* No row of the source is in D.                                           *)
Outside(s, e, ds, ts, D) ==
    /\ ~SourceIn(s, D)
    /\ ~PurchaseIn(e, D)
    /\ \A r \in ds : r.date \notin D
    /\ \A t \in ts : t.date \notin D

OutsideNow(i, D) == Outside(src[i], linkedExpense[i], linkedDeposits[i], txs[i], D)

(* Source i has the same rows in D before and after a step.                *)
SameRows(i, D) ==
    /\ \/ src'[i] = src[i]
       \/ ~SourceIn(src[i], D) /\ ~SourceIn(src'[i], D)
    /\ \/ linkedExpense'[i] = linkedExpense[i]
       \/ ~PurchaseIn(linkedExpense[i], D) /\ ~PurchaseIn(linkedExpense'[i], D)
    /\ \/ linkedDeposits'[i] = linkedDeposits[i]
       \/ \A r \in linkedDeposits[i] \cup linkedDeposits'[i] : r.date \notin D
    /\ \/ txs'[i] = txs[i]
       \/ \A t \in txs[i] \cup txs'[i] : t.date \notin D

-----------------------------------------------------------------------------
(* A snapshot depends on the rows of its days only.                        *)
LEMMA SnapshotKept ==
    ASSUME NEW p \in Periods, \A i \in Ids : SameRows(i, DaysOf[p])
    PROVE  SnapshotOf(p, src', linkedExpense', linkedDeposits', txs')
             = SnapshotOf(p, src, linkedExpense, linkedDeposits, txs)
  <1> DEFINE D == DaysOf[p]
             rows(s) == {i \in Ids : SourceIn(s[i], D)}
             purchases(e) == {i \in Ids : PurchaseIn(e[i], D)}
             deposits(ds) == {row \in UNION {{i} \X ds[i] : i \in Ids} : row[2].date \in D}
             moves(ts) == {row \in UNION {{i} \X ts[i] : i \in Ids} : row[2].date \in D}
  <1>1. rows(src') = rows(src) /\ \A i \in rows(src) : src'[i] = src[i]
    BY DEF SameRows
  <1>2. /\ purchases(linkedExpense') = purchases(linkedExpense)
        /\ \A i \in purchases(linkedExpense) : linkedExpense'[i] = linkedExpense[i]
    BY DEF SameRows
  <1>3. deposits(linkedDeposits') = deposits(linkedDeposits)
    <2>1. ASSUME NEW i \in Ids, NEW r, r.date \in D
          PROVE  r \in linkedDeposits'[i] <=> r \in linkedDeposits[i]
      BY <2>1 DEF SameRows
    <2>2. QED
      BY <2>1
  <1>4. moves(txs') = moves(txs)
    <2>1. ASSUME NEW i \in Ids, NEW t, t.date \in D
          PROVE  t \in txs'[i] <=> t \in txs[i]
      BY <2>1 DEF SameRows
    <2>2. QED
      BY <2>1
  <1>5. /\ [i \in rows(src') |-> src'[i]] = [i \in rows(src) |-> src[i]]
        /\ [i \in purchases(linkedExpense') |-> linkedExpense'[i]]
             = [i \in purchases(linkedExpense) |-> linkedExpense[i]]
    BY <1>1, <1>2
  <1> HIDE DEF rows, purchases, deposits, moves
  <1>6. SnapshotOf(p, src, linkedExpense, linkedDeposits, txs)
          = IF rows(src) = {} /\ purchases(linkedExpense) = {} /\ deposits(linkedDeposits) = {}
            THEN NULL
            ELSE [rows |-> [i \in rows(src) |-> src[i]],
                  purchases |-> [i \in purchases(linkedExpense) |-> linkedExpense[i]],
                  deposits |-> deposits(linkedDeposits),
                  moves |-> moves(txs)]
    BY DEF SnapshotOf, rows, purchases, deposits, moves
  <1>7. SnapshotOf(p, src', linkedExpense', linkedDeposits', txs')
          = IF rows(src') = {} /\ purchases(linkedExpense') = {} /\ deposits(linkedDeposits') = {}
            THEN NULL
            ELSE [rows |-> [i \in rows(src') |-> src'[i]],
                  purchases |-> [i \in purchases(linkedExpense') |-> linkedExpense'[i]],
                  deposits |-> deposits(linkedDeposits'),
                  moves |-> moves(txs')]
    BY DEF SnapshotOf, rows, purchases, deposits, moves
  <1>8. QED
    BY <1>1, <1>2, <1>3, <1>4, <1>5, <1>6, <1>7

(* A step that recomputes the periods of `days' leaves a period fresh if   *)
(* it recomputes it or changes none of its rows.                           *)
LEMMA SyncKeepsFresh ==
    ASSUME NEW p \in Periods, NEW days, Fresh(p),
           SyncRecords(days) \/ (days = {} /\ UNCHANGED snap),
           DaysOf[p] \cap days = {} => \A i \in Ids : SameRows(i, DaysOf[p])
    PROVE  Fresh(p)'
  BY SnapshotKept DEF SyncRecords, Fresh

(* The rows of a source other than an item are dated like the source.      *)
LEMMA Dated ==
    ASSUME NEW D \in SUBSET Dates, NEW s, NEW e, NEW ds, NEW ts, NEW items,
           RowsAgree(s, e, ds, ts, items), s # NULL, ~IsItem(s), s.date \notin D
    PROVE  Outside(s, e, ds, ts, D)
  <1>1. s \in Sources \cup {NULL}
    BY DEF RowsAgree
  <1>2. CASE IsDocument(s)
    <2>1. s \in Documents
      BY <1>1, <1>2, SourceKinds
    <2>2. /\ ~IsRecord(s) /\ ~IsExpense(s) /\ ~IsDeposit(s) /\ ~IsItem(s)
      BY <2>1, KindTests
    <2>3. /\ e = DocumentLinkedExpense(s)
          /\ ds = DocumentLinkedDeposits({}, s)
          /\ ts = DocumentTransactions(s)
      BY <1>2, <2>2 DEF RowsAgree, LinkedExpenseAgrees, LinkedDepositsOf, TransactionsAgree,
                        TransactionsOf
    <2>4. ~PurchaseIn(e, D)
      BY <2>3 DEF PurchaseIn, DocumentLinkedExpense, UpsertLinkedExpense
    <2>5. \A r \in ds : r.date = s.date
      BY <2>3 DEF DocumentLinkedDeposits, UpsertLinkedDeposit
    <2>6. \A t \in ts : t.date = s.date
      BY <2>3 DEF DocumentTransactions
    <2>7. QED
      BY <2>4, <2>5, <2>6 DEF Outside, SourceIn
  <1>3. CASE IsRecord(s)
    <2>1. s \in DailyRecords
      BY <1>1, <1>3, SourceKinds
    <2>2. /\ ~IsDocument(s) /\ ~IsExpense(s) /\ ~IsDeposit(s) /\ ~IsItem(s)
      BY <2>1, KindTests
    <2>3. /\ e = RecordLinkedExpense(s)
          /\ ds = RecordLinkedDeposits({}, s)
          /\ ts = DailyRecordTransactions(s)
      BY <1>3, <2>2 DEF RowsAgree, LinkedExpenseAgrees, LinkedDepositsOf, TransactionsAgree,
                        TransactionsOf
    <2>4. ~PurchaseIn(e, D)
      BY <2>3 DEF PurchaseIn, RecordLinkedExpense, UpsertLinkedExpense
    <2>5. \A r \in ds : r.date = s.date
      BY <2>3 DEF RecordLinkedDeposits, UpsertLinkedDeposit
    <2>6. \A t \in ts : t.date = s.date
      BY <2>3 DEF DailyRecordTransactions
    <2>7. QED
      BY <2>4, <2>5, <2>6 DEF Outside, SourceIn
  <1>4. CASE IsExpense(s)
    <2>1. s \in Expenses
      BY <1>1, <1>4, SourceKinds
    <2>2. /\ ~IsDocument(s) /\ ~IsRecord(s) /\ ~IsDeposit(s) /\ ~IsItem(s)
      BY <2>1, KindTests
    <2>3. e = NULL /\ ds = {} /\ ts = ExpenseTransactions(s.kind, s)
      BY <1>4, <2>2 DEF RowsAgree, LinkedExpenseAgrees, LinkedDepositsOf, TransactionsAgree,
                        TransactionsOf
    <2>4. QED
      BY <2>3 DEF Outside, SourceIn, PurchaseIn, ExpenseTransactions
  <1>5. CASE IsDeposit(s)
    <2>1. s \in Deposits
      BY <1>1, <1>5, SourceKinds
    <2>2. /\ ~IsDocument(s) /\ ~IsRecord(s) /\ ~IsExpense(s) /\ ~IsItem(s)
      BY <2>1, KindTests
    <2>3. e = NULL /\ ds = {} /\ ts = CashDepositTransactions(s)
      BY <1>5, <2>2 DEF RowsAgree, LinkedExpenseAgrees, LinkedDepositsOf, TransactionsAgree,
                        TransactionsOf
    <2>4. QED
      BY <2>3 DEF Outside, SourceIn, PurchaseIn, CashDepositTransactions
  <1>6. QED
    BY <1>1, <1>2, <1>3, <1>4, <1>5, SourceKinds

(* An item's rows are dated like its purchase row.                         *)
LEMMA ItemDated ==
    ASSUME NEW D \in SUBSET Dates, NEW s, NEW e, NEW ds, NEW ts, NEW items,
           RowsAgree(s, e, ds, ts, items), IsItem(s), e.date \notin D
    PROVE  Outside(s, e, ds, ts, D)
  <1>1. s \in InventoryItems
    BY SourceKinds DEF RowsAgree
  <1>2. /\ ~IsDocument(s) /\ ~IsRecord(s) /\ ~IsExpense(s) /\ ~IsDeposit(s) /\ s # NULL
    BY <1>1, KindTests
  <1>3. ds = {} /\ ts = ExpenseTransactions("expense", e)
    BY <1>2 DEF RowsAgree, LinkedExpenseAgrees, LinkedDepositsOf, TransactionsAgree,
                TransactionsOf
  <1>4. QED
    BY <1>3 DEF Outside, SourceIn, PurchaseIn, ExpenseTransactions

(* An unconfirmed document has no rows, whatever its date.                 *)
LEMMA PendingOutside ==
    ASSUME NEW D \in SUBSET Dates, NEW s, NEW e, NEW ds, NEW ts, NEW items,
           RowsAgree(s, e, ds, ts, items), IsDocument(s), ~IsProcessed(s)
    PROVE  Outside(s, e, ds, ts, D)
  <1>1. s \in Documents
    BY SourceKinds DEF RowsAgree
  <1>2. /\ ~IsRecord(s) /\ ~IsExpense(s) /\ ~IsDeposit(s) /\ ~IsItem(s) /\ s # NULL
        /\ s.status # "processed"
    BY <1>1, KindTests DEF IsProcessed
  <1>3. e = NULL /\ ds = {} /\ ts = {}
    BY <1>2 DEF RowsAgree, LinkedExpenseAgrees, LinkedDepositsOf, TransactionsAgree,
                TransactionsOf, DocumentLinkedExpense, DocumentLinkedDeposits,
                DocumentTransactions
  <1>4. QED
    BY <1>3 DEF Outside, SourceIn, PurchaseIn

(* Storing rows outside D for a source that had none in D.                 *)
LEMMA StoreOutside ==
    ASSUME LedgerInv, NEW D, NEW i \in Ids, NEW s, NEW e, NEW ds, NEW ts,
           Store(i, s, e, ds, ts), OutsideNow(i, D), Outside(s, e, ds, ts, D)
    PROVE  \A j \in Ids : SameRows(j, D)
  <1>1. /\ src'[i] = s /\ linkedExpense'[i] = e /\ linkedDeposits'[i] = ds /\ txs'[i] = ts
    BY DEF Store, LedgerInv, TypeOK
  <1>2. SameRows(i, D)
    BY <1>1 DEF OutsideNow, Outside, SameRows
  <1>3. ASSUME NEW j \in Ids, j # i PROVE SameRows(j, D)
    BY <1>3 DEF Store, LedgerInv, TypeOK, SameRows
  <1>4. QED
    BY <1>2, <1>3

-----------------------------------------------------------------------------
(* The dates of the source and of an item's purchase row are not in D.     *)
DateOut(s, e, ts, D) ==
    \/ s = NULL /\ ts = {}
    \/ s # NULL /\ ~IsItem(s) /\ s.date \notin D
    \/ IsItem(s) /\ e.date \notin D
    \/ IsDocument(s) /\ ~IsProcessed(s)

DateOutNow(i, D) == DateOut(src[i], linkedExpense[i], txs[i], D)

(* Then none of its rows is.                                               *)
LEMMA DateOutside ==
    ASSUME NEW D \in SUBSET Dates, NEW s, NEW e, NEW ds, NEW ts, NEW items,
           RowsAgree(s, e, ds, ts, items), DateOut(s, e, ts, D)
    PROVE  Outside(s, e, ds, ts, D)
  <1>1. CASE s = NULL /\ ts = {}
    <2>1. /\ ~IsDocument(s) /\ ~IsRecord(s) /\ ~IsExpense(s) /\ ~IsDeposit(s) /\ ~IsItem(s)
      BY <1>1 DEF IsDocument, IsRecord, IsExpense, IsDeposit, IsItem
    <2>2. e = NULL /\ ds = {}
      BY <2>1 DEF RowsAgree, LinkedExpenseAgrees, LinkedDepositsOf
    <2>3. QED
      BY <1>1, <2>2 DEF Outside, SourceIn, PurchaseIn
  <1>2. CASE s # NULL /\ ~IsItem(s) /\ s.date \notin D
    BY <1>2, Dated
  <1>3. CASE IsItem(s) /\ e.date \notin D
    BY <1>3, ItemDated
  <1>4. CASE IsDocument(s) /\ ~IsProcessed(s)
    BY <1>4, PendingOutside
  <1>5. QED
    BY <1>1, <1>2, <1>3, <1>4 DEF DateOut

(* A handler that stores one source keeps a period fresh unless the source *)
(* had or has a date in the period that the handler does not recompute.    *)
LEMMA StoreKeepsFresh ==
    ASSUME LedgerInv, LedgerInv', NEW p \in Periods, Fresh(p),
           NEW i \in Ids, NEW s, NEW e, NEW ds, NEW ts, NEW days,
           Store(i, s, e, ds, ts), SyncRecords(days) \/ (days = {} /\ UNCHANGED snap),
           DaysOf[p] \cap days = {} =>
             DateOutNow(i, DaysOf[p]) /\ DateOut(s, e, ts, DaysOf[p])
    PROVE  Fresh(p)'
  <1>1. DaysOf[p] \in SUBSET Dates
    BY PeriodsAssumption
  <1>2. /\ src'[i] = s /\ linkedExpense'[i] = e /\ linkedDeposits'[i] = ds /\ txs'[i] = ts
    BY DEF Store, LedgerInv, TypeOK
  <1>3. RowsAgree(s, e, ds, ts, lineItems'[i])
    BY <1>2 DEF LedgerInv, Agree
  <1>4. RowsAgree(src[i], linkedExpense[i], linkedDeposits[i], txs[i], lineItems[i])
    BY DEF LedgerInv, Agree
  <1>5. ASSUME DaysOf[p] \cap days = {} PROVE \A j \in Ids : SameRows(j, DaysOf[p])
    <2>1. Outside(s, e, ds, ts, DaysOf[p])
      BY <1>1, <1>3, <1>5, DateOutside
    <2>2. OutsideNow(i, DaysOf[p])
      BY <1>1, <1>4, <1>5, DateOutside DEF OutsideNow, DateOutNow
    <2>3. QED
      BY <2>1, <2>2, StoreOutside
  <1>6. QED
    BY <1>5, SyncKeepsFresh

(* Deleting a source whose date is recomputed.                             *)
LEMMA DeleteKeepsFresh ==
    ASSUME LedgerInv, LedgerInv', NEW p \in Periods, Fresh(p),
           NEW i \in Ids, NEW days, Store(i, NULL, NULL, {}, {}), SyncRecords(days),
           src[i] # NULL,
           IsItem(src[i]) => linkedExpense[i].date \in days,
           ~IsItem(src[i]) => src[i].date \in days \/ src[i].date = NULL
    PROVE  Fresh(p)'
  <1>1. DaysOf[p] \subseteq Dates
    BY PeriodsAssumption
  <1>2. DaysOf[p] \cap days = {} => DateOutNow(i, DaysOf[p])
    BY <1>1, NullIsNoDate DEF DateOutNow, DateOut
  <1>3. DateOut(NULL, NULL, {}, DaysOf[p])
    BY DEF DateOut
  <1>4. QED
    BY <1>2, <1>3, StoreKeepsFresh

(* Storing a source other than an item, its old and its new date           *)
(* recomputed.                                                             *)
LEMMA WriteKeepsFresh ==
    ASSUME LedgerInv, LedgerInv', NEW p \in Periods, Fresh(p),
           NEW i \in Ids, NEW s, NEW e, NEW ds, NEW ts, NEW days,
           Store(i, s, e, ds, ts), SyncRecords(days),
           s # NULL, ~IsItem(s), s.date \in days,
           \/ Unused(i)
           \/ src[i] # NULL /\ ~IsItem(src[i]) /\ src[i].date \in days
           \/ src[i] # NULL /\ ~IsItem(src[i]) /\ src[i].date \notin DaysOf[p]
           \/ IsDocument(src[i]) /\ ~IsProcessed(src[i])
    PROVE  Fresh(p)'
  <1>1. DaysOf[p] \cap days = {} => DateOutNow(i, DaysOf[p])
    BY DEF DateOutNow, DateOut, Unused
  <1>2. DaysOf[p] \cap days = {} => DateOut(s, e, ts, DaysOf[p])
    BY DEF DateOut
  <1>3. QED
    BY <1>1, <1>2, StoreKeepsFresh

-----------------------------------------------------------------------------
(* Requests that leave the source rows and the snapshots alone.            *)
LEMMA UntouchedKeepsFresh ==
    ASSUME NEW p \in Periods, Fresh(p),
           UNCHANGED <<src, txs, linkedExpense, linkedDeposits>>,
           UNCHANGED snap \/ \E days : SyncRecords(days)
    PROVE  Fresh(p)'
  <1>1. SnapshotOf(p, src', linkedExpense', linkedDeposits', txs')
          = SnapshotOf(p, src, linkedExpense, linkedDeposits, txs)
    <2>1. \A i \in Ids : SameRows(i, DaysOf[p])
      BY DEF SameRows
    <2>2. QED
      BY <2>1, SnapshotKept
  <1>2. QED
    BY <1>1 DEF SyncRecords, Fresh

(* Requests on documents, but for a confirmation that moves one out of p.  *)
LEMMA DocumentStepKeepsFresh ==
    ASSUME LedgerInv, LedgerInv', NEW p \in Periods, Fresh(p), ~ConfirmMovesOutOf(p),
           NEW i \in Ids, DocumentStep(i)
    PROVE  Fresh(p)'
  <1>1. /\ today \in Dates /\ src[i] \in Sources \cup {NULL}
        /\ DaysOf[p] \subseteq Dates
    BY PeriodsAssumption DEF LedgerInv, TypeOK
  <1>2. IsDocument(src[i]) => src[i] \in Documents /\ ~IsItem(src[i]) /\ src[i] # NULL
    BY <1>1, SourceKinds, KindTests
  <1>3. ASSUME NEW doc \in Documents PROVE doc # NULL /\ ~IsItem(doc) /\ IsDocument(doc)
    BY KindTests
  <1>4. ASSUME NEW form \in DocumentForms, NEW date \in OptDates, CreateDocument(i, form, date)
        PROVE  Fresh(p)'
    <2> DEFINE doc == [kind |-> "document", type |-> form.type, status |-> "processed",
                       date |-> OrToday(date), amount |-> form.amount, lines |-> form.lines]
    <2>1. doc \in Documents
      BY <1>1, FormsAssumption DEF Documents, OrToday, OptDates
    <2>2. Unused(i) /\ SyncProcessedDocument(i, doc, {doc.date})
      BY <1>4 DEF CreateDocument
    <2> HIDE DEF doc
    <2>3. QED
      BY <1>3, <2>1, <2>2, WriteKeepsFresh DEF SyncProcessedDocument
  <1>5. ASSUME NEW date \in OptDates, NEW total \in OptAmounts, NEW lines \in OptLines,
               ConfirmDocument(i, date, total, lines)
        PROVE  Fresh(p)'
    <2> DEFINE doc == Processed(Edited(src[i], date, total, lines))
    <2>1. IsDocument(src[i]) /\ SyncProcessedDocument(i, doc, {doc.date})
      BY <1>5 DEF ConfirmDocument
    <2>2. doc \in Documents
      BY <1>1, <1>2, <2>1, EditedType
    <2>3. src'[i] = doc
      BY <2>1 DEF SyncProcessedDocument, Store, LedgerInv, TypeOK
    <2>4. doc.status = "processed"
      <3>1. Edited(src[i], date, total, lines) \in Documents
        BY <1>1, <1>2, <2>1, EditedType
      <3>2. QED
        BY <3>1 DEF Processed, Documents
    <2> HIDE DEF doc
    <2>5. CASE ~IsProcessed(src[i]) \/ src[i].date \notin DaysOf[p]
      BY <1>2, <1>3, <2>1, <2>2, <2>5, WriteKeepsFresh DEF SyncProcessedDocument
    <2>6. CASE IsProcessed(src[i]) /\ src[i].date \in DaysOf[p]
      <3>1. IsProcessed(src'[i])
        BY <1>3, <2>2, <2>3, <2>4 DEF IsProcessed
      <3>2. \E dt \in OptDates, tt \in OptAmounts, ls \in OptLines : ConfirmDocument(i, dt, tt, ls)
        BY <1>5
      <3>3. src'[i].date \in DaysOf[p]
        BY <2>6, <3>1, <3>2 DEF ConfirmMovesOutOf
      <3>4. doc.date \in DaysOf[p] /\ SyncRecords({doc.date})
        BY <2>1, <2>3, <3>3 DEF SyncProcessedDocument
      <3>5. QED
        BY <3>4, SyncKeepsFresh
    <2>7. QED
      BY <2>5, <2>6
  <1>6. ASSUME NEW date \in OptDates, NEW total \in OptAmounts, NEW lines \in OptLines,
               UpdateProcessedDocument(i, date, total, lines)
        PROVE  Fresh(p)'
    <2> DEFINE doc == Processed(Edited(src[i], date, total, lines))
    <2>1. IsDocument(src[i]) /\ SyncProcessedDocument(i, doc, {doc.date, src[i].date})
      BY <1>6 DEF UpdateProcessedDocument, IsProcessed
    <2>2. doc \in Documents
      BY <1>1, <1>2, <2>1, EditedType
    <2> HIDE DEF doc
    <2>3. QED
      BY <1>2, <1>3, <2>1, <2>2, WriteKeepsFresh DEF SyncProcessedDocument
  <1>7. ASSUME NEW date \in OptDates, NEW total \in OptAmounts, NEW lines \in OptLines,
               UpdatePendingDocument(i, date, total, lines)
        PROVE  Fresh(p)'
    <2> DEFINE doc == Edited(src[i], date, total, lines)
    <2>1. IsDocument(src[i]) /\ src[i] \in Documents /\ ~IsProcessed(src[i])
      BY <1>2, <1>7 DEF UpdatePendingDocument
    <2>2. doc \in Documents /\ doc.status = src[i].status
      BY <1>1, <2>1, EditedType
    <2>3. IsDocument(doc) /\ ~IsProcessed(doc)
      BY <1>3, <2>1, <2>2 DEF IsProcessed
    <2>4. Store(i, doc, NULL, {}, {}) /\ UNCHANGED snap
      BY <1>7 DEF UpdatePendingDocument
    <2>5. DateOutNow(i, DaysOf[p]) /\ DateOut(doc, NULL, {}, DaysOf[p])
      BY <2>1, <2>3 DEF DateOut, DateOutNow
    <2> HIDE DEF doc
    <2>6. QED
      BY <2>4, <2>5, StoreKeepsFresh
  <1>8. ASSUME DeleteDocument(i) PROVE Fresh(p)'
    BY <1>2, <1>8, DeleteKeepsFresh DEF DeleteDocument
  <1>9. ASSUME NEW l \in Lines, NEW date \in OptDates, UpdateDocumentItem(i, l, date)
        PROVE  Fresh(p)'
    BY <1>9, UntouchedKeepsFresh DEF UpdateDocumentItem
  <1>10. ASSUME NEW l \in Lines, DeleteDocumentItem(i, l) PROVE Fresh(p)'
    BY <1>10, UntouchedKeepsFresh DEF DeleteDocumentItem
  <1>11. QED
    BY <1>4, <1>5, <1>6, <1>7, <1>8, <1>9, <1>10 DEF DocumentStep

(* Requests on expenses, deposits and daily records always recompute the   *)
(* old and the new date.                                                   *)
LEMMA PlainStepKeepsFresh ==
    ASSUME LedgerInv, LedgerInv', NEW p \in Periods, Fresh(p),
           NEW i \in Ids, ExpenseStep(i) \/ DepositStep(i) \/ RecordStep(i)
    PROVE  Fresh(p)'
  <1>1. ASSUME IsExpense(src[i]) \/ IsDeposit(src[i]) \/ IsRecord(src[i])
        PROVE  src[i] # NULL /\ ~IsItem(src[i])
    BY <1>1 DEF IsExpense, IsDeposit, IsRecord, IsItem
  <1>2. ASSUME NEW kind \in {"expense", "food_cost_manual"}, NEW date \in OptDates,
               NEW amount \in Amounts, CreateExpense(i, kind, date, amount)
        PROVE  Fresh(p)'
    <2> DEFINE row == [kind |-> kind, date |-> OrToday(date), amount |-> amount]
    <2>1. row # NULL /\ ~IsItem(row)
      <3>1. row \in Expenses
        BY DEF Expenses, OrToday, OptDates, LedgerInv, TypeOK
      <3>2. QED
        BY <3>1, KindTests
    <2>2. /\ Unused(i)
          /\ Store(i, row, NULL, {}, ExpenseTransactions(kind, row))
          /\ SyncRecords({row.date})
      BY <1>2 DEF CreateExpense
    <2> HIDE DEF row
    <2>3. QED
      BY <2>1, <2>2, WriteKeepsFresh
  <1>3. ASSUME DeleteExpense(i) \/ DeleteCashDeposit(i) \/ DeleteDailyData(i)
        PROVE  Fresh(p)'
    BY <1>1, <1>3, DeleteKeepsFresh DEF DeleteExpense, DeleteCashDeposit, DeleteDailyData
  <1>4. ASSUME NEW kind \in {"deposit", "revenue_entry"},
               NEW type \in {"bank_deposit", "cash_deposit", "cash_in"},
               NEW date \in OptDates, NEW amount \in Amounts,
               CreateDeposit(i, kind, type, date, amount)
        PROVE  Fresh(p)'
    <2> DEFINE dep == [kind |-> kind, type |-> type, date |-> OrToday(date), amount |-> amount]
    <2>1. dep # NULL /\ ~IsItem(dep)
      <3>1. dep \in Deposits
        BY DEF Deposits, DepositTypes, OrToday, OptDates, LedgerInv, TypeOK
      <3>2. QED
        BY <3>1, KindTests
    <2>2. /\ Unused(i)
          /\ Store(i, dep, NULL, {}, CashDepositTransactions(dep))
          /\ SyncRecords({dep.date})
      BY <1>4 DEF CreateDeposit
    <2> HIDE DEF dep
    <2>3. QED
      BY <2>1, <2>2, WriteKeepsFresh
  <1>5. ASSUME NEW type \in {"bank_deposit", "cash_deposit"}, NEW date \in Dates,
               NEW amount \in Amounts, UpdateCashDeposit(i, type, date, amount)
        PROVE  Fresh(p)'
    <2> DEFINE dep == [src[i] EXCEPT !.type = type, !.date = date, !.amount = amount]
    <2>1. src[i] \in Deposits
      BY <1>5, SourceKinds DEF UpdateCashDeposit, LedgerInv, TypeOK
    <2>2. dep \in Deposits /\ dep.date = date
      BY <2>1 DEF Deposits, DepositTypes
    <2>3. dep # NULL /\ ~IsItem(dep)
      BY <2>2, KindTests
    <2>4. /\ src[i] # NULL /\ ~IsItem(src[i])
          /\ Store(i, dep, NULL, {}, CashDepositTransactions(dep))
          /\ SyncRecords({src[i].date, date})
      BY <1>1, <1>5 DEF UpdateCashDeposit
    <2> HIDE DEF dep
    <2>5. QED
      BY <2>2, <2>3, <2>4, WriteKeepsFresh
  <1>6. ASSUME NEW method \in {"method_1", "method_2"}, NEW date \in Dates,
               NEW paid \in RecordForms,
               CreateDailyData(i, method, date, paid) \/ UpdateDailyData(i, method, date, paid)
        PROVE  Fresh(p)'
    <2> DEFINE rec == [kind |-> "manual_entry", method |-> method, date |-> date, paid |-> paid]
    <2>1. rec # NULL /\ ~IsItem(rec) /\ rec.date = date
      <3>1. rec \in DailyRecords
        BY FormsAssumption DEF DailyRecords
      <3>2. QED
        BY <3>1, KindTests
    <2>2. \/ Unused(i) /\ SyncDailyRecord(i, rec, {date})
          \/ /\ src[i] # NULL /\ ~IsItem(src[i])
             /\ SyncDailyRecord(i, rec, {src[i].date, date})
      BY <1>1, <1>6 DEF CreateDailyData, UpdateDailyData
    <2> HIDE DEF rec
    <2>3. CASE Unused(i) /\ SyncDailyRecord(i, rec, {date})
      BY <2>1, <2>3, WriteKeepsFresh DEF SyncDailyRecord
    <2>4. CASE /\ src[i] # NULL /\ ~IsItem(src[i])
               /\ SyncDailyRecord(i, rec, {src[i].date, date})
      BY <2>1, <2>4, WriteKeepsFresh DEF SyncDailyRecord
    <2>5. QED
      BY <2>2, <2>3, <2>4
  <1>7. QED
    BY <1>2, <1>3, <1>4, <1>5, <1>6 DEF ExpenseStep, DepositStep, RecordStep

(* Requests on inventory items, but for the edit of an undated item that   *)
(* moves its purchase row out of p.                                        *)
LEMMA ItemStepKeepsFresh ==
    ASSUME LedgerInv, LedgerInv', NEW p \in Periods, Fresh(p), ~UndatedEditMovesOutOf(p),
           NEW i \in Ids, ItemStep(i)
    PROVE  Fresh(p)'
  <1>1. DaysOf[p] \subseteq Dates /\ today \in Dates /\ src[i] \in Sources \cup {NULL}
    BY PeriodsAssumption DEF LedgerInv, TypeOK
  <1>2. ASSUME NEW date \in OptDates, NEW qty \in Amounts, CreateInventoryItem(i, date, qty)
        PROVE  Fresh(p)'
    <2> DEFINE item == [kind |-> "inventory", date |-> date, qty |-> qty]
    <2>1. item \in InventoryItems /\ item.date = date
      BY AmountsAssumption DEF InventoryItems, OptDates
    <2>2. IsItem(item)
      BY <2>1, KindTests
    <2>3. /\ Unused(i)
          /\ Store(i, item, PurchaseExpense(item), {},
                   ExpenseTransactions("expense", PurchaseExpense(item)))
          /\ SyncRecords({OrToday(date)})
      BY <1>2 DEF CreateInventoryItem
    <2>4. PurchaseExpense(item).date = OrToday(date)
      BY <2>1 DEF PurchaseExpense
    <2> HIDE DEF item
    <2>5. DaysOf[p] \cap {OrToday(date)} = {} =>
            /\ DateOutNow(i, DaysOf[p])
            /\ DateOut(item, PurchaseExpense(item),
                       ExpenseTransactions("expense", PurchaseExpense(item)), DaysOf[p])
      BY <2>2, <2>3, <2>4 DEF DateOutNow, DateOut, Unused
    <2>6. QED
      BY <2>3, <2>5, StoreKeepsFresh
  <1>3. ASSUME NEW date \in OptDates, NEW qty \in OptAmounts, UpdateInventoryItem(i, date, qty)
        PROVE  Fresh(p)'
    <2> DEFINE item == [src[i] EXCEPT !.date = IF date = NULL THEN @ ELSE date,
                                      !.qty = IF qty = NULL THEN @ ELSE qty]
               days == {OrToday(src[i].date), OrToday(item.date)}
    <2>1. IsItem(src[i]) /\ src[i] \in InventoryItems
      BY <1>1, <1>3, SourceKinds DEF UpdateInventoryItem
    <2>2. item \in InventoryItems
      BY <2>1, AmountsAssumption DEF InventoryItems, OptDates, OptAmounts
    <2>3. IsItem(item)
      BY <2>2, KindTests
    <2>4. /\ Store(i, item, PurchaseExpense(item), {},
                   ExpenseTransactions("expense", PurchaseExpense(item)))
          /\ SyncRecords(days)
      BY <1>3 DEF UpdateInventoryItem
    <2>5. PurchaseExpense(item).date = OrToday(item.date)
      BY DEF PurchaseExpense
    <2>6. /\ src'[i] = item /\ linkedExpense'[i] = PurchaseExpense(item)
      BY <2>4 DEF Store, LedgerInv, TypeOK
    <2>7. src[i].date # NULL => linkedExpense[i].date = OrToday(src[i].date)
      <3>1. ~IsDocument(src[i]) /\ ~IsRecord(src[i])
        BY <2>1, KindTests
      <3>2. LinkedExpenseAgrees(src[i], linkedExpense[i])
        BY DEF LedgerInv, Agree, RowsAgree
      <3>3. QED
        BY <2>1, <3>1, <3>2 DEF LinkedExpenseAgrees, OrToday
    <2> HIDE DEF item
    <2>8. DaysOf[p] \cap days = {} => linkedExpense[i].date \notin DaysOf[p]
      BY <2>1, <2>3, <2>5, <2>6, <2>7 DEF UndatedEditMovesOutOf
    <2>9. DaysOf[p] \cap days = {} =>
            /\ DateOutNow(i, DaysOf[p])
            /\ DateOut(item, PurchaseExpense(item),
                       ExpenseTransactions("expense", PurchaseExpense(item)), DaysOf[p])
      BY <2>1, <2>3, <2>5, <2>8 DEF DateOutNow, DateOut
    <2> HIDE DEF days
    <2>10. QED
      BY <2>4, <2>9, StoreKeepsFresh
  <1>4. ASSUME DeleteInventoryItem(i) PROVE Fresh(p)'
    BY <1>4, DeleteKeepsFresh DEF DeleteInventoryItem, IsItem
  <1>5. ASSUME NEW add \in Amounts, NEW remove \in Amounts, UpdateInventoryStock(i, add, remove)
        PROVE  Fresh(p)'
    <2>1. IsItem(src[i]) /\ src[i] \in InventoryItems
      BY <1>1, <1>5, SourceKinds DEF UpdateInventoryStock
    <2>2. /\ src' = [src EXCEPT ![i].qty = src[i].qty + add - remove]
          /\ UNCHANGED <<txs, linkedExpense, linkedDeposits, snap>>
      BY <1>5 DEF UpdateInventoryStock
    <2>3. IsItem(src'[i])
      <3>1. src[i].qty + add - remove \in Nat
        BY <1>5, <2>1, AmountsAssumption DEF UpdateInventoryStock, InventoryItems
      <3>2. src'[i] = [src[i] EXCEPT !.qty = src[i].qty + add - remove]
        BY <2>2 DEF LedgerInv, TypeOK
      <3>3. src'[i] \in InventoryItems
        BY <2>1, <3>1, <3>2 DEF InventoryItems
      <3>4. QED
        BY <3>3, KindTests
    <2>4. \A j \in Ids : SameRows(j, DaysOf[p])
      BY <2>1, <2>2, <2>3 DEF SameRows, SourceIn, LedgerInv, TypeOK
    <2>5. QED
      BY <2>2, <2>4, SnapshotKept DEF Fresh
  <1>6. QED
    BY <1>2, <1>3, <1>4, <1>5 DEF ItemStep

(* Deleting a day recomputes it: what it removes is dated that day, and    *)
(* what it forgets was.                                                    *)
LEMMA DeleteCollectionKeepsFresh ==
    ASSUME LedgerInv, LedgerInv', NEW p \in Periods, Fresh(p),
           NEW d \in Dates, DeleteCollectionByDate(d)
    PROVE  Fresh(p)'
  <1> DEFINE gone == Deletable(d)
             days == {d} \cup {OrToday(src[i].date) : i \in {j \in gone : IsItem(src[j])}}
             D == DaysOf[p]
  <1>1. D \in SUBSET Dates
    BY PeriodsAssumption
  <1>2. /\ src' = [i \in Ids |-> IF i \in gone THEN NULL ELSE src[i]]
        /\ linkedExpense' = [i \in Ids |-> IF i \in gone THEN NULL ELSE linkedExpense[i]]
        /\ linkedDeposits' = [i \in Ids |-> IF i \in gone THEN {} ELSE linkedDeposits[i]]
        /\ txs' = [i \in Ids |-> IF i \in gone THEN LeftAfterDelete(i) ELSE txs[i]]
        /\ SyncRecords(days)
    BY DEF DeleteCollectionByDate, DeleteRows
  <1>3. ASSUME D \cap days = {}, NEW i \in Ids PROVE SameRows(i, D)
    <2>1. d \notin D
      BY <1>3
    <2>2. CASE i \notin gone
      BY <1>2, <2>2 DEF SameRows
    <2>3. CASE i \in gone
      <3>1. DateOutNow(i, D)
        BY <2>1, <2>3 DEF Deletable, DateOutNow, DateOut, IsRecord, IsProcessed, IsDocument,
                          IsExpense, IsItem
      <3>2. OutsideNow(i, D)
        BY <1>1, <3>1, DateOutside DEF OutsideNow, DateOutNow, LedgerInv, Agree
      <3>3. LeftAfterDelete(i) \subseteq txs[i]
        BY DEF LeftAfterDelete
      <3>4. /\ src'[i] = NULL /\ linkedExpense'[i] = NULL /\ linkedDeposits'[i] = {}
            /\ txs'[i] \subseteq txs[i]
        BY <1>2, <2>3, <3>3
      <3>5. QED
        BY <3>2, <3>4 DEF OutsideNow, Outside, SameRows, SourceIn, PurchaseIn
    <2>4. QED
      BY <2>2, <2>3
  <1> HIDE DEF gone, days
  <1>4. QED
    BY <1>2, <1>3, SyncKeepsFresh

-----------------------------------------------------------------------------
(* A fresh day, week or month becomes stale only when a confirmation moves *)
(* a processed document out of it or an edit of an undated item moves its  *)
(* purchase row out of it.                                                 *)
THEOREM OnlyMovesLeaveStale == Spec => OnlyMovesLeaveStaleSnapshots
  <1>1. LedgerInv /\ LedgerInv' /\ [Next]_vars =>
          [\A p \in Periods :
             Fresh(p) /\ ~Fresh(p)' => ConfirmMovesOutOf(p) \/ UndatedEditMovesOutOf(p)]_vars
    <2> SUFFICES ASSUME LedgerInv, LedgerInv', Next, NEW p \in Periods, Fresh(p),
                        ~ConfirmMovesOutOf(p), ~UndatedEditMovesOutOf(p)
                 PROVE  Fresh(p)'
      OBVIOUS
    <2>1. ASSUME NEW i \in Ids,
                 \/ DocumentStep(i) \/ ExpenseStep(i) \/ DepositStep(i)
                 \/ RecordStep(i) \/ ItemStep(i)
          PROVE  Fresh(p)'
      BY <2>1, DocumentStepKeepsFresh, PlainStepKeepsFresh, ItemStepKeepsFresh
    <2>2. ASSUME NEW d \in Dates, DeleteCollectionByDate(d) PROVE Fresh(p)'
      BY <2>2, DeleteCollectionKeepsFresh
    <2>3. ASSUME NextDay PROVE Fresh(p)'
      BY <2>3, UntouchedKeepsFresh DEF NextDay
    <2>4. QED
      BY <2>1, <2>2, <2>3 DEF Next
  <1>2. QED
    BY <1>1, LedgerInvariant, PTL DEF Spec, OnlyMovesLeaveStaleSnapshots

(* A request writes only snapshots that are right: whatever snapshot it    *)
(* changes is fresh afterwards.                                            *)
THEOREM RewrittenAreFresh == Spec => RewrittenSnapshotsAreFresh
  <1>1. ASSUME Next PROVE UNCHANGED snap \/ \E days : SyncRecords(days)
    <2>1. ASSUME NEW i \in Ids, DocumentStep(i)
          PROVE  UNCHANGED snap \/ \E days : SyncRecords(days)
      BY <2>1, ZenonT(30) DEF DocumentStep, CreateDocument, ConfirmDocument, UpdateProcessedDocument,
                  UpdatePendingDocument, DeleteDocument, UpdateDocumentItem,
                  DeleteDocumentItem, SyncProcessedDocument
    <2>2. ASSUME NEW i \in Ids, ExpenseStep(i)
          PROVE  \E days : SyncRecords(days)
      BY <2>2 DEF ExpenseStep, CreateExpense, DeleteExpense
    <2>3. ASSUME NEW i \in Ids, DepositStep(i)
          PROVE  \E days : SyncRecords(days)
      BY <2>3 DEF DepositStep, CreateDeposit, UpdateCashDeposit, DeleteCashDeposit
    <2>4. ASSUME NEW i \in Ids, RecordStep(i)
          PROVE  \E days : SyncRecords(days)
      BY <2>4 DEF RecordStep, CreateDailyData, UpdateDailyData, DeleteDailyData,
                  SyncDailyRecord
    <2>5. ASSUME NEW i \in Ids, ItemStep(i)
          PROVE  UNCHANGED snap \/ \E days : SyncRecords(days)
      BY <2>5 DEF ItemStep, CreateInventoryItem, UpdateInventoryItem, DeleteInventoryItem,
                  UpdateInventoryStock
    <2>6. QED
      BY <1>1, <2>1, <2>2, <2>3, <2>4, <2>5 DEF Next, DeleteCollectionByDate, DeleteRows, NextDay
  <1>2. [Next]_vars => [\A p \in Periods : snap'[p] # snap[p] => Fresh(p)']_vars
    <2>1. ASSUME NEW days, SyncRecords(days), NEW p \in Periods, snap'[p] # snap[p]
          PROVE  Fresh(p)'
      BY <2>1 DEF SyncRecords, Fresh
    <2>2. QED
      BY <1>1, <2>1
  <1>3. QED
    BY <1>2, PTL DEF Spec, RewrittenSnapshotsAreFresh
=============================================================================
