------------------------- MODULE FinanceLedgerProps -------------------------
(***************************************************************************)
(* What the ledger of one tenant must satisfy when its requests are served *)
(* one after the other.                                                    *)
(***************************************************************************)
EXTENDS FinanceLedger

(* Every row has the shape the handlers give it, and a stock quantity      *)
(* never goes below zero (update_inventory_stock's check).                 *)
TypeOK ==
    /\ src \in [Ids -> Sources \cup {NULL}]
    /\ txs \in [Ids -> SUBSET Transactions]
    /\ linkedExpense \in [Ids -> LinkedExpenses \cup {NULL}]
    /\ linkedDeposits \in [Ids -> SUBSET LinkedDeposits]
    /\ lineItems \in [Ids -> [Lines -> Dates \cup {NULL}]]
    /\ DOMAIN snap = Periods
    /\ today \in Dates

-----------------------------------------------------------------------------
(* The transactions a source must have: those its current content builds,  *)
(* except that the purchase row of an inventory item is what its           *)
(* transaction mirrors.                                                    *)
TransactionsOf(s, e) ==
    CASE IsDocument(s) -> DocumentTransactions(s)
      [] IsRecord(s) -> DailyRecordTransactions(s)
      [] IsExpense(s) -> ExpenseTransactions(s.kind, s)
      [] IsDeposit(s) -> CashDepositTransactions(s)
      [] IsItem(s) -> ExpenseTransactions("expense", e)
      [] OTHER -> {}

(* The transactions ts are those of s, or s is gone and ts is what         *)
(* delete-by-date forgets of a food cost entry.                            *)
TransactionsAgree(s, e, ts) ==
    \/ ts = TransactionsOf(s, e)
    \/ s = NULL /\ \A t \in ts : t.kind = "food_cost_manual"

(* After any sequence of creations, edits, method switches, confirmations  *)
(* and deletions, the transactions of every existing source are exactly    *)
(* those of its current content, and a source that is gone has left none   *)
(* but those of a food cost entry.                                         *)
TransactionsFollowSources ==
    \A i \in Ids : TransactionsAgree(src[i], linkedExpense[i], txs[i])

(* The generated row e of the expense list is the one the content of s     *)
(* asks for: one of the right day and amount for an expense document or a  *)
(* daily record with cash expenses, the purchase row for an item (dated by *)
(* the item when it is dated; its amount follows the item's edits only).   *)
LinkedExpenseAgrees(s, e) ==
    CASE IsDocument(s) -> e = DocumentLinkedExpense(s)
      [] IsRecord(s) -> e = RecordLinkedExpense(s)
      [] IsItem(s) -> /\ e # NULL
                      /\ e.kind = "inventory"
                      /\ s.date # NULL => e.date = s.date
      [] OTHER -> e = NULL

(* After any sequence of requests the expense list holds exactly the       *)
(* generated rows the sources ask for: one left behind would be counted as *)
(* money spent.                                                            *)
LinkedExpensesFollowSources ==
    \A i \in Ids : LinkedExpenseAgrees(src[i], linkedExpense[i])

(* The rows a source must have in the cash list.                           *)
LinkedDepositsOf(s) ==
    CASE IsDocument(s) -> DocumentLinkedDeposits({}, s)
      [] IsRecord(s) -> RecordLinkedDeposits({}, s)
      [] OTHER -> {}

(* The generated rows of the cash list are those of the source's current   *)
(* content alone: no row of the other entry method survives a switch, no   *)
(* row of an amount now zero, none of a source that is gone.               *)
LinkedDepositsFollowSources ==
    \A i \in Ids : linkedDeposits[i] = LinkedDepositsOf(src[i])

(* The stock items of source s are of stockable lines it has.              *)
ItemsAgree(s, items) ==
    \A l \in Lines :
       items[l] # NULL => IsProcessed(s) /\ s.type = "expense" /\ l \in s.lines

(* Stock items exist only for stockable lines of a processed expense       *)
(* document that still exists: none survives its invoice, nor a line an    *)
(* edit removed.                                                           *)
LineItemsHaveTheirLine == \A i \in Ids : ItemsAgree(src[i], lineItems[i])

(* Whatever path a source took through creations, method switches, edits   *)
(* and deletions, what it has in the other lists is what it asks for.      *)
LinkedRowsFollowSources ==
    LinkedExpensesFollowSources /\ LinkedDepositsFollowSources /\ LineItemsHaveTheirLine

-----------------------------------------------------------------------------
(* A snapshot is fresh when it is what recomputing it now would store.     *)
Fresh(p) == snap[p] = SnapshotOf(p, src, linkedExpense, linkedDeposits, txs)

(* A confirmation moves a processed document out of period p.              *)
ConfirmMovesOutOf(p) ==
    \E i \in Ids :
       /\ IsProcessed(src[i]) /\ src[i].date \in DaysOf[p]
       /\ IsProcessed(src'[i]) /\ src'[i].date \notin DaysOf[p]
       /\ \E date \in OptDates, total \in OptAmounts, lines \in OptLines :
             ConfirmDocument(i, date, total, lines)

(* An edit of an item stored without a purchase date moves its purchase    *)
(* row from the day of its last edit, in p, to another day.                *)
UndatedEditMovesOutOf(p) ==
    \E i \in Ids :
       /\ IsItem(src[i]) /\ IsItem(src'[i])
       /\ src[i].date = NULL
       /\ linkedExpense[i].date \in DaysOf[p]
       /\ linkedExpense'[i].date \notin DaysOf[p]

(* These two are the only ways a fresh day, week or month becomes stale:   *)
(* every other handler recomputes each period it changed a row of, the old *)
(* date of a moved row included.                                           *)
OnlyMovesLeaveStaleSnapshots ==
    [][\A p \in Periods :
          Fresh(p) /\ ~Fresh(p)' => ConfirmMovesOutOf(p) \/ UndatedEditMovesOutOf(p)]_vars

(* A stale snapshot is never made by the request that writes it: whenever  *)
(* a snapshot changes it is fresh, so a stale one is repaired by the next  *)
(* request on any date of its period.                                      *)
RewrittenSnapshotsAreFresh ==
    [][\A p \in Periods : snap'[p] # snap[p] => Fresh(p)']_vars
=============================================================================
