------------------------------ MODULE Inventory ------------------------------
(***************************************************************************)
(* The items of a restaurant's inventory, with the requests that add,      *)
(* edit, restock, use up and delete them.  Each item has a linked expense, *)
(* what the stock cost (every unit costs one here).  Stock is checked and  *)
(* computed from an item read earlier and written back whole.              *)
(*                                                                         *)
(* The transactions of the expense and the snapshots of its day are those  *)
(* of FinanceLedger and DepositRequests and left out here.                 *)
(***************************************************************************)
EXTENDS TenantNames, Notices

CONSTANTS
    Forms,      \* what create_inventory_item may be given: [stock_quantity, alert_threshold, category, supplier_name]
    Edits,      \* what update_inventory_item may be given: some of these fields
    Quantities, \* stock added or removed, 0 for none
    MaxItems,   \* bound: items created
    MaxStock    \* bound: the stock of an item

StockStatuses == {"out_of_stock", "low_stock", "in_stock"}
Fields ==
    [stock_quantity |-> 0 .. MaxStock, alert_threshold |-> Nat,
     category |-> Typed, supplier_name |-> Typed \cup {NULL}]
Items ==
    [stock_quantity : 0 .. MaxStock, alert_threshold : Nat, category : Typed, supplier_name : Typed \cup {NULL},
     stock_status : StockStatuses, history : Seq(Int)]

ASSUME ItemsAssumption ==
    /\ \A form \in Forms : DOMAIN form = DOMAIN Fields /\ \A f \in DOMAIN form : form[f] \in Fields[f]
    /\ \A edit \in Edits : DOMAIN edit \subseteq DOMAIN Fields /\ \A f \in DOMAIN edit : edit[f] \in Fields[f]
    /\ Quantities \subseteq Nat /\ MaxStock \in Nat
    /\ NULL \notin Items

VARIABLES
    items,      \* restaurant_inventory_items, in order of creation; NULL once deleted
    expenses    \* of each item, the amounts of its linked expenses

inventoryVars == <<items, expenses>>

InventoryInit ==
    /\ items = <<>>
    /\ expenses = <<>>

Kept == {i \in DOMAIN items : items[i] # NULL}

(* _resolve_stock_status.                                                  *)
StockStatus(stock, threshold) ==
    IF stock <= 0 THEN "out_of_stock" ELSE IF stock <= threshold THEN "low_stock" ELSE "in_stock"

Entries(added, removed) ==
    (IF added = 0 THEN <<>> ELSE <<added>>) \o (IF removed = 0 THEN <<>> ELSE <<-removed>>)

-----------------------------------------------------------------------------
(* create_inventory_item: names, item, expense, pushes.                    *)

BeginCreateItem(r, form) ==
    /\ Len(items) < MaxItems
    /\ Begin(r, [pc |-> "find_name", todo |-> NamesGiven(form.category, form.supplier_name),
                 next |-> "insert_item", form |-> form, user |-> user])
    /\ UNCHANGED inventoryVars

Item(form) ==
    With(form, [stock_status |-> StockStatus(form.stock_quantity, form.alert_threshold),
                history |-> Entries(form.stock_quantity, 0)])

InsertItem(r) ==
    /\ At(r, "insert_item")
    /\ items' = Append(items, Item(req[r].form))
    /\ expenses' = Append(expenses, <<>>)
    /\ Keep(r, [pc |-> "find_expense", id |-> Len(items'), amount |-> req[r].form.stock_quantity,
                after |-> "push_item", status |-> Item(req[r].form).stock_status, user |-> req[r].user])

(* _upsert_inventory_linked_expense: find_one,                             *)
FindExpense(r) ==
    LET next == IF expenses[req[r].id] = <<>> THEN "insert_expense" ELSE "update_expense" IN
    /\ At(r, "find_expense")
    /\ Goto(r, next)
    /\ UNCHANGED inventoryVars

(* then insert_one,                                                        *)
InsertExpense(r) ==
    /\ At(r, "insert_expense")
    /\ expenses' = [expenses EXCEPT ![req[r].id] = Append(@, req[r].amount)]
    /\ Goto(r, req[r].after)
    /\ UNCHANGED items

(* or find_one_and_update; an expense that is gone is an error.            *)
UpdateExpense(r) ==
    LET i == req[r].id IN
    /\ At(r, "update_expense")
    /\ IF expenses[i] = <<>>
       THEN Raised(r) /\ UNCHANGED expenses
       ELSE expenses' = [expenses EXCEPT ![i][1] = req[r].amount] /\ Goto(r, req[r].after)
    /\ UNCHANGED items

(* _send_activity_push_for_inventory.                                      *)
PushItem(r) ==
    /\ At(r, "push_item")
    /\ Push(req[r].user, "new_item", FALSE)
    /\ IF req[r].status = "in_stock" THEN Done(r) ELSE Goto(r, "push_low_stock")
    /\ UNCHANGED <<inventoryVars, user, notifications>>

(* _send_low_stock_push_if_needed.                                         *)
PushLowStock(r) ==
    /\ At(r, "push_low_stock")
    /\ Push(req[r].user, "low_stock", TRUE)
    /\ Done(r)
    /\ UNCHANGED <<inventoryVars, user, notifications>>

-----------------------------------------------------------------------------
(* update_inventory_stock.                                                 *)

Restocked(item, added, removed) ==
    LET stock == item.stock_quantity + added - removed IN
    [stock_quantity |-> stock,
     stock_status |-> StockStatus(stock, item.alert_threshold),
     history |-> item.history \o Entries(added, removed)]

(* Mutant: more may be removed than there is.                              *)
BeginUpdateStockUnchecked(r, i, added, removed) ==
    /\ i \in Kept
    /\ items[i].stock_quantity + added <= MaxStock
    /\ Begin(r, [pc |-> "write_stock", id |-> i, user |-> user,
                 payload |-> [add_stock |-> added, remove_stock |-> removed],
                 updates |-> Restocked(items[i], added, removed)])
    /\ UNCHANGED inventoryVars

(* Removing more than there was before the stock added is refused.         *)
BeginUpdateStock(r, i, added, removed) ==
    /\ i \in Kept
    /\ removed <= items[i].stock_quantity
    /\ items[i].stock_quantity + added <= MaxStock
    /\ Begin(r, [pc |-> "write_stock", id |-> i, user |-> user,
                 payload |-> [add_stock |-> added, remove_stock |-> removed],
                 updates |-> Restocked(items[i], added, removed)])
    /\ UNCHANGED inventoryVars

WriteStock(r) ==
    LET i == req[r].id IN
    /\ At(r, "write_stock")
    /\ IF items[i] = NULL
       THEN Raised(r) /\ UNCHANGED items
       ELSE /\ items' = [items EXCEPT ![i] = With(@, req[r].updates)]
            /\ IF items'[i].stock_status # "in_stock" THEN Goto(r, "push_low_stock") ELSE Done(r)
    /\ UNCHANGED expenses

-----------------------------------------------------------------------------
(* update_inventory_item.                                                  *)

(* The fields given, and the status that goes with the stock and threshold.*)
Edited(item, edit) ==
    LET new == With(item, edit) IN
    With(edit, [stock_status |-> StockStatus(new.stock_quantity, new.alert_threshold)])

BeginUpdateItem(r, i, edit) ==
    /\ i \in Kept
    /\ Begin(r, [pc |-> "write_item", id |-> i, payload |-> edit, updates |-> Edited(items[i], edit)])
    /\ UNCHANGED inventoryVars

(* The names are looked up only after the item is written; so an error     *)
(* there leaves the item without its category and its expense as it was.   *)
WriteItem(r) ==
    LET i == req[r].id IN
    /\ At(r, "write_item")
    /\ IF items[i] = NULL
       THEN Raised(r) /\ UNCHANGED items
       ELSE LET updated == With(items[i], req[r].updates) IN
            /\ items' = [items EXCEPT ![i] = updated]
            /\ Keep(r, [pc |-> "find_name", todo |-> NamesGiven(updated.category, updated.supplier_name),
                        next |-> "find_expense", id |-> i, amount |-> updated.stock_quantity,
                        after |-> "answer"])
    /\ UNCHANGED expenses

-----------------------------------------------------------------------------
(* delete_inventory_item.                                                  *)

BeginDeleteItem(r, i) ==
    /\ i \in Kept
    /\ Begin(r, [pc |-> "delete_expense", id |-> i])
    /\ UNCHANGED inventoryVars

(* Mutant: the linked expense stays.                                       *)
DeleteNoExpense(r) ==
    /\ At(r, "delete_expense")
    /\ Goto(r, "delete_item")
    /\ UNCHANGED inventoryVars

DeleteExpense(r) ==
    LET i == req[r].id IN
    /\ At(r, "delete_expense")
    /\ expenses' = IF expenses[i] = <<>> THEN expenses ELSE [expenses EXCEPT ![i] = Tail(@)]
    /\ Goto(r, "delete_item")
    /\ UNCHANGED items

DeleteItem(r) ==
    /\ At(r, "delete_item")
    /\ items' = [items EXCEPT ![req[r].id] = NULL]
    /\ Done(r)
    /\ UNCHANGED expenses

InventoryArrive(r) ==
    \/ \E form \in Forms : BeginCreateItem(r, form)
    \/ \E i \in Kept :
          \/ \E a, m \in Quantities : BeginUpdateStock(r, i, a, m)
          \/ \E edit \in Edits : BeginUpdateItem(r, i, edit)
          \/ BeginDeleteItem(r, i)

InventoryStep(r) ==
    \/ InsertItem(r) \/ FindExpense(r) \/ InsertExpense(r) \/ UpdateExpense(r)
    \/ WriteStock(r) \/ WriteItem(r)
    \/ DeleteExpense(r) \/ DeleteItem(r)

InventoryPush(r) == PushItem(r) \/ PushLowStock(r)
=============================================================================
