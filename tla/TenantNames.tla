----------------------------- MODULE TenantNames -----------------------------
(***************************************************************************)
(* Names a restaurant keeps: its bank accounts, and the categories and     *)
(* suppliers of its inventory.  Names that differ only in case or blanks   *)
(* are the same name.  A handler looks a name up and writes later; a       *)
(* unique index of the database rejects the second of two equal names.     *)
(***************************************************************************)
EXTENDS TenantRequests

CONSTANTS
    Typed,          \* names as typed
    Normal,         \* [Typed -> names in lower case, blanks collapsed]
    Collections,    \* "categories" and "suppliers"
    Deposited       \* of each cash deposit, the name typed for its bank

ASSUME NamesAssumption == {"categories", "suppliers"} \subseteq Collections /\ NULL \notin Typed

VARIABLES
    accounts,   \* restaurant_bank_accounts, in order of creation; NULL once deleted
    names       \* of each collection of names, its rows in order of creation

namesVars == <<accounts, names>>

NamesInit ==
    /\ accounts = <<>>
    /\ names = [c \in Collections |-> <<>>]

Open == {i \in DOMAIN accounts : accounts[i] # NULL}
NamedLike(n) == {i \in Open : accounts[i].normalized_name = Normal[n]}
Account(n) == [bank_account |-> n, normalized_name |-> Normal[n]]

-----------------------------------------------------------------------------
(* Bank accounts.                                                          *)

(* find_by_normalized_name: a name that is taken is a ConflictException.   *)
BeginCreateAccount(r, n) ==
    /\ NamedLike(n) = {}
    /\ Begin(r, [pc |-> "insert_account", name |-> n])
    /\ UNCHANGED namesVars

(* Mutant: the database has no unique index on the names.                  *)
InsertAccountUnchecked(r) ==
    /\ At(r, "insert_account")
    /\ accounts' = Append(accounts, Account(req[r].name))
    /\ Done(r)
    /\ UNCHANGED names

(* insert_one; a duplicate key is an error.                                *)
InsertAccount(r) ==
    /\ At(r, "insert_account")
    /\ accounts' = IF NamedLike(req[r].name) = {} THEN Append(accounts, Account(req[r].name)) ELSE accounts
    /\ Done(r)
    /\ UNCHANGED names

(* find_by_normalized_name_excluding_id: an account may keep its own name. *)
BeginRenameAccount(r, i, n) ==
    /\ i \in Open
    /\ NamedLike(n) \subseteq {i}
    /\ Begin(r, [pc |-> "rename_account", name |-> n, account |-> i])
    /\ UNCHANGED namesVars

RenameAccount(r) ==
    LET i == req[r].account
        free == i \in Open /\ NamedLike(req[r].name) \subseteq {i} IN
    /\ At(r, "rename_account")
    /\ accounts' = IF free THEN [accounts EXCEPT ![i] = Account(req[r].name)] ELSE accounts
    /\ Done(r)
    /\ UNCHANGED names

BeginDeleteAccount(r, i) ==
    /\ i \in Open
    /\ Begin(r, [pc |-> "delete_account", account |-> i])
    /\ UNCHANGED namesVars

DeleteAccount(r) ==
    /\ At(r, "delete_account")
    /\ accounts' = [accounts EXCEPT ![req[r].account] = NULL]
    /\ Done(r)
    /\ UNCHANGED names

(* What list_bank_accounts adds up for account i: the deposits made in its *)
(* name, whichever way the name was typed with them.                       *)
ListedDeposits(i) == {d \in DOMAIN Deposited : Normal[Deposited[d]] = accounts[i].normalized_name}

-----------------------------------------------------------------------------
(* Categories and suppliers: _upsert_inventory_metadata for each of        *)
(* req[r].todo, a sequence of <<collection, name>>, then on to req[r].next.*)

Listed(c, n) == \E k \in DOMAIN names[c] : Normal[names[c][k]] = Normal[n]

(* The names still to be looked up: a supplier left blank is skipped, a    *)
(* category is always there.                                               *)
NamesGiven(category, supplier) ==
    << <<"categories", category>> >> \o (IF supplier = NULL THEN <<>> ELSE << <<"suppliers", supplier>> >>)

AfterNames(r) ==
    LET rest == Tail(req[r].todo) IN
    Keep(r, [req[r] EXCEPT !.todo = rest, !.pc = IF rest = <<>> THEN req[r].next ELSE "find_name"])

(* find_by_normalized_name: an existing row is returned as it is.          *)
FindName(r) ==
    /\ At(r, "find_name")
    /\ LET p == Head(req[r].todo) IN
       IF Listed(p[1], p[2]) THEN AfterNames(r) ELSE Goto(r, "insert_name")
    /\ UNCHANGED namesVars

(* create; a duplicate key is an error that ends the request.              *)
InsertName(r) ==
    /\ At(r, "insert_name")
    /\ LET p == Head(req[r].todo) IN
       IF Listed(p[1], p[2])
       THEN Raised(r) /\ UNCHANGED names
       ELSE /\ names' = [names EXCEPT ![p[1]] = Append(@, p[2])]
            /\ AfterNames(r)
    /\ UNCHANGED accounts

(* create_inventory_category and create_inventory_supplier.                *)
CreateName(r, c, n) ==
    /\ Begin(r, [pc |-> "find_name", todo |-> << <<c, n>> >>, next |-> "answer"])
    /\ UNCHANGED namesVars

Answer(r) ==
    /\ At(r, "answer")
    /\ Done(r)
    /\ UNCHANGED namesVars

NamesArrive(r) ==
    \/ \E n \in Typed : BeginCreateAccount(r, n)
    \/ \E i \in Open : BeginDeleteAccount(r, i) \/ \E n \in Typed : BeginRenameAccount(r, i, n)
    \/ \E c \in Collections, n \in Typed : CreateName(r, c, n)

NamesStep(r) ==
    \/ InsertAccount(r) \/ RenameAccount(r) \/ DeleteAccount(r)
    \/ FindName(r) \/ InsertName(r) \/ Answer(r)
=============================================================================
