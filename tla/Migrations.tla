----------------------------- MODULE Migrations -----------------------------
(***************************************************************************)
(* Start-up of the server's workers, db/migrations.py: every worker runs   *)
(* the two data migrations, unless their markers are set, before it serves *)
(* requests.  No worker waits for another, and any may stop at any await   *)
(* and start again.                                                        *)
(*                                                                         *)
(* The first migration copies documents and snapshots out of the           *)
(* collections of an older version; the second normalises the daily        *)
(* records and rebuilds their transactions, deposits and day snapshots.    *)
(* Contents are versions: 0 is what the older version left, and every      *)
(* request of a user makes a new one.                                      *)
(***************************************************************************)
EXTENDS Integers, FiniteSets

CONSTANTS
    Workers,
    Docs,           \* documents of the older version
    Records,        \* daily records of the older version
    Periods,        \* the days, weeks and months with a snapshot
    RecordsOf,      \* the records of a period
    Days,           \* the periods that are days
    MaxEdits,       \* bound: requests that edit or delete
    MaxCrashes,     \* bound: stops of a worker
    LEGACY,         \* the content of a snapshot of the older version
    NULL

VARIABLES
    markers,        \* app_migrations: the migrations marked as done
    documents,      \* restaurant_documents: the version of each document
    records,        \* restaurant_manual_entries: version and schema of each record
    transactions,   \* rows of restaurant_finance_transactions, each with its writer
    deposits,       \* rows of restaurant_cash_deposits, each with its writer
    snap,           \* restaurant_finance_snapshots
    pc,             \* what each worker does next
    todo,           \* the documents, periods, records or days it has still to treat
    item,           \* the record or the day it is treating
    read,           \* what its cursor or its queries have read
    edits, crashes  \* bounds

store == <<documents, records, transactions, deposits, snap>>
vars == <<markers, documents, records, transactions, deposits, snap,
          pc, todo, item, read, edits, crashes>>

ASSUME DaysAssumption ==
    /\ Days \subseteq Periods
    /\ RecordsOf \in [Periods -> SUBSET Records]
    /\ \A i \in Records : \E d \in Days : i \in RecordsOf[d]

(* The shapes of a daily record, of a row and of a snapshot.               *)
Versions == 0 .. MaxEdits
Contents == [version: Versions, schema: {1, 2}]
Rows == [rec: Records, version: Versions, by: Workers \cup {NULL}]
Snapshots == [records: UNION {[S -> Contents] : S \in SUBSET Records}, moves: SUBSET Rows]

ASSUME EditsAssumption == MaxEdits \in Nat
ASSUME LegacyAssumption == LEGACY \notin Snapshots \cup {NULL}
ASSUME NullAssumption == NULL \notin Contents

Row(i, version, writer) == [rec |-> i, version |-> version, by |-> writer]
RowsOf(rows, i) == {row \in rows : row.rec = i}

(* The older version may have left the records with or without rows.       *)
Init ==
    /\ markers = {}
    /\ documents = [d \in Docs |-> NULL]
    /\ records = [i \in Records |-> [version |-> 0, schema |-> 1]]
    /\ \E left \in SUBSET Records :
          /\ transactions = {Row(i, 0, NULL) : i \in left}
          /\ deposits = {Row(i, 0, NULL) : i \in left}
    /\ snap = [p \in Periods |-> NULL]
    /\ pc = [w \in Workers |-> "down"]
    /\ todo = [w \in Workers |-> {}]
    /\ item = [w \in Workers |-> NULL]
    /\ read = [w \in Workers |-> NULL]
    /\ edits = 0
    /\ crashes = 0

At(w, label) == pc[w] = label
Goto(w, label) == pc' = [pc EXCEPT ![w] = label]
SetTodo(w, items) == todo' = [todo EXCEPT ![w] = items]
Keep(w, data) == read' = [read EXCEPT ![w] = data]

(* What a snapshot is computed from; the service keeps none of a period    *)
(* without records.                                                        *)
Counted(p, recs, moves) ==
    [records |-> [i \in {j \in RecordsOf[p] : recs[j] # NULL} |-> recs[i]],
     moves |-> {row \in moves : row.rec \in RecordsOf[p]}]

SnapshotOf(p, recs, moves) ==
    IF \A i \in RecordsOf[p] : recs[i] = NULL THEN NULL ELSE Counted(p, recs, moves)

-----------------------------------------------------------------------------
(* Start-up.                                                               *)

StartWorker(w) ==
    /\ At(w, "down")
    /\ Goto(w, "find_first")
    /\ UNCHANGED <<markers, store, todo, item, read, edits, crashes>>

(* Mutant: a worker does not look whether the migration is done.           *)
FindFirstAlways(w) ==
    /\ At(w, "find_first")
    /\ Goto(w, "documents") /\ SetTodo(w, Docs)
    /\ UNCHANGED <<markers, store, item, read, edits, crashes>>

(* _run_migration_once of the first migration.                             *)
FindFirst(w) ==
    /\ At(w, "find_first")
    /\ IF "first" \in markers
       THEN Goto(w, "find_second") /\ UNCHANGED todo
       ELSE Goto(w, "documents") /\ SetTodo(w, Docs)
    /\ UNCHANGED <<markers, store, item, read, edits, crashes>>

(* _migrate_documents: replace_one by id, whatever is there.               *)
MigrateDocument(w, d) ==
    /\ At(w, "documents")
    /\ d \in todo[w]
    /\ documents' = [documents EXCEPT ![d] = 0]
    /\ SetTodo(w, todo[w] \ {d})
    /\ UNCHANGED <<markers, records, transactions, deposits, snap, pc, item, read, edits, crashes>>

DocumentsDone(w) ==
    /\ At(w, "documents")
    /\ todo[w] = {}
    /\ Goto(w, "snapshots") /\ SetTodo(w, Periods)
    /\ UNCHANGED <<markers, store, item, read, edits, crashes>>

(* _upsert_finance_snapshot: $set on the snapshot that is there.           *)
MigrateSnapshot(w, p) ==
    /\ At(w, "snapshots")
    /\ p \in todo[w]
    /\ snap' = [snap EXCEPT ![p] = LEGACY]
    /\ SetTodo(w, todo[w] \ {p})
    /\ UNCHANGED <<markers, documents, records, transactions, deposits, pc, item, read, edits, crashes>>

MarkFirst(w) ==
    /\ At(w, "snapshots")
    /\ todo[w] = {}
    /\ markers' = markers \cup {"first"}
    /\ Goto(w, "find_second")
    /\ UNCHANGED <<store, todo, item, read, edits, crashes>>

(* Mutant: the marker is set before the migration runs.                    *)
FindSecondMarkEarly(w) ==
    /\ At(w, "find_second")
    /\ IF "second" \in markers
       THEN Goto(w, "serving") /\ UNCHANGED <<markers, todo, read>>
       ELSE /\ Goto(w, "normalize")
            /\ markers' = markers \cup {"second"}
            /\ SetTodo(w, {i \in Records : records[i] # NULL})
            /\ Keep(w, [records |-> records, moves |-> {}])
    /\ UNCHANGED <<store, item, edits, crashes>>

(* _run_migration_once of the second one, whose cursor reads the records   *)
(* in a batch.                                                             *)
FindSecond(w) ==
    /\ At(w, "find_second")
    /\ IF "second" \in markers
       THEN Goto(w, "serving") /\ UNCHANGED <<todo, read>>
       ELSE /\ Goto(w, "normalize")
            /\ SetTodo(w, {i \in Records : records[i] # NULL})
            /\ Keep(w, [records |-> records, moves |-> {}])
    /\ UNCHANGED <<markers, store, item, edits, crashes>>

-----------------------------------------------------------------------------
(* The second migration, record by record.                                 *)

(* update_one by id of the content read, normalised; a record that is gone *)
(* is not found, and its rows are rebuilt all the same.                    *)
Normalize(w, i) ==
    /\ At(w, "normalize")
    /\ i \in todo[w]
    /\ records' = [records EXCEPT ![i] =
                     IF @ = NULL THEN NULL ELSE [version |-> read[w].records[i].version, schema |-> 2]]
    /\ Goto(w, "clear_transactions")
    /\ item' = [item EXCEPT ![w] = i]
    /\ UNCHANGED <<markers, documents, transactions, deposits, snap, todo, read, edits, crashes>>

ClearTransactions(w) ==
    /\ At(w, "clear_transactions")
    /\ transactions' = transactions \ RowsOf(transactions, item[w])
    /\ Goto(w, "insert_transactions")
    /\ UNCHANGED <<markers, documents, records, deposits, snap, todo, item, read, edits, crashes>>

InsertTransactions(w) ==
    /\ At(w, "insert_transactions")
    /\ transactions' = transactions \cup {Row(item[w], read[w].records[item[w]].version, w)}
    /\ Goto(w, "clear_deposits")
    /\ UNCHANGED <<markers, documents, records, deposits, snap, todo, item, read, edits, crashes>>

ClearDeposits(w) ==
    /\ At(w, "clear_deposits")
    /\ deposits' = deposits \ RowsOf(deposits, item[w])
    /\ Goto(w, "insert_deposits")
    /\ UNCHANGED <<markers, documents, records, transactions, snap, todo, item, read, edits, crashes>>

InsertDeposits(w) ==
    /\ At(w, "insert_deposits")
    /\ deposits' = deposits \cup {Row(item[w], read[w].records[item[w]].version, w)}
    /\ Goto(w, "normalize") /\ SetTodo(w, todo[w] \ {item[w]})
    /\ UNCHANGED <<markers, documents, records, transactions, snap, item, read, edits, crashes>>

(* Mutant: the keys of weeks and months go to the routine for days too.    *)
RecordsDoneAllPeriods(w) ==
    /\ At(w, "normalize")
    /\ todo[w] = {}
    /\ Goto(w, "refresh")
    /\ SetTodo(w, {p \in Periods : \E i \in RecordsOf[p] : read[w].records[i] # NULL})
    /\ Keep(w, NULL)
    /\ UNCHANGED <<markers, store, item, edits, crashes>>

(* Then the days of the records it has read, not their weeks and months.   *)
RecordsDone(w) ==
    /\ At(w, "normalize")
    /\ todo[w] = {}
    /\ Goto(w, "refresh")
    /\ SetTodo(w, {d \in Days : \E i \in RecordsOf[d] : read[w].records[i] # NULL})
    /\ Keep(w, NULL)
    /\ UNCHANGED <<markers, store, item, edits, crashes>>

(* _refresh_daily_snapshot reads the records, then the transactions, and   *)
(* upserts, with nothing to count too.                                     *)
RefreshRead(w, d) ==
    /\ At(w, "refresh")
    /\ d \in todo[w]
    /\ Keep(w, [records |-> records, moves |-> {}])
    /\ item' = [item EXCEPT ![w] = d]
    /\ Goto(w, "refresh_transactions")
    /\ UNCHANGED <<markers, store, todo, edits, crashes>>

RefreshTransactions(w) ==
    /\ At(w, "refresh_transactions")
    /\ Keep(w, Counted(item[w], read[w].records, transactions))
    /\ Goto(w, "refresh_write")
    /\ UNCHANGED <<markers, store, todo, item, edits, crashes>>

RefreshWrite(w) ==
    /\ At(w, "refresh_write")
    /\ snap' = [snap EXCEPT ![item[w]] = read[w]]
    /\ Keep(w, NULL) /\ SetTodo(w, todo[w] \ {item[w]})
    /\ Goto(w, "refresh")
    /\ UNCHANGED <<markers, documents, records, transactions, deposits, item, edits, crashes>>

(* Mutant: the marker is not written.                                      *)
MarkSecondNot(w) ==
    /\ At(w, "refresh")
    /\ todo[w] = {}
    /\ Goto(w, "find_second")
    /\ UNCHANGED <<markers, store, todo, item, read, edits, crashes>>

MarkSecond(w) ==
    /\ At(w, "refresh")
    /\ todo[w] = {}
    /\ markers' = markers \cup {"second"}
    /\ Goto(w, "serving")
    /\ UNCHANGED <<store, todo, item, read, edits, crashes>>

-----------------------------------------------------------------------------
(* The requests a serving worker answers, one step each: their awaits are  *)
(* the subject of DepositRequests.                                         *)

Request(w) ==
    /\ At(w, "serving")
    /\ edits < MaxEdits
    /\ edits' = edits + 1
    /\ UNCHANGED <<markers, pc, todo, item, read, crashes>>

UpdateDocument(w, d) ==
    /\ Request(w)
    /\ documents[d] # NULL
    /\ documents' = [documents EXCEPT ![d] = edits + 1]
    /\ UNCHANGED <<records, transactions, deposits, snap>>

SyncRecords(i) ==
    snap' = [p \in Periods |->
               IF i \in RecordsOf[p] THEN SnapshotOf(p, records', transactions') ELSE snap[p]]

(* The transactions are replaced; of the deposits the first one found is   *)
(* updated.                                                                *)
UpdateDailyData(w, i) ==
    /\ Request(w)
    /\ records[i] # NULL
    /\ records' = [records EXCEPT ![i].version = edits + 1]
    /\ transactions' = (transactions \ RowsOf(transactions, i)) \cup {Row(i, edits + 1, w)}
    /\ IF RowsOf(deposits, i) = {}
       THEN deposits' = deposits \cup {Row(i, edits + 1, w)}
       ELSE \E row \in RowsOf(deposits, i) :
               deposits' = (deposits \ {row}) \cup {Row(i, edits + 1, row.by)}
    /\ SyncRecords(i)
    /\ UNCHANGED documents

DeleteDailyData(w, i) ==
    /\ Request(w)
    /\ records[i] # NULL
    /\ records' = [records EXCEPT ![i] = NULL]
    /\ transactions' = transactions \ RowsOf(transactions, i)
    /\ deposits' = deposits \ RowsOf(deposits, i)
    /\ SyncRecords(i)
    /\ UNCHANGED documents

-----------------------------------------------------------------------------
(* A worker stops, or a migration raises an exception and start-up fails.  *)
Crash(w) ==
    /\ ~At(w, "down")
    /\ crashes < MaxCrashes
    /\ crashes' = crashes + 1
    /\ Goto(w, "down") /\ SetTodo(w, {}) /\ Keep(w, NULL)
    /\ UNCHANGED <<markers, store, item, edits>>

StartUp(w) ==
    \/ StartWorker(w) \/ FindFirst(w) \/ FindSecond(w)
    \/ \E d \in Docs : MigrateDocument(w, d)
    \/ DocumentsDone(w)
    \/ \E p \in Periods : MigrateSnapshot(w, p)
    \/ MarkFirst(w)
    \/ \E i \in Records : Normalize(w, i)
    \/ ClearTransactions(w) \/ InsertTransactions(w)
    \/ ClearDeposits(w) \/ InsertDeposits(w)
    \/ RecordsDone(w)
    \/ \E d \in Days : RefreshRead(w, d)
    \/ RefreshTransactions(w) \/ RefreshWrite(w)
    \/ MarkSecond(w)

Serve(w) ==
    \/ \E d \in Docs : UpdateDocument(w, d)
    \/ \E i \in Records : UpdateDailyData(w, i) \/ DeleteDailyData(w, i)

Next == \E w \in Workers : StartUp(w) \/ Serve(w) \/ Crash(w)

Spec == Init /\ [][Next]_vars
=============================================================================
