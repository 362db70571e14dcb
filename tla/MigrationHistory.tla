-------------------------- MODULE MigrationHistory --------------------------
(***************************************************************************)
(* What the start-up of several workers promises.  A history variable says *)
(* which migrations two workers have run at the same time: what goes wrong *)
(* may go wrong there only.                                                *)
(***************************************************************************)
EXTENDS Migrations

VARIABLE raced      \* the migrations two workers were running at once

hvars == <<markers, documents, records, transactions, deposits, snap,
           pc, todo, item, read, edits, crashes, raced>>

Migrating == {"documents", "snapshots"}
Normalizing == {"normalize", "clear_transactions", "insert_transactions",
                "clear_deposits", "insert_deposits"}
Refreshing == {"refresh", "refresh_transactions", "refresh_write"}

Running(w, m) ==
    pc[w] \in (IF m = "first" THEN Migrating ELSE Normalizing \cup Refreshing)

Overlapping(m) == \E v, w \in Workers : v # w /\ Running(v, m) /\ Running(w, m)

HInit == Init /\ raced = {}
HNext == Next /\ raced' = raced \cup {m \in {"first", "second"} : Overlapping(m)'}
HSpec == HInit /\ [][HNext]_hvars

(* A worker that is started runs its start-up to the end.                  *)
FairHSpec == HSpec /\ \A w \in Workers : WF_hvars(HNext /\ StartUp(w))

-----------------------------------------------------------------------------
(* Every row has its shape, and a worker treats what it has read.          *)
TypeOK ==
    /\ markers \subseteq {"first", "second"}
    /\ documents \in [Docs -> Versions \cup {NULL}]
    /\ records \in [Records -> Contents \cup {NULL}]
    /\ transactions \subseteq Rows
    /\ deposits \subseteq Rows
    /\ snap \in [Periods -> Snapshots \cup {LEGACY, NULL}]
    /\ edits \in Versions
    /\ pc \in [Workers -> {"down", "find_first", "find_second", "serving"}
                             \cup Migrating \cup Normalizing \cup Refreshing]
    /\ \A w \in Workers :
          /\ pc[w] \in Normalizing =>
                todo[w] \subseteq {i \in Records : read[w].records[i] \in Contents}
          /\ pc[w] \in Normalizing \ {"normalize"} => item[w] \in todo[w]
          /\ pc[w] \in Refreshing => todo[w] \subseteq Days
          /\ pc[w] \in Refreshing \ {"refresh"} => item[w] \in todo[w]
          /\ pc[w] = "refresh_transactions" => read[w].records \in [Records -> Contents \cup {NULL}]
          /\ pc[w] = "refresh_write" => read[w] \in Snapshots

(* A record has one row in a collection, with its current content; one     *)
(* that is gone has none.                                                  *)
RowsRight(rows, i) ==
    /\ records[i] = NULL => RowsOf(rows, i) = {}
    /\ records[i] # NULL =>
          \E row \in rows : RowsOf(rows, i) = {row} /\ row.version = records[i].version

RecordNormal(i) ==
    /\ records[i] # NULL => records[i].schema = 2
    /\ RowsRight(transactions, i)
    /\ RowsRight(deposits, i)

(* A day that has had a record has the snapshot recomputing it would       *)
(* store.  (The migration does not come to a day without one: there stays  *)
(* the snapshot of the older version.)                                     *)
DayFresh(d) ==
    RecordsOf[d] # {} => snap[d] = SnapshotOf(d, records, transactions)

Normalized ==
    /\ \A i \in Records : RecordNormal(i)
    /\ \A d \in Days : DayFresh(d)

(* Wherever workers stop, and however often they start again, once the     *)
(* marker of the second migration is set every record is normalised and    *)
(* its rows and days are right, whatever requests do then - unless two     *)
(* workers have run a migration at the same time.                          *)
MarkedMeansNormalized == "second" \in markers /\ raced = {} => Normalized

(* No migration takes back what a user has done: a document or a record    *)
(* never returns to an older version, nor a snapshot to the legacy one,    *)
(* unless two workers have run that migration at the same time.            *)
TakesNothingBack ==
    /\ \A d \in Docs :
          documents[d] # NULL /\ documents'[d] # documents[d] =>
             documents'[d] > documents[d] \/ "first" \in raced
    /\ \A i \in Records :
          records[i] # NULL /\ records'[i] # NULL =>
             records'[i].version >= records[i].version \/ "second" \in raced
    /\ \A p \in Periods :
          snap[p] # LEGACY /\ snap'[p] = LEGACY => "first" \notin markers \/ "first" \in raced

EditsSurvive == [][TakesNothingBack]_hvars

(* Every worker comes to serve, with both migrations marked.               *)
StartUpCompletes ==
    <>[](markers = {"first", "second"} /\ \A w \in Workers : At(w, "serving"))
=============================================================================
