--------------------------- MODULE MigrationProofs ---------------------------
(***************************************************************************)
(* For any workers, documents, records and periods: start-up gives every   *)
(* row its shape (TypeCorrect) and takes back nothing a user has done      *)
(* unless two workers run one migration at once (EditsKept), which a       *)
(* single worker cannot (OneWorkerNeverRaces).                             *)
(***************************************************************************)
EXTENDS MigrationHistory, TLAPS

USE DaysAssumption, EditsAssumption, LegacyAssumption, NullAssumption

PCs == {"down", "find_first", "find_second", "serving"}
         \cup Migrating \cup Normalizing \cup Refreshing

RecordSets == [Records -> Contents \cup {NULL}]

(* The rows have their shape, and no version is newer than the last edit.  *)
StoreOK ==
    /\ markers \subseteq {"first", "second"}
    /\ documents \in [Docs -> Versions \cup {NULL}]
    /\ records \in RecordSets
    /\ transactions \subseteq Rows
    /\ deposits \subseteq Rows
    /\ snap \in [Periods -> Snapshots \cup {LEGACY, NULL}]
    /\ edits \in Versions
    /\ \A d \in Docs : documents[d] # NULL => documents[d] <= edits
    /\ \A i \in Records : records[i] # NULL => records[i].version <= edits

(* What worker w has read has its shape, and no worker gets past a         *)
(* migration that is not marked.                                           *)
Job(w) ==
    /\ pc[w] \in PCs
    /\ pc[w] \in Normalizing =>
          \A i \in todo[w] : /\ i \in Records
                             /\ read[w].records[i] \in Contents
                             /\ read[w].records[i].version <= edits
    /\ pc[w] \in Normalizing \ {"normalize"} => item[w] \in todo[w]
    /\ pc[w] \in Refreshing => todo[w] \subseteq Days
    /\ pc[w] \in Refreshing \ {"refresh"} => item[w] \in todo[w]
    /\ pc[w] = "refresh_transactions" => read[w].records \in RecordSets
    /\ pc[w] = "refresh_write" => read[w] \in Snapshots
    /\ pc[w] \notin {"down", "find_first"} \cup Migrating => "first" \in markers
    /\ pc[w] = "serving" => "second" \in markers

FunctionsOK ==
    /\ pc = [w \in Workers |-> pc[w]]
    /\ todo = [w \in Workers |-> todo[w]]
    /\ item = [w \in Workers |-> item[w]]
    /\ read = [w \in Workers |-> read[w]]

(* Nobody edits before both markers are set; a migration that is run after *)
(* its marker was set, or by two workers, is raced.                        *)
EditsAfterMarkers == edits > 0 => "first" \in markers /\ "second" \in markers

RacesOK ==
    \A m \in {"first", "second"}, v \in Workers :
       Running(v, m) =>
          /\ m \in markers => m \in raced
          /\ \A w \in Workers \ {v} : Running(w, m) => m \in raced

MInv ==
    /\ StoreOK
    /\ \A w \in Workers : Job(w)
    /\ FunctionsOK
    /\ EditsAfterMarkers
    /\ RacesOK

(* f is a function of the workers, and g differs from it at w at most.     *)
At1(f, g, w) ==
    /\ g = [v \in Workers |-> g[v]]
    /\ \A v \in Workers \ {w} : g[v] = f[v]

LEMMA Except ==
    ASSUME NEW f, NEW g, NEW w \in Workers, NEW x,
           f = [v \in Workers |-> f[v]], g = [f EXCEPT ![w] = x]
    PROVE  At1(f, g, w) /\ g[w] = x
<1>1. g = [v \in Workers |-> IF v = w THEN x ELSE f[v]] OBVIOUS
<1> QED BY <1>1 DEF At1

LEMMA Same == ASSUME NEW f, NEW w \in Workers, f = [v \in Workers |-> f[v]] PROVE At1(f, f, w)
BY DEF At1

(* A step of w leaves the others at their work.                            *)
OnlyMoves(w) ==
    /\ At1(pc, pc', w) /\ At1(todo, todo', w) /\ At1(item, item', w) /\ At1(read, read', w)
    /\ markers \subseteq markers'
    /\ edits <= edits'

LEMMA Others ==
    ASSUME NEW w \in Workers, MInv, OnlyMoves(w), edits' \in Versions, Job(w)'
    PROVE  (\A v \in Workers : Job(v)') /\ FunctionsOK'
<1>1. ASSUME NEW v \in Workers, v # w PROVE Job(v)'
  <2>1. /\ pc'[v] = pc[v] /\ todo'[v] = todo[v] /\ item'[v] = item[v] /\ read'[v] = read[v]
    BY <1>1 DEF OnlyMoves, At1
  <2>2. Job(v) BY DEF MInv
  <2>3. pc[v] \in Normalizing =>
          \A i \in todo[v] : /\ i \in Records
                             /\ read[v].records[i] \in Contents
                             /\ read[v].records[i].version <= edits'
    BY <2>2 DEF Job, MInv, StoreOK, OnlyMoves, Contents, Versions
  <2> QED BY <2>1, <2>2, <2>3 DEF Job, OnlyMoves
<1>2. FunctionsOK' BY DEF OnlyMoves, At1, FunctionsOK
<1> QED BY <1>1, <1>2

LEMMA InitCorrect == HInit => MInv
<1> SUFFICES ASSUME HInit PROVE MInv OBVIOUS
<1> USE DEF HInit, Init
<1>1. PICK left \in SUBSET Records :
        /\ transactions = {Row(i, 0, NULL) : i \in left}
        /\ deposits = {Row(i, 0, NULL) : i \in left}
  OBVIOUS
<1>2. StoreOK BY <1>1, SMTT(30) DEF StoreOK, RecordSets, Contents, Versions, Rows, Row
<1>3. ASSUME NEW w \in Workers PROVE Job(w)
  BY DEF Job, PCs, Migrating, Normalizing, Refreshing
<1>4. FunctionsOK /\ EditsAfterMarkers BY DEF FunctionsOK, EditsAfterMarkers
<1>5. RacesOK BY DEF RacesOK, Running, Migrating, Normalizing, Refreshing
<1> QED BY <1>2, <1>3, <1>4, <1>5 DEF MInv

-----------------------------------------------------------------------------
(* Snapshots that are computed are snapshots.                              *)
LEMMA CountedIsSnapshot ==
    ASSUME NEW p \in Periods, NEW recs \in RecordSets, NEW moves \in SUBSET Rows
    PROVE  Counted(p, recs, moves) \in Snapshots
<1> DEFINE S == {j \in RecordsOf[p] : recs[j] # NULL}
<1>1. S \in SUBSET Records OBVIOUS
<1>2. [i \in S |-> recs[i]] \in [S -> Contents]
  <2>1. ASSUME NEW i \in S PROVE recs[i] \in Contents BY <1>1 DEF RecordSets
  <2> QED BY <2>1
<1>3. {row \in moves : row.rec \in RecordsOf[p]} \in SUBSET Rows OBVIOUS
<1>4. [i \in S |-> recs[i]] \in UNION {[T -> Contents] : T \in SUBSET Records}
  BY <1>1, <1>2, Zenon
<1> QED BY <1>3, <1>4 DEF Counted, Snapshots

LEMMA SyncIsSnapshot ==
    ASSUME NEW i \in Records, snap \in [Periods -> Snapshots \cup {LEGACY, NULL}],
           records' \in RecordSets, transactions' \in SUBSET Rows, SyncRecords(i)
    PROVE  /\ snap' \in [Periods -> Snapshots \cup {LEGACY, NULL}]
           /\ \A p \in Periods : snap'[p] = snap[p] \/ snap'[p] \in Snapshots \cup {NULL}
<1>1. ASSUME NEW p \in Periods
      PROVE  SnapshotOf(p, records', transactions') \in Snapshots \cup {NULL}
  BY CountedIsSnapshot DEF SnapshotOf
<1> QED BY <1>1 DEF SyncRecords

-----------------------------------------------------------------------------
(* What a step of w has to show.                                           *)
Good(w) ==
    /\ StoreOK'
    /\ OnlyMoves(w)
    /\ edits' \in Versions
    /\ Job(w)'
    /\ EditsAfterMarkers'
    /\ TakesNothingBack

(* A step that changes markers, workers and nothing in the store.          *)
LEMMA StoreKept ==
    ASSUME MInv, UNCHANGED <<store, edits>>, markers' \in {markers, markers \cup {"first"}, markers \cup {"second"}}
    PROVE  StoreOK' /\ EditsAfterMarkers' /\ edits' \in Versions /\ TakesNothingBack
<1>1. StoreOK' BY DEF MInv, StoreOK, store
<1>2. EditsAfterMarkers' BY DEF MInv, EditsAfterMarkers
<1>3. TakesNothingBack
  <2>1. \A i \in Records : records[i] # NULL => records[i].version \in Versions
    BY DEF MInv, StoreOK, RecordSets, Contents
  <2> QED BY <2>1 DEF TakesNothingBack, store, Versions
<1> QED BY <1>1, <1>2, <1>3 DEF MInv, StoreOK

LEMMA StartGood ==
    ASSUME MInv, NEW w \in Workers,
           StartWorker(w) \/ FindFirst(w) \/ FindSecond(w) \/ DocumentsDone(w) \/ MarkFirst(w)
             \/ RecordsDone(w) \/ MarkSecond(w) \/ Crash(w)
             \/ (\E d \in Days : RefreshRead(w, d)) \/ RefreshTransactions(w)
    PROVE  Good(w)
<1> USE DEF At, Goto, SetTodo, Keep
<1>1. Job(w) /\ FunctionsOK /\ StoreOK BY DEF MInv
<1>2. StoreOK' /\ EditsAfterMarkers' /\ edits' \in Versions /\ TakesNothingBack
  <2>1. UNCHANGED <<store, edits>>
    BY DEF StartWorker, FindFirst, FindSecond, DocumentsDone, MarkFirst, RecordsDone, MarkSecond,
           Crash, RefreshRead, RefreshTransactions
  <2>2. markers' \in {markers, markers \cup {"first"}, markers \cup {"second"}}
    BY DEF StartWorker, FindFirst, FindSecond, DocumentsDone, MarkFirst, RecordsDone, MarkSecond,
           Crash, RefreshRead, RefreshTransactions
  <2> QED BY <2>1, <2>2, StoreKept
<1>3. OnlyMoves(w)
  <2>1. markers \subseteq markers' /\ edits <= edits'
    BY <1>1 DEF StartWorker, FindFirst, FindSecond, DocumentsDone, MarkFirst, RecordsDone,
       MarkSecond, Crash, RefreshRead, RefreshTransactions, StoreOK, Versions
  <2>2. At1(pc, pc', w)
    <3>1. CASE \E d \in Days : RefreshRead(w, d)
      <4>1. PICK d \in Days : RefreshRead(w, d) BY <3>1
      <4> QED BY <1>1, <4>1, Except, Same, SMT DEF RefreshRead, FunctionsOK
    <3> QED
      BY <1>1, <3>1, Except, Same, SMT DEF StartWorker, FindFirst, FindSecond, DocumentsDone,
         MarkFirst, RecordsDone, MarkSecond, Crash, RefreshTransactions, FunctionsOK
  <2>3. At1(todo, todo', w)
    <3>1. CASE \E d \in Days : RefreshRead(w, d)
      <4>1. PICK d \in Days : RefreshRead(w, d) BY <3>1
      <4> QED BY <1>1, <4>1, Except, Same, SMT DEF RefreshRead, FunctionsOK
    <3> QED
      BY <1>1, <3>1, Except, Same, SMT DEF StartWorker, FindFirst, FindSecond, DocumentsDone,
         MarkFirst, RecordsDone, MarkSecond, Crash, RefreshTransactions, FunctionsOK
  <2>4. At1(item, item', w)
    <3>1. CASE \E d \in Days : RefreshRead(w, d)
      <4>1. PICK d \in Days : RefreshRead(w, d) BY <3>1
      <4>2. item' = [item EXCEPT ![w] = d] /\ item = [v \in Workers |-> item[v]]
        BY <1>1, <4>1 DEF RefreshRead, FunctionsOK
      <4> QED BY <4>2, Except, Zenon
    <3> QED
      BY <1>1, <3>1, Except, Same, SMT DEF StartWorker, FindFirst, FindSecond, DocumentsDone,
         MarkFirst, RecordsDone, MarkSecond, Crash, RefreshTransactions, FunctionsOK
  <2>5. At1(read, read', w)
    <3>1. CASE \E d \in Days : RefreshRead(w, d)
      <4>1. PICK d \in Days : RefreshRead(w, d) BY <3>1
      <4> QED BY <1>1, <4>1, Except, Same, SMT DEF RefreshRead, FunctionsOK
    <3>2. CASE RefreshTransactions(w)
      BY <1>1, <3>2, Except, SMT DEF RefreshTransactions, FunctionsOK
    <3>3. CASE FindSecond(w)
      BY <1>1, <3>3, Except, Same, SMT DEF FindSecond, FunctionsOK
    <3> QED
      BY <1>1, <3>1, <3>2, <3>3, Except, Same, SMT DEF StartWorker, FindFirst, DocumentsDone,
         MarkFirst, RecordsDone, MarkSecond, Crash, FunctionsOK
  <2> QED BY <2>1, <2>2, <2>3, <2>4, <2>5 DEF OnlyMoves
<1>4. Job(w)'
  <2> USE DEF PCs, Migrating, Normalizing, Refreshing
  <2>1. CASE StartWorker(w) BY <1>1, <2>1 DEF StartWorker, Job, FunctionsOK
  <2>2. CASE FindFirst(w) BY <1>1, <2>2 DEF FindFirst, Job, FunctionsOK
  <2>3. CASE FindSecond(w)
    <3>1. CASE "second" \in markers BY <1>1, <2>3, <3>1 DEF FindSecond, Job, FunctionsOK
    <3>2. CASE "second" \notin markers
      <4>1. /\ pc'[w] = "normalize" /\ markers' = markers /\ edits' = edits
            /\ todo'[w] = {i \in Records : records[i] # NULL}
            /\ read'[w].records = records
        BY <1>1, <2>3, <3>2 DEF FindSecond, FunctionsOK
      <4>2. "first" \in markers BY <1>1, <2>3 DEF FindSecond, Job
      <4>3. \A i \in Records : records[i] # NULL => records[i] \in Contents /\ records[i].version <= edits
        BY <1>1 DEF StoreOK, RecordSets
      <4> QED BY <4>1, <4>2, <4>3 DEF Job
    <3> QED BY <3>1, <3>2
  <2>4. CASE DocumentsDone(w) \/ MarkFirst(w)
    BY <1>1, <2>4 DEF DocumentsDone, MarkFirst, Job, FunctionsOK
  <2>5. CASE RecordsDone(w) BY <1>1, <2>5 DEF RecordsDone, Job, FunctionsOK
  <2>6. CASE MarkSecond(w) BY <1>1, <2>6 DEF MarkSecond, Job, FunctionsOK
  <2>7. CASE Crash(w) BY <1>1, <2>7 DEF Crash, Job, FunctionsOK
  <2>8. CASE \E d \in Days : RefreshRead(w, d)
    BY <1>1, <2>8 DEF RefreshRead, Job, FunctionsOK, StoreOK
  <2>9. CASE RefreshTransactions(w)
    <3>1. Counted(item[w], read[w].records, transactions) \in Snapshots
      <4>1. item[w] \in Periods BY <1>1, <2>9 DEF Job, RefreshTransactions
      <4>2. read[w].records \in RecordSets /\ transactions \in SUBSET Rows
        BY <1>1, <2>9 DEF Job, RefreshTransactions, StoreOK
      <4> QED BY <4>1, <4>2, CountedIsSnapshot
    <3> QED BY <1>1, <2>9, <3>1 DEF RefreshTransactions, Job, FunctionsOK
  <2> QED BY <2>1, <2>2, <2>3, <2>4, <2>5, <2>6, <2>7, <2>8, <2>9
<1> QED BY <1>2, <1>3, <1>4 DEF Good

-----------------------------------------------------------------------------
(* The steps of the first migration that write.                            *)
LEMMA FirstGood ==
    ASSUME MInv, NEW w \in Workers,
           (\E d \in Docs : MigrateDocument(w, d)) \/ (\E p \in Periods : MigrateSnapshot(w, p))
    PROVE  Good(w)
<1> USE DEF At, Goto, SetTodo, Keep
<1>1. Job(w) /\ FunctionsOK /\ StoreOK /\ EditsAfterMarkers /\ RacesOK BY DEF MInv
<1>2. pc[w] \in Migrating /\ UNCHANGED <<markers, records, transactions, deposits, pc, item, read, edits>>
  BY DEF MigrateDocument, MigrateSnapshot, Migrating
<1>3. "first" \in markers => "first" \in raced
  BY <1>1, <1>2 DEF RacesOK, Running
<1>4. At1(todo, todo', w)
  BY <1>1, Except, SMT DEF MigrateDocument, MigrateSnapshot, FunctionsOK
<1>5. OnlyMoves(w)
  BY <1>1, <1>2, <1>4, Same, SMT DEF OnlyMoves, FunctionsOK, StoreOK, Versions
<1>6. Job(w)' BY <1>1, <1>2 DEF Job, Migrating, Normalizing, Refreshing, PCs
<1>7. EditsAfterMarkers' BY <1>1, <1>2 DEF EditsAfterMarkers
<1>8. edits' \in Versions BY <1>1, <1>2 DEF StoreOK
<1>9. \A i \in Records : records[i] # NULL => records[i].version \in Int
  BY <1>1 DEF StoreOK, RecordSets, Contents, Versions
<1>10. CASE \E d \in Docs : MigrateDocument(w, d)
  <2>1. PICK d \in Docs : MigrateDocument(w, d) BY <1>10
  <2>2. snap' = snap /\ documents' = [documents EXCEPT ![d] = 0] BY <2>1 DEF MigrateDocument
  <2>3. StoreOK' BY <1>1, <1>2, <2>2 DEF StoreOK, Versions
  <2>4. "first" \notin raced => \A e \in Docs : documents[e] # NULL => documents'[e] = documents[e]
    <3>1. ASSUME "first" \notin raced, NEW e \in Docs, documents[e] # NULL
          PROVE  documents'[e] = documents[e]
      <4>1. edits <= 0 BY <1>1, <1>3, <3>1 DEF EditsAfterMarkers, StoreOK, Versions
      <4>2. documents[e] = 0 BY <1>1, <3>1, <4>1 DEF StoreOK, Versions
      <4> QED BY <1>1, <2>2, <4>2 DEF StoreOK
    <3> QED BY <3>1
  <2>5. TakesNothingBack BY <1>2, <1>9, <2>2, <2>4 DEF TakesNothingBack
  <2> QED BY <1>5, <1>6, <1>7, <1>8, <2>3, <2>5 DEF Good
<1>11. CASE \E p \in Periods : MigrateSnapshot(w, p)
  <2>1. PICK p \in Periods : MigrateSnapshot(w, p) BY <1>11
  <2>2. documents' = documents /\ snap' = [snap EXCEPT ![p] = LEGACY] BY <2>1 DEF MigrateSnapshot
  <2>3. StoreOK' BY <1>1, <1>2, <2>2 DEF StoreOK
  <2>4. TakesNothingBack BY <1>2, <1>3, <1>9, <2>2 DEF TakesNothingBack
  <2> QED BY <1>5, <1>6, <1>7, <1>8, <2>3, <2>4 DEF Good
<1> QED BY <1>10, <1>11

-----------------------------------------------------------------------------
(* The steps of the second migration that write.                           *)
LEMMA SecondGood ==
    ASSUME MInv, NEW w \in Workers,
           (\E i \in Records : Normalize(w, i)) \/ ClearTransactions(w) \/ InsertTransactions(w)
             \/ ClearDeposits(w) \/ InsertDeposits(w) \/ RefreshWrite(w)
    PROVE  Good(w)
<1> USE DEF At, Goto, SetTodo, Keep
<1>1. Job(w) /\ FunctionsOK /\ StoreOK /\ EditsAfterMarkers /\ RacesOK BY DEF MInv
<1>2. pc[w] \in Normalizing \cup Refreshing /\ UNCHANGED <<markers, documents, edits>>
  BY DEF Normalize, ClearTransactions, InsertTransactions, ClearDeposits, InsertDeposits,
     RefreshWrite, Normalizing, Refreshing
<1>3. "second" \in markers => "second" \in raced
  BY <1>1, <1>2 DEF RacesOK, Running
<1>4. OnlyMoves(w)
  <2>1. At1(pc, pc', w)
    BY <1>1, Except, SMT DEF Normalize, ClearTransactions, InsertTransactions, ClearDeposits,
       InsertDeposits, RefreshWrite, FunctionsOK
  <2>2. At1(todo, todo', w)
    BY <1>1, Except, Same, SMT DEF Normalize, ClearTransactions, InsertTransactions, ClearDeposits,
       InsertDeposits, RefreshWrite, FunctionsOK
  <2>3. At1(item, item', w)
    <3>1. CASE \E i \in Records : Normalize(w, i)
      <4>1. PICK i \in Records : Normalize(w, i) BY <3>1
      <4>2. item' = [item EXCEPT ![w] = i] /\ item = [v \in Workers |-> item[v]]
        BY <1>1, <4>1 DEF Normalize, FunctionsOK
      <4> QED BY <4>2, Except, Zenon
    <3> QED
      BY <1>1, <3>1, Same, SMT DEF ClearTransactions, InsertTransactions, ClearDeposits,
         InsertDeposits, RefreshWrite, FunctionsOK
  <2>4. At1(read, read', w)
    BY <1>1, Except, Same, SMT DEF Normalize, ClearTransactions, InsertTransactions, ClearDeposits,
       InsertDeposits, RefreshWrite, FunctionsOK
  <2> QED BY <1>1, <1>2, <2>1, <2>2, <2>3, <2>4 DEF OnlyMoves, StoreOK, Versions
<1>5. Job(w)'
  <2> USE DEF Migrating, Normalizing, Refreshing, PCs
  <2>1. CASE \E i \in Records : Normalize(w, i) BY <1>1, <2>1 DEF Normalize, Job, FunctionsOK
  <2>2. CASE ClearTransactions(w) BY <1>1, <2>2 DEF ClearTransactions, Job, FunctionsOK
  <2>3. CASE InsertTransactions(w) BY <1>1, <2>3 DEF InsertTransactions, Job, FunctionsOK
  <2>4. CASE ClearDeposits(w) BY <1>1, <2>4 DEF ClearDeposits, Job, FunctionsOK
  <2>5. CASE InsertDeposits(w) BY <1>1, <2>5 DEF InsertDeposits, Job, FunctionsOK
  <2>6. CASE RefreshWrite(w) BY <1>1, <2>6 DEF RefreshWrite, Job, FunctionsOK
  <2> QED BY <2>1, <2>2, <2>3, <2>4, <2>5, <2>6
<1>6. EditsAfterMarkers' /\ edits' \in Versions
  BY <1>1, <1>2 DEF EditsAfterMarkers, StoreOK
<1>7. \A i \in Records : records[i] # NULL => records[i].version \in Int
  BY <1>1 DEF StoreOK, RecordSets, Contents, Versions
<1>8. CASE \E i \in Records : Normalize(w, i)
  <2>1. PICK i \in Records : Normalize(w, i) BY <1>8
  <2>2. /\ UNCHANGED <<transactions, deposits, snap>>
        /\ records' = [records EXCEPT ![i] =
              IF @ = NULL THEN NULL ELSE [version |-> read[w].records[i].version, schema |-> 2]]
    BY <2>1 DEF Normalize
  <2>3. read[w].records[i] \in Contents /\ read[w].records[i].version <= edits
    BY <1>1, <2>1 DEF Job, Normalize, Normalizing
  <2> DEFINE new == [version |-> read[w].records[i].version, schema |-> 2]
  <2>4. new \in Contents /\ new.version <= edits BY <2>3 DEF Contents
  <2>5. /\ records' \in RecordSets
        /\ \A j \in Records : records'[j] # NULL =>
              records'[j] = records[j] \/ (j = i /\ records[i] # NULL /\ records'[i] = new)
    <3> HIDE DEF new
    <3> QED BY <1>1, <2>2, <2>4 DEF StoreOK, RecordSets, new
  <2>6. StoreOK'
    <3> HIDE DEF new
    <3> QED BY <1>1, <1>2, <2>2, <2>4, <2>5 DEF StoreOK
  <2>7. "second" \notin raced /\ records[i] # NULL => new.version >= records[i].version
    <3>1. SUFFICES ASSUME "second" \notin raced, records[i] # NULL
                   PROVE  new.version >= records[i].version
      OBVIOUS
    <3>2. edits <= 0 BY <1>1, <1>3, <3>1 DEF EditsAfterMarkers, StoreOK, Versions
    <3>3. records[i].version <= 0 /\ records[i].version \in Int
      BY <1>1, <1>7, <3>1, <3>2 DEF StoreOK, Versions
    <3>4. new.version \in Nat BY <2>4 DEF Contents, Versions
    <3> HIDE DEF new
    <3> QED BY <3>3, <3>4
  <2>8. TakesNothingBack
    <3> HIDE DEF new
    <3> QED BY <1>2, <1>7, <2>2, <2>5, <2>7 DEF TakesNothingBack
  <2> QED BY <1>4, <1>5, <1>6, <2>6, <2>8 DEF Good
<1>9. CASE ClearTransactions(w) \/ InsertTransactions(w) \/ ClearDeposits(w) \/ InsertDeposits(w)
  <2>1. UNCHANGED <<records, snap>>
    BY <1>9 DEF ClearTransactions, InsertTransactions, ClearDeposits, InsertDeposits
  <2>2. item[w] \in Records /\ read[w].records[item[w]].version \in Versions
    BY <1>1, <1>9 DEF ClearTransactions, InsertTransactions, ClearDeposits, InsertDeposits,
       Job, Normalizing, Contents
  <2>3. Row(item[w], read[w].records[item[w]].version, w) \in Rows BY <2>2 DEF Row, Rows
  <2>4. transactions' \subseteq Rows /\ deposits' \subseteq Rows
    BY <1>1, <1>9, <2>3 DEF ClearTransactions, InsertTransactions, ClearDeposits, InsertDeposits,
       StoreOK
  <2>5. StoreOK' BY <1>1, <1>2, <2>1, <2>4 DEF StoreOK
  <2>6. TakesNothingBack BY <1>2, <1>7, <2>1 DEF TakesNothingBack
  <2> QED BY <1>4, <1>5, <1>6, <2>5, <2>6 DEF Good
<1>10. CASE RefreshWrite(w)
  <2>1. /\ UNCHANGED <<records, transactions, deposits>>
        /\ snap' = [snap EXCEPT ![item[w]] = read[w]]
    BY <1>10 DEF RefreshWrite
  <2>2. item[w] \in Periods /\ read[w] \in Snapshots
    BY <1>1, <1>10 DEF RefreshWrite, Job, Refreshing
  <2>3. read[w] # LEGACY BY <2>2
  <2>4. StoreOK' BY <1>1, <1>2, <2>1, <2>2 DEF StoreOK
  <2>5. TakesNothingBack BY <1>1, <1>2, <1>7, <2>1, <2>2, <2>3 DEF TakesNothingBack, StoreOK
  <2> QED BY <1>4, <1>5, <1>6, <2>4, <2>5 DEF Good
<1> QED BY <1>8, <1>9, <1>10

-----------------------------------------------------------------------------
(* The requests.                                                           *)
LEMMA ServeGood ==
    ASSUME MInv, NEW w \in Workers, Serve(w)
    PROVE  Good(w)
<1>1. Job(w) /\ FunctionsOK /\ StoreOK BY DEF MInv
<1>2. Request(w) BY DEF Serve, UpdateDocument, UpdateDailyData, DeleteDailyData
<1>3. /\ "first" \in markers /\ "second" \in markers /\ pc[w] = "serving"
      /\ UNCHANGED <<markers, pc, todo, item, read>> /\ edits' = edits + 1
      /\ edits \in Int /\ edits + 1 \in Versions
  BY <1>1, <1>2 DEF Request, At, Job, StoreOK, Versions, Migrating
<1>4. OnlyMoves(w)
  BY <1>1, <1>3, Same, SMT DEF OnlyMoves, FunctionsOK
<1>5. Job(w)' /\ EditsAfterMarkers' /\ edits' \in Versions
  BY <1>1, <1>3 DEF Job, EditsAfterMarkers, Normalizing, Refreshing, Migrating
<1>6. \A i \in Records : records[i] # NULL => records[i].version \in Int
  BY <1>1 DEF StoreOK, RecordSets, Contents, Versions
<1>7. CASE \E d \in Docs : UpdateDocument(w, d)
  <2>1. PICK d \in Docs : UpdateDocument(w, d) BY <1>7
  <2>2. /\ UNCHANGED <<records, transactions, deposits, snap>>
        /\ documents' = [documents EXCEPT ![d] = edits + 1]
    BY <2>1 DEF UpdateDocument
  <2>3. StoreOK'
    <3>1. documents' \in [Docs -> Versions \cup {NULL}] BY <1>1, <1>3, <2>2 DEF StoreOK
    <3>2. \A x \in Docs : documents'[x] # NULL => documents'[x] <= edits'
      <4> TAKE x \in Docs
      <4>1. documents[x] # NULL => documents[x] \in Int /\ documents[x] <= edits
        BY <1>1 DEF StoreOK, Versions
      <4>2. documents'[x] = IF x = d THEN edits + 1 ELSE documents[x] BY <1>1, <2>2 DEF StoreOK
      <4> QED BY <1>3, <4>1, <4>2
    <3>3. \A i \in Records : records'[i] # NULL => records'[i].version <= edits'
      BY <1>1, <1>3, <1>6, <2>2 DEF StoreOK
    <3> QED BY <1>1, <1>3, <2>2, <3>1, <3>2, <3>3 DEF StoreOK
  <2>4. TakesNothingBack BY <1>1, <1>3, <1>6, <2>2 DEF TakesNothingBack, StoreOK, Versions
  <2> QED BY <1>4, <1>5, <2>3, <2>4 DEF Good
<1>8. CASE \E i \in Records : UpdateDailyData(w, i) \/ DeleteDailyData(w, i)
  <2>1. PICK i \in Records : UpdateDailyData(w, i) \/ DeleteDailyData(w, i) BY <1>8
  <2>2. documents' = documents /\ SyncRecords(i) BY <2>1 DEF UpdateDailyData, DeleteDailyData
  <2>3. records[i] # NULL /\ records[i] \in Contents
    BY <1>1, <2>1 DEF UpdateDailyData, DeleteDailyData, StoreOK, RecordSets
  <2> DEFINE new == [records[i] EXCEPT !.version = edits + 1]
  <2>4. new \in Contents /\ new.version = edits + 1 BY <1>3, <2>3 DEF Contents
  <2>5. \/ records' = [records EXCEPT ![i] = new]
        \/ records' = [records EXCEPT ![i] = NULL]
    BY <2>1 DEF UpdateDailyData, DeleteDailyData
  <2>6. records' \in RecordSets
    <3> HIDE DEF new
    <3> QED BY <1>1, <2>4, <2>5 DEF StoreOK, RecordSets
  <2>7. \A j \in Records : records'[j] # NULL =>
          records'[j] = records[j] \/ (j = i /\ records'[j].version = edits + 1)
    <3> HIDE DEF new
    <3> QED BY <1>1, <2>4, <2>5 DEF StoreOK, RecordSets
  <2>8. transactions' \subseteq Rows /\ deposits' \subseteq Rows
    <3>1. \A by \in Workers \cup {NULL} : Row(i, edits + 1, by) \in Rows
      BY <1>3 DEF Row, Rows
    <3>2. \A row \in deposits : row.by \in Workers \cup {NULL} BY <1>1 DEF StoreOK, Rows
    <3>3. CASE UpdateDailyData(w, i)
      <4>1. transactions' \subseteq transactions \cup {Row(i, edits + 1, w)}
        BY <3>3 DEF UpdateDailyData
      <4>2. \E by \in Workers \cup {NULL} : deposits' \subseteq deposits \cup {Row(i, edits + 1, by)}
        <5>1. CASE RowsOf(deposits, i) = {}
          <6>1. deposits' = deposits \cup {Row(i, edits + 1, w)}
            BY <3>3, <5>1 DEF UpdateDailyData
          <6> HIDE DEF Row
          <6>2. w \in Workers \cup {NULL} OBVIOUS
          <6> QED BY <6>1, <6>2
        <5>2. CASE RowsOf(deposits, i) # {}
          <6>1. PICK row \in RowsOf(deposits, i) :
                  deposits' = (deposits \ {row}) \cup {Row(i, edits + 1, row.by)}
            BY <3>3, <5>2 DEF UpdateDailyData
          <6>2. row.by \in Workers \cup {NULL} BY <3>2 DEF RowsOf
          <6> QED BY <6>1, <6>2
        <5> QED BY <5>1, <5>2
      <4> QED BY <1>1, <3>1, <4>1, <4>2 DEF StoreOK
    <3>4. CASE DeleteDailyData(w, i) BY <1>1, <3>4 DEF DeleteDailyData, StoreOK
    <3> QED BY <2>1, <3>3, <3>4
  <2>9. /\ snap' \in [Periods -> Snapshots \cup {LEGACY, NULL}]
        /\ \A p \in Periods : snap'[p] = snap[p] \/ snap'[p] \in Snapshots \cup {NULL}
    BY <1>1, <2>2, <2>6, <2>8, SyncIsSnapshot DEF StoreOK
  <2>10. StoreOK' BY <1>1, <1>3, <1>6, <2>2, <2>6, <2>7, <2>8, <2>9 DEF StoreOK, Versions
  <2>11. TakesNothingBack
    <3>1. \A j \in Records : records[j] # NULL /\ records'[j] # NULL =>
            records'[j].version >= records[j].version
      BY <1>1, <1>3, <1>6, <2>7 DEF StoreOK
    <3>2. \A p \in Periods : snap[p] # LEGACY => snap'[p] # LEGACY BY <2>9
    <3> QED BY <2>2, <3>1, <3>2 DEF TakesNothingBack
  <2> QED BY <1>4, <1>5, <2>10, <2>11 DEF Good
<1> QED BY <1>7, <1>8 DEF Serve

-----------------------------------------------------------------------------
LEMMA StepGood ==
    ASSUME MInv, HNext
    PROVE  \E w \in Workers : Good(w)
<1>1. PICK w \in Workers : StartUp(w) \/ Serve(w) \/ Crash(w) BY DEF HNext, Next
<1>2. Good(w)
  BY <1>1, StartGood, FirstGood, SecondGood, ServeGood, Zenon DEF StartUp
<1> QED BY <1>2

(* A worker begins a migration that is not marked, and marks it when it is *)
(* done with it.                                                           *)
LEMMA RacesStep ==
    ASSUME MInv, HNext
    PROVE  RacesOK'
<1> SUFFICES ASSUME NEW m \in {"first", "second"}, NEW v \in Workers, Running(v, m)'
             PROVE  /\ m \in markers' => m \in raced'
                    /\ \A w \in Workers \ {v} : Running(w, m)' => m \in raced'
  BY DEF RacesOK
<1>1. raced \subseteq raced' /\ (Overlapping(m)' => m \in raced') BY DEF HNext
<1>2. \A w \in Workers \ {v} : Running(w, m)' => m \in raced'
  BY <1>1 DEF Overlapping
<1>3. m \in markers' => m \in raced'
  <2> SUFFICES ASSUME m \in markers', m \notin raced PROVE FALSE BY <1>1
  <2>1. PICK u \in Workers : StartUp(u) \/ Serve(u) \/ Crash(u) BY DEF HNext, Next
  <2>2. RacesOK /\ FunctionsOK BY DEF MInv
  <2> USE DEF Migrating, Normalizing, Refreshing, Running, At, Goto
  <2>3. CASE m \in markers
    <3>1. ~Running(v, m) BY <2>2, <2>3 DEF RacesOK
    <3>2. FindFirst(u) \/ FindSecond(u)
      BY <2>1, <2>2, <3>1 DEF StartUp, Serve, StartWorker, MigrateDocument, DocumentsDone,
         MigrateSnapshot, MarkFirst, Normalize, ClearTransactions, InsertTransactions,
         ClearDeposits, InsertDeposits, RecordsDone, RefreshRead, RefreshTransactions,
         RefreshWrite, MarkSecond, UpdateDocument, UpdateDailyData, DeleteDailyData, Request,
         Crash, FunctionsOK
    <3> QED BY <2>2, <2>3, <3>1, <3>2 DEF FindFirst, FindSecond, FunctionsOK
  <2>4. CASE m \notin markers
    <3>1. (m = "first" /\ MarkFirst(u)) \/ (m = "second" /\ MarkSecond(u))
      BY <2>1, <2>4 DEF StartUp, Serve, StartWorker, FindFirst, FindSecond, MigrateDocument,
         DocumentsDone, MigrateSnapshot, MarkFirst, Normalize, ClearTransactions,
         InsertTransactions, ClearDeposits, InsertDeposits, RecordsDone, RefreshRead,
         RefreshTransactions, RefreshWrite, MarkSecond, UpdateDocument, UpdateDailyData,
         DeleteDailyData, Request, Crash
    <3>2. Running(u, m) /\ ~Running(u, m)' BY <2>2, <3>1 DEF MarkFirst, MarkSecond, FunctionsOK
    <3>3. u # v /\ Running(v, m) BY <2>2, <3>1, <3>2 DEF MarkFirst, MarkSecond, FunctionsOK
    <3> QED BY <2>2, <3>2, <3>3 DEF RacesOK
  <2> QED BY <2>3, <2>4
<1> QED BY <1>2, <1>3

LEMMA StutterGood ==
    ASSUME MInv, UNCHANGED hvars
    PROVE  MInv' /\ TakesNothingBack
<1> USE DEF hvars
<1>1. StoreOK' /\ EditsAfterMarkers' BY DEF MInv, StoreOK, EditsAfterMarkers
<1>2. \A w \in Workers : Job(w)' BY DEF MInv, Job
<1>3. FunctionsOK' /\ RacesOK' BY DEF MInv, FunctionsOK, RacesOK, Running
<1>4. \A i \in Records : records[i] # NULL => records[i].version \in Int
  BY DEF MInv, StoreOK, RecordSets, Contents, Versions
<1>5. TakesNothingBack BY <1>4 DEF TakesNothingBack
<1> QED BY <1>1, <1>2, <1>3, <1>5 DEF MInv

LEMMA StepCorrect ==
    ASSUME MInv, [HNext]_hvars
    PROVE  MInv' /\ TakesNothingBack
<1>1. CASE HNext
  <2>1. PICK w \in Workers : Good(w) BY <1>1, StepGood
  <2>2. (\A v \in Workers : Job(v)') /\ FunctionsOK' BY <2>1, Others DEF Good
  <2>3. RacesOK' BY <1>1, RacesStep
  <2> QED BY <2>1, <2>2, <2>3 DEF Good, MInv
<1> QED BY <1>1, StutterGood

LEMMA Inductive == HSpec => []MInv
<1>1. HInit => MInv BY InitCorrect
<1>2. MInv /\ [HNext]_hvars => MInv' BY StepCorrect
<1> QED BY <1>1, <1>2, PTL DEF HSpec

-----------------------------------------------------------------------------
(* What a worker has done of the second migration, while it runs alone.    *)
Progress(w) ==
    /\ pc[w] \in Normalizing =>
          \A i \in Records : read[w].records[i] # NULL /\ (i \notin todo[w] => RecordNormal(i))
    /\ pc[w] \in Normalizing \ {"normalize"} => records[item[w]].schema = 2
    /\ pc[w] = "insert_transactions" => RowsOf(transactions, item[w]) = {}
    /\ pc[w] \in {"clear_deposits", "insert_deposits"} => RowsRight(transactions, item[w])
    /\ pc[w] = "insert_deposits" => RowsOf(deposits, item[w]) = {}
    /\ pc[w] \in Refreshing =>
          /\ \A i \in Records : RecordNormal(i)
          /\ \A d \in Days \ todo[w] : DayFresh(d)
    /\ pc[w] = "refresh_transactions" => read[w].records = records
    /\ pc[w] = "refresh_write" => read[w] = Counted(item[w], records, transactions)

(* Before the second marker no record is gone and what the migration has   *)
(* done so far is right; after it everything is.                           *)
NInv ==
    /\ "second" \in markers => "first" \in markers
    /\ raced = {} /\ "second" \notin markers =>
          /\ \A i \in Records : records[i] # NULL
          /\ \A w \in Workers : Progress(w)
    /\ raced = {} /\ "second" \in markers => Normalized

(* Rows apart from those of record i are in both or in none.               *)
SameApart(rows, more, i) == \A row : row.rec # i => (row \in rows <=> row \in more)

LEMMA RowsApart ==
    ASSUME NEW rows, NEW more, NEW i, NEW j, i # j, SameApart(rows, more, i)
    PROVE  RowsOf(rows, j) = RowsOf(more, j)
BY DEF SameApart, RowsOf

LEMMA RecordApart ==
    ASSUME NEW i \in Records, NEW j \in Records, i # j, records'[j] = records[j],
           SameApart(transactions, transactions', i), SameApart(deposits, deposits', i),
           RecordNormal(j)
    PROVE  RecordNormal(j)'
<1>1. /\ RowsOf(transactions', j) = RowsOf(transactions, j)
      /\ RowsOf(deposits', j) = RowsOf(deposits, j)
  BY RowsApart
<1>2. \A row : row \in RowsOf(transactions, j) => row \in transactions'
  BY <1>1 DEF RowsOf
<1>3. \A row : row \in RowsOf(deposits, j) => row \in deposits'
  BY <1>1 DEF RowsOf
<1>4. RowsRight(transactions, j)'
  <2>1. CASE records[j] = NULL BY <1>1, <2>1 DEF RecordNormal, RowsRight
  <2>2. CASE records[j] # NULL
    <3>1. PICK row \in transactions : RowsOf(transactions, j) = {row} /\ row.version = records[j].version
      BY <2>2 DEF RecordNormal, RowsRight
    <3>2. row \in transactions' /\ RowsOf(transactions', j) = {row} BY <1>1, <1>2, <3>1
    <3> QED BY <2>2, <3>1, <3>2 DEF RowsRight
  <2> QED BY <2>1, <2>2
<1>5. RowsRight(deposits, j)'
  <2>1. CASE records[j] = NULL BY <1>1, <2>1 DEF RecordNormal, RowsRight
  <2>2. CASE records[j] # NULL
    <3>1. PICK row \in deposits : RowsOf(deposits, j) = {row} /\ row.version = records[j].version
      BY <2>2 DEF RecordNormal, RowsRight
    <3>2. row \in deposits' /\ RowsOf(deposits', j) = {row} BY <1>1, <1>3, <3>1
    <3> QED BY <2>2, <3>1, <3>2 DEF RowsRight
  <2> QED BY <2>1, <2>2
<1> QED BY <1>4, <1>5 DEF RecordNormal

(* Clearing the rows of a record.                                          *)
LEMMA Cleared ==
    ASSUME NEW rows, NEW i
    PROVE  /\ SameApart(rows, rows \ RowsOf(rows, i), i)
           /\ RowsOf(rows \ RowsOf(rows, i), i) = {}
BY DEF SameApart, RowsOf

LEMMA SnapshotApart ==
    ASSUME NEW p \in Periods, NEW i, i \notin RecordsOf[p], NEW recs, NEW recs2, NEW rows, NEW more,
           \A j \in Records : j # i => recs2[j] = recs[j], SameApart(rows, more, i)
    PROVE  SnapshotOf(p, recs2, more) = SnapshotOf(p, recs, rows)
<1>1. \A j \in RecordsOf[p] : recs2[j] = recs[j] /\ j # i OBVIOUS
<1> DEFINE S == {j \in RecordsOf[p] : recs[j] # NULL}
<1>2. {j \in RecordsOf[p] : recs2[j] # NULL} = S BY <1>1
<1>3. [j \in S |-> recs2[j]] = [j \in S |-> recs[j]] BY <1>1
<1>4. {row \in more : row.rec \in RecordsOf[p]} = {row \in rows : row.rec \in RecordsOf[p]}
  BY DEF SameApart
<1>5. Counted(p, recs2, more) = Counted(p, recs, rows) BY <1>2, <1>3, <1>4 DEF Counted
<1> QED BY <1>1, <1>5 DEF SnapshotOf

-----------------------------------------------------------------------------
LEMMA Alone ==
    ASSUME MInv, raced = {}, NEW u \in Workers, pc[u] \in Normalizing \cup Refreshing
    PROVE  /\ "second" \notin markers
           /\ \A v \in Workers \ {u} : pc[v] \notin Normalizing \cup Refreshing
BY DEF MInv, RacesOK, Running

(* Before the second marker every version is the one the older version left. *)
LEMMA NothingEdited ==
    ASSUME MInv, "second" \notin markers
    PROVE  /\ edits = 0
           /\ \A i \in Records : records[i] # NULL => records[i] \in Contents /\ records[i].version = 0
           /\ \A w \in Workers : pc[w] \in Normalizing =>
                 \A i \in todo[w] : /\ i \in Records
                                    /\ read[w].records[i] \in Contents
                                    /\ read[w].records[i].version = 0
<1>1. edits = 0 BY DEF MInv, EditsAfterMarkers, StoreOK, Versions
<1>2. \A c \in Contents : c.version \in Int /\ c.version >= 0 BY DEF Contents, Versions
<1>3. \A i \in Records : records[i] # NULL => records[i] \in Contents /\ records[i].version <= edits
  BY DEF MInv, StoreOK, RecordSets
<1>4. \A w \in Workers : pc[w] \in Normalizing =>
        \A i \in todo[w] : /\ i \in Records
                           /\ read[w].records[i] \in Contents
                           /\ read[w].records[i].version <= edits
  BY DEF MInv, Job
<1> QED BY <1>1, <1>2, <1>3, <1>4

(* The work of v goes on as it was when its rows and days are left alone.  *)
LEMMA ProgressKept ==
    ASSUME NEW v \in Workers, Progress(v), UNCHANGED <<records, transactions, deposits, snap>>,
           pc'[v] = pc[v], todo'[v] = todo[v], item'[v] = item[v], read'[v] = read[v]
    PROVE  Progress(v)'
<1>1. \A i : RecordNormal(i)' <=> RecordNormal(i) BY DEF RecordNormal, RowsRight
<1>2. \A d : DayFresh(d)' <=> DayFresh(d) BY DEF DayFresh
<1>3. \A i : RowsRight(transactions, i)' <=> RowsRight(transactions, i) BY DEF RowsRight
<1> HIDE DEF RecordNormal, DayFresh, RowsRight
<1> QED BY <1>1, <1>2, <1>3 DEF Progress

(* What worker u has done of the second migration after its step.          *)
Done(u) ==
    /\ "second" \notin markers' => (\A i \in Records : records'[i] # NULL) /\ Progress(u)'
    /\ "second" \in markers' => Normalized'

LEMMA NormalizeDone ==
    ASSUME MInv, NInv, raced = {}, NEW u \in Workers, NEW i \in Records, Normalize(u, i)
    PROVE  Done(u)
<1> USE DEF Normalizing, Refreshing
<1>1. pc[u] = "normalize" /\ i \in todo[u] BY DEF Normalize, At
<1>2. "second" \notin markers /\ FunctionsOK BY <1>1, Alone DEF MInv
<1>3. Progress(u) /\ records[i] # NULL /\ records \in RecordSets BY <1>2 DEF NInv, MInv, StoreOK
<1> DEFINE new == [version |-> read[u].records[i].version, schema |-> 2]
<1>4. new \in Contents /\ new.schema = 2
  BY <1>1, <1>2, NothingEdited DEF Contents
<1>5. records' = [records EXCEPT ![i] = new] BY <1>3 DEF Normalize
<1>6. /\ pc'[u] = "clear_transactions" /\ item'[u] = i /\ markers' = markers
      /\ UNCHANGED <<transactions, deposits, todo, read>>
  BY <1>2 DEF Normalize, Goto, FunctionsOK
<1>7. \A j \in Records : j # i => records'[j] = records[j]
  <2> HIDE DEF new
  <2> QED BY <1>3, <1>5 DEF RecordSets
<1>8. records'[i] = new
  <2> HIDE DEF new
  <2> QED BY <1>3, <1>5 DEF RecordSets
<1>9. \A j \in Records : records'[j] # NULL
  <2> HIDE DEF new
  <2> QED BY <1>2, <1>4, <1>7, <1>8 DEF NInv
<1>10. SameApart(transactions, transactions', i) /\ SameApart(deposits, deposits', i)
  BY <1>6 DEF SameApart
<1>11. \A j \in Records : j \notin todo[u] => RecordNormal(j)'
  <2> SUFFICES ASSUME NEW j \in Records, j \notin todo[u] PROVE RecordNormal(j)' OBVIOUS
  <2>1. RecordNormal(j) /\ j # i BY <1>1, <1>3 DEF Progress
  <2> QED BY <1>7, <1>10, <2>1, RecordApart
<1>12. \A j \in Records : read[u].records[j] # NULL BY <1>1, <1>3 DEF Progress
<1>13. Progress(u)'
  <2> HIDE DEF new
  <2> QED BY <1>4, <1>6, <1>8, <1>11, <1>12 DEF Progress
<1> QED BY <1>2, <1>6, <1>9, <1>13 DEF Done

(* The steps that replace the rows of the record.                          *)
LEMMA RowsDone ==
    ASSUME MInv, NInv, raced = {}, NEW u \in Workers,
           ClearTransactions(u) \/ InsertTransactions(u) \/ ClearDeposits(u) \/ InsertDeposits(u)
    PROVE  Done(u)
<1> USE DEF Normalizing, Refreshing
<1>1. pc[u] \in Normalizing \ {"normalize"}
  BY DEF ClearTransactions, InsertTransactions, ClearDeposits, InsertDeposits, At
<1>2. "second" \notin markers /\ FunctionsOK BY <1>1, Alone DEF MInv
<1>3. Progress(u) /\ (\A j \in Records : records[j] # NULL) BY <1>2 DEF NInv
<1>4. PICK i \in Records : i = item[u] /\ i \in todo[u] BY <1>1 DEF MInv, Job
<1>5. records[i].version = 0 /\ records[i].schema = 2 /\ read[u].records[i].version = 0
  BY <1>1, <1>2, <1>3, <1>4, NothingEdited DEF Progress
<1>6. UNCHANGED <<markers, records, item, read>> /\ item'[u] = i
  BY <1>4 DEF ClearTransactions, InsertTransactions, ClearDeposits, InsertDeposits
<1>7. \A j \in Records : read[u].records[j] # NULL /\ (j \notin todo[u] => RecordNormal(j))
  BY <1>1, <1>3 DEF Progress
<1>8. ASSUME SameApart(transactions, transactions', i), SameApart(deposits, deposits', i)
      PROVE  \A j \in Records : j \notin todo[u] => RecordNormal(j)'
  <2> SUFFICES ASSUME NEW j \in Records, j \notin todo[u] PROVE RecordNormal(j)' OBVIOUS
  <2>1. RecordNormal(j) /\ j # i BY <1>4, <1>7
  <2> QED BY <1>4, <1>6, <1>8, <2>1, RecordApart
<1>9. CASE ClearTransactions(u)
  <2>1. /\ transactions' = transactions \ RowsOf(transactions, i)
        /\ pc'[u] = "insert_transactions" /\ UNCHANGED <<deposits, todo>>
    BY <1>2, <1>9, <1>4 DEF ClearTransactions, Goto, FunctionsOK
  <2>2. RowsOf(transactions', i) = {} /\ SameApart(transactions, transactions', i) BY <2>1, Cleared
  <2>3. SameApart(deposits, deposits', i) BY <2>1 DEF SameApart
  <2>4. \A j \in Records : j \notin todo[u] => RecordNormal(j)' BY <1>8, <2>2, <2>3
  <2>5. Progress(u)' BY <1>4, <1>5, <1>6, <1>7, <2>1, <2>2, <2>4 DEF Progress
  <2> QED BY <1>2, <1>3, <1>6, <2>5 DEF Done
<1>10. CASE InsertTransactions(u)
  <2>1. /\ transactions' = transactions \cup {Row(i, 0, u)}
        /\ pc'[u] = "clear_deposits" /\ UNCHANGED <<deposits, todo>>
    BY <1>2, <1>5, <1>10, <1>4 DEF InsertTransactions, Goto, FunctionsOK
  <2>2. RowsOf(transactions, i) = {} BY <1>3, <1>10, <1>4 DEF Progress, InsertTransactions, At
  <2>3. RowsOf(transactions', i) = {Row(i, 0, u)} /\ SameApart(transactions, transactions', i)
    BY <2>1, <2>2 DEF SameApart, RowsOf, Row
  <2>4. RowsRight(transactions, i)'
    <3>1. Row(i, 0, u) \in transactions' /\ Row(i, 0, u).version = 0 BY <2>1 DEF Row
    <3>2. records'[i] # NULL /\ records'[i].version = 0 BY <1>3, <1>4, <1>5, <1>6
    <3> HIDE DEF Row
    <3> QED BY <2>3, <3>1, <3>2, Zenon DEF RowsRight
  <2>5. SameApart(deposits, deposits', i) BY <2>1 DEF SameApart
  <2>6. \A j \in Records : j \notin todo[u] => RecordNormal(j)' BY <1>8, <2>3, <2>5
  <2>7. Progress(u)' BY <1>4, <1>5, <1>6, <1>7, <2>1, <2>4, <2>6 DEF Progress
  <2> QED BY <1>2, <1>3, <1>6, <2>7 DEF Done
<1>11. CASE ClearDeposits(u)
  <2>1. /\ deposits' = deposits \ RowsOf(deposits, i)
        /\ pc'[u] = "insert_deposits" /\ UNCHANGED <<transactions, todo>>
    BY <1>2, <1>11, <1>4 DEF ClearDeposits, Goto, FunctionsOK
  <2>2. RowsOf(deposits', i) = {} /\ SameApart(deposits, deposits', i) BY <2>1, Cleared
  <2>3. SameApart(transactions, transactions', i) BY <2>1 DEF SameApart
  <2>4. RowsRight(transactions, i) BY <1>3, <1>11, <1>4 DEF Progress, ClearDeposits, At
  <2>5. RowsRight(transactions, i)' BY <1>6, <2>1, <2>4 DEF RowsRight
  <2>6. \A j \in Records : j \notin todo[u] => RecordNormal(j)' BY <1>8, <2>2, <2>3
  <2>7. Progress(u)' BY <1>4, <1>5, <1>6, <1>7, <2>1, <2>2, <2>5, <2>6 DEF Progress
  <2> QED BY <1>2, <1>3, <1>6, <2>7 DEF Done
<1>12. CASE InsertDeposits(u)
  <2>1. /\ deposits' = deposits \cup {Row(i, 0, u)}
        /\ pc'[u] = "normalize" /\ UNCHANGED transactions /\ todo'[u] = todo[u] \ {i}
    BY <1>2, <1>5, <1>12, <1>4 DEF InsertDeposits, Goto, SetTodo, FunctionsOK
  <2>2. RowsOf(deposits, i) = {} /\ RowsRight(transactions, i)
    BY <1>3, <1>12, <1>4 DEF Progress, InsertDeposits, At
  <2>3. RowsOf(deposits', i) = {Row(i, 0, u)} /\ SameApart(deposits, deposits', i)
    BY <2>1, <2>2 DEF SameApart, RowsOf, Row
  <2>4. RowsRight(deposits, i)'
    <3>1. Row(i, 0, u) \in deposits' /\ Row(i, 0, u).version = 0 BY <2>1 DEF Row
    <3>2. records'[i] # NULL /\ records'[i].version = 0 BY <1>3, <1>4, <1>5, <1>6
    <3> HIDE DEF Row
    <3> QED BY <2>3, <3>1, <3>2, Zenon DEF RowsRight
  <2>5. SameApart(transactions, transactions', i) BY <2>1 DEF SameApart
  <2>6. \A j \in Records : j \notin todo[u] => RecordNormal(j)' BY <1>8, <2>3, <2>5
  <2>7. RowsRight(transactions, i)' BY <1>6, <2>1, <2>2 DEF RowsRight
  <2>8. RecordNormal(i)' BY <1>5, <1>6, <2>4, <2>7 DEF RecordNormal
  <2>9. \A j \in Records : j \notin todo'[u] => RecordNormal(j)' BY <2>1, <2>6, <2>8
  <2>10. Progress(u)' BY <1>6, <1>7, <2>1, <2>9 DEF Progress
  <2> QED BY <1>2, <1>3, <1>6, <2>10 DEF Done
<1> QED BY <1>9, <1>10, <1>11, <1>12

(* The steps from the records to the days and through them.                *)
LEMMA RefreshDone ==
    ASSUME MInv, NInv, raced = {}, NEW u \in Workers,
           RecordsDone(u) \/ (\E d \in Days : RefreshRead(u, d)) \/ RefreshTransactions(u)
             \/ RefreshWrite(u) \/ MarkSecond(u)
    PROVE  Done(u)
<1> USE DEF Normalizing, Refreshing
<1>1. pc[u] \in Normalizing \cup Refreshing
  BY DEF RecordsDone, RefreshRead, RefreshTransactions, RefreshWrite, MarkSecond, At
<1>2. "second" \notin markers /\ FunctionsOK BY <1>1, Alone DEF MInv
<1>3. Progress(u) /\ (\A j \in Records : records[j] # NULL) BY <1>2 DEF NInv
<1>4. UNCHANGED <<records, transactions, deposits>>
  BY DEF RecordsDone, RefreshRead, RefreshTransactions, RefreshWrite, MarkSecond, store
<1>5. \A j : RecordNormal(j)' <=> RecordNormal(j) BY <1>4 DEF RecordNormal, RowsRight
<1>6. \A j \in Records : RecordNormal(j)
  BY <1>3 DEF RecordsDone, RefreshRead, RefreshTransactions, RefreshWrite, MarkSecond, At, Progress
<1>7. ASSUME snap' = snap PROVE \A d : DayFresh(d)' <=> DayFresh(d)
  BY <1>4, <1>7 DEF DayFresh
<1>8. CASE RecordsDone(u)
  <2>1. /\ pc'[u] = "refresh" /\ UNCHANGED <<markers, snap>>
        /\ todo'[u] = {d \in Days : \E i \in RecordsOf[d] : read[u].records[i] # NULL}
    BY <1>2, <1>8 DEF RecordsDone, Goto, SetTodo, FunctionsOK, store
  <2>2. \A i \in Records : read[u].records[i] # NULL
    BY <1>3, <1>8 DEF RecordsDone, At, Progress
  <2>3. \A d \in Days \ todo'[u] : DayFresh(d)'
    <3> SUFFICES ASSUME NEW d \in Days \ todo'[u] PROVE RecordsOf[d] = {} BY DEF DayFresh
    <3>1. RecordsOf[d] \subseteq Records OBVIOUS
    <3> QED BY <2>1, <2>2, <3>1
  <2>4. Progress(u)' BY <1>5, <1>6, <2>1, <2>3 DEF Progress
  <2> QED BY <1>2, <1>3, <1>4, <2>1, <2>4 DEF Done
<1>9. CASE \E d \in Days : RefreshRead(u, d)
  <2>1. pc[u] = "refresh" BY <1>9 DEF RefreshRead, At
  <2>2. /\ pc'[u] = "refresh_transactions" /\ UNCHANGED <<markers, snap, todo>>
        /\ read'[u].records = records
    BY <1>2, <1>9 DEF RefreshRead, Goto, Keep, FunctionsOK, store
  <2>3. \A d \in Days \ todo[u] : DayFresh(d) BY <1>3, <2>1 DEF Progress
  <2>4. Progress(u)' BY <1>4, <1>5, <1>6, <1>7, <2>2, <2>3 DEF Progress
  <2> QED BY <1>2, <1>3, <1>4, <2>2, <2>4 DEF Done
<1>10. CASE RefreshTransactions(u)
  <2>1. pc[u] = "refresh_transactions" BY <1>10 DEF RefreshTransactions, At
  <2>2. read[u].records = records /\ \A d \in Days \ todo[u] : DayFresh(d)
    BY <1>3, <2>1 DEF Progress
  <2>3. /\ pc'[u] = "refresh_write" /\ UNCHANGED <<markers, snap, todo, item>>
        /\ read'[u] = Counted(item[u], records, transactions)
    BY <1>2, <1>10, <2>2 DEF RefreshTransactions, Goto, Keep, FunctionsOK, store
  <2>4. Progress(u)' BY <1>4, <1>5, <1>6, <1>7, <2>2, <2>3 DEF Progress
  <2> QED BY <1>2, <1>3, <1>4, <2>3, <2>4 DEF Done
<1>11. CASE RefreshWrite(u)
  <2>1. pc[u] = "refresh_write" BY <1>11 DEF RefreshWrite, At
  <2>2. /\ read[u] = Counted(item[u], records, transactions)
        /\ \A d \in Days \ todo[u] : DayFresh(d)
    BY <1>3, <2>1 DEF Progress
  <2>3. item[u] \in Days /\ item[u] \in Periods BY <2>1 DEF MInv, Job
  <2>4. /\ pc'[u] = "refresh" /\ UNCHANGED markers /\ todo'[u] = todo[u] \ {item[u]}
        /\ snap' = [snap EXCEPT ![item[u]] = Counted(item[u], records, transactions)]
    BY <1>2, <1>11, <2>2 DEF RefreshWrite, Goto, SetTodo, FunctionsOK
  <2>5. snap = [p \in Periods |-> snap[p]] BY DEF MInv, StoreOK
  <2>6. \A d \in Days \ todo'[u] : DayFresh(d)'
    <3> SUFFICES ASSUME NEW d \in Days \ todo'[u], RecordsOf[d] # {}
                 PROVE  snap'[d] = SnapshotOf(d, records, transactions)
      BY <1>4 DEF DayFresh
    <3>1. CASE d = item[u]
      <4>1. snap'[d] = Counted(d, records, transactions) BY <2>3, <2>4, <2>5, <3>1
      <4>2. \E j \in RecordsOf[d] : records[j] # NULL
        BY <1>3
      <4> QED BY <4>1, <4>2 DEF SnapshotOf
    <3>2. CASE d # item[u]
      <4>1. snap'[d] = snap[d] BY <2>4, <2>5, <3>2
      <4>2. DayFresh(d) BY <2>2, <2>4, <3>2
      <4> QED BY <4>1, <4>2 DEF DayFresh
    <3> QED BY <3>1, <3>2
  <2>7. Progress(u)' BY <1>5, <1>6, <2>4, <2>6 DEF Progress
  <2> QED BY <1>2, <1>3, <1>4, <2>4, <2>7 DEF Done
<1>12. CASE MarkSecond(u)
  <2>1. pc[u] = "refresh" /\ todo[u] = {} /\ snap' = snap /\ "second" \in markers'
    BY <1>12 DEF MarkSecond, At, store
  <2>2. \A d \in Days : DayFresh(d) BY <1>3, <2>1 DEF Progress
  <2>3. Normalized' BY <1>5, <1>6, <1>7, <2>1, <2>2 DEF Normalized
  <2> QED BY <2>1, <2>3 DEF Done
<1> QED BY <1>8, <1>9, <1>10, <1>11, <1>12

(* Requests keep every record, its rows and its days right.                *)
LEMMA ServeKeeps ==
    ASSUME MInv, MInv', Normalized, NEW u \in Workers, Serve(u)
    PROVE  Normalized'
<1>1. CASE \E d \in Docs : UpdateDocument(u, d)
  <2>1. UNCHANGED <<records, transactions, deposits, snap>> BY <1>1 DEF UpdateDocument
  <2> QED BY <2>1 DEF Normalized, RecordNormal, RowsRight, DayFresh
<1>2. CASE \E i \in Records : UpdateDailyData(u, i) \/ DeleteDailyData(u, i)
  <2>1. PICK i \in Records : UpdateDailyData(u, i) \/ DeleteDailyData(u, i) BY <1>2
  <2>2. records[i] # NULL /\ records \in RecordSets /\ RecordNormal(i)
    BY <2>1 DEF UpdateDailyData, DeleteDailyData, MInv, StoreOK, Normalized
  <2>3. \A j \in Records : j # i => records'[j] = records[j]
    BY <2>1, <2>2 DEF UpdateDailyData, DeleteDailyData, RecordSets
  <2>4. PICK r \in deposits : RowsOf(deposits, i) = {r} /\ r.version = records[i].version
    BY <2>2 DEF RecordNormal, RowsRight
  <2>5. /\ SameApart(transactions, transactions', i) /\ SameApart(deposits, deposits', i)
        /\ RecordNormal(i)'
    <3>1. CASE UpdateDailyData(u, i)
      <4> DEFINE cleared == transactions \ RowsOf(transactions, i)
                 left == deposits \ RowsOf(deposits, i)
      <4>1. /\ transactions' = cleared \cup {Row(i, edits + 1, u)}
            /\ deposits' = left \cup {Row(i, edits + 1, r.by)}
        BY <3>1, <2>4 DEF UpdateDailyData
      <4>2. /\ SameApart(transactions, cleared, i) /\ RowsOf(cleared, i) = {}
            /\ SameApart(deposits, left, i) /\ RowsOf(left, i) = {}
        BY Cleared
      <4> HIDE DEF cleared, left
      <4>3. SameApart(cleared, transactions', i) /\ RowsOf(transactions', i) = {Row(i, edits + 1, u)}
        BY <4>1, <4>2 DEF SameApart, RowsOf, Row
      <4>4. SameApart(left, deposits', i) /\ RowsOf(deposits', i) = {Row(i, edits + 1, r.by)}
        BY <4>1, <4>2 DEF SameApart, RowsOf, Row
      <4>5. SameApart(transactions, transactions', i) /\ SameApart(deposits, deposits', i)
        BY <4>2, <4>3, <4>4 DEF SameApart
      <4>6. records'[i].version = edits + 1 /\ records'[i].schema = 2
        <5>1. records' = [records EXCEPT ![i] = [records[i] EXCEPT !.version = edits + 1]]
          BY <3>1 DEF UpdateDailyData
        <5>2. records[i] \in Contents BY <2>2 DEF RecordSets
        <5>3. [records[i] EXCEPT !.version = edits + 1].version = edits + 1
              /\ [records[i] EXCEPT !.version = edits + 1].schema = records[i].schema
          BY <5>2 DEF Contents
        <5>4. records[i].schema = 2 BY <2>2 DEF RecordNormal
        <5> QED BY <2>2, <5>1, <5>3, <5>4 DEF RecordSets
      <4>7. records'[i] # NULL
        <5>1. records' = [records EXCEPT ![i] = [records[i] EXCEPT !.version = edits + 1]]
          BY <3>1 DEF UpdateDailyData
        <5>2. edits + 1 \in Versions BY <3>1 DEF UpdateDailyData, Request, MInv, StoreOK
        <5>3. [records[i] EXCEPT !.version = edits + 1] \in Contents
          BY <2>2, <5>2 DEF RecordSets, Contents
        <5> QED BY <2>2, <5>1, <5>3 DEF RecordSets
      <4>8. Row(i, edits + 1, u).version = edits + 1 /\ Row(i, edits + 1, r.by).version = edits + 1
        BY DEF Row
      <4>9. Row(i, edits + 1, u) \in transactions' /\ Row(i, edits + 1, r.by) \in deposits' BY <4>1
      <4> HIDE DEF Row
      <4>10. RowsRight(transactions, i)' BY <4>3, <4>6, <4>7, <4>8, <4>9 DEF RowsRight
      <4>11. RowsRight(deposits, i)' BY <4>4, <4>6, <4>7, <4>8, <4>9 DEF RowsRight
      <4> QED BY <4>5, <4>6, <4>10, <4>11 DEF RecordNormal
    <3>2. CASE DeleteDailyData(u, i)
      <4>1. /\ transactions' = transactions \ RowsOf(transactions, i)
            /\ deposits' = deposits \ RowsOf(deposits, i)
        BY <3>2 DEF DeleteDailyData
      <4>2. /\ SameApart(transactions, transactions', i) /\ RowsOf(transactions', i) = {}
            /\ SameApart(deposits, deposits', i) /\ RowsOf(deposits', i) = {}
        BY <4>1, Cleared
      <4>3. records'[i] = NULL BY <2>2, <3>2 DEF DeleteDailyData, RecordSets
      <4> QED BY <4>2, <4>3 DEF RecordNormal, RowsRight
    <3> QED BY <2>1, <3>1, <3>2
  <2>6. ASSUME NEW j \in Records PROVE RecordNormal(j)'
    <3>1. RecordNormal(j) BY DEF Normalized
    <3> QED BY <2>3, <2>5, <3>1, RecordApart
  <2>7. ASSUME NEW d \in Days PROVE DayFresh(d)'
    <3>1. SyncRecords(i) BY <2>1 DEF UpdateDailyData, DeleteDailyData
    <3>2. CASE i \in RecordsOf[d] BY <3>1, <3>2 DEF SyncRecords, DayFresh
    <3>3. CASE i \notin RecordsOf[d]
      <4>1. snap'[d] = snap[d] BY <3>1, <3>3 DEF SyncRecords
      <4>2. SnapshotOf(d, records', transactions') = SnapshotOf(d, records, transactions)
        BY <2>3, <2>5, <3>3, SnapshotApart
      <4>3. DayFresh(d) BY DEF Normalized
      <4> QED BY <4>1, <4>2, <4>3 DEF DayFresh
    <3> QED BY <3>2, <3>3
  <2> QED BY <2>6, <2>7 DEF Normalized
<1> QED BY <1>1, <1>2 DEF Serve

-----------------------------------------------------------------------------
LEMMA MarkersStep ==
    ASSUME MInv, NInv, HNext
    PROVE  "second" \in markers' => "first" \in markers'
<1>1. PICK u \in Workers : StartUp(u) \/ Serve(u) \/ Crash(u) BY DEF HNext, Next
<1>2. CASE MarkSecond(u) \/ MarkFirst(u)
  BY <1>2 DEF MarkSecond, MarkFirst, At, MInv, Job, Migrating, NInv
<1>3. CASE ~(MarkSecond(u) \/ MarkFirst(u))
  <2>1. markers' = markers
    BY <1>1, <1>3 DEF StartUp, Serve, StartWorker, FindFirst, FindSecond, MigrateDocument,
       DocumentsDone, MigrateSnapshot, Normalize, ClearTransactions, InsertTransactions,
       ClearDeposits, InsertDeposits, RecordsDone, RefreshRead, RefreshTransactions,
       RefreshWrite, UpdateDocument, UpdateDailyData, DeleteDailyData, Request, Crash
  <2> QED BY <2>1 DEF NInv
<1> QED BY <1>2, <1>3

(* The steps of a worker that is not in the second migration.              *)
Outside(u) ==
    \/ StartWorker(u) \/ FindFirst(u) \/ FindSecond(u) \/ DocumentsDone(u) \/ MarkFirst(u) \/ Crash(u)
    \/ (\E d \in Docs : MigrateDocument(u, d)) \/ (\E p \in Periods : MigrateSnapshot(u, p))

Inside(u) ==
    \/ (\E i \in Records : Normalize(u, i)) \/ ClearTransactions(u) \/ InsertTransactions(u)
    \/ ClearDeposits(u) \/ InsertDeposits(u) \/ RecordsDone(u)
    \/ (\E d \in Days : RefreshRead(u, d)) \/ RefreshTransactions(u) \/ RefreshWrite(u) \/ MarkSecond(u)

(* They leave records and rows alone, and snapshots once the first marker  *)
(* is set.                                                                 *)
LEMMA OutsideKeeps ==
    ASSUME MInv, raced = {}, NEW u \in Workers, Outside(u)
    PROVE  /\ UNCHANGED <<records, transactions, deposits>>
           /\ "first" \in markers => snap' = snap
           /\ "second" \in markers' <=> "second" \in markers
<1>1. /\ UNCHANGED <<records, transactions, deposits>>
      /\ "second" \in markers' <=> "second" \in markers
  BY DEF Outside, StartWorker, FindFirst, FindSecond, DocumentsDone, MarkFirst, Crash,
     MigrateDocument, MigrateSnapshot, store
<1>2. CASE \E p \in Periods : MigrateSnapshot(u, p)
  <2>1. Running(u, "first") BY <1>2 DEF MigrateSnapshot, At, Running, Migrating
  <2> QED BY <1>1, <2>1 DEF MInv, RacesOK
<1>3. CASE ~\E p \in Periods : MigrateSnapshot(u, p)
  BY <1>1, <1>3 DEF Outside, StartWorker, FindFirst, FindSecond, DocumentsDone, MarkFirst, Crash,
     MigrateDocument, store
<1> QED BY <1>2, <1>3

LEMMA OutsideDone ==
    ASSUME MInv, NInv, raced = {}, NEW u \in Workers, Outside(u), "second" \notin markers
    PROVE  Progress(u)'
<1> USE DEF Normalizing, Refreshing
<1>1. FunctionsOK /\ \A i \in Records : records[i] # NULL BY DEF MInv, NInv
<1>2. CASE FindSecond(u)
  <2>1. /\ pc'[u] = "normalize" /\ todo'[u] = {i \in Records : records[i] # NULL}
        /\ read'[u].records = records
    BY <1>1, <1>2 DEF FindSecond, Goto, SetTodo, Keep, FunctionsOK
  <2> QED BY <1>1, <2>1 DEF Progress
<1>3. CASE ~FindSecond(u)
  <2>1. pc'[u] \notin Normalizing \cup Refreshing
    BY <1>1, <1>3 DEF Outside, StartWorker, FindFirst, DocumentsDone, MarkFirst, Crash,
       MigrateDocument, MigrateSnapshot, At, Goto, FunctionsOK
  <2> QED BY <2>1 DEF Progress
<1> QED BY <1>2, <1>3

LEMMA NormalStep ==
    ASSUME MInv, MInv', NInv, HNext
    PROVE  NInv'
<1>1. PICK u \in Workers : StartUp(u) \/ Serve(u) \/ Crash(u) BY DEF HNext, Next
<1>2. Inside(u) \/ Outside(u) \/ Serve(u) BY <1>1 DEF StartUp, Inside, Outside
<1>3. "second" \in markers' => "first" \in markers' BY MarkersStep
<1> SUFFICES ASSUME raced' = {}
             PROVE  /\ "second" \notin markers' =>
                         /\ \A i \in Records : records'[i] # NULL
                         /\ \A w \in Workers : Progress(w)'
                    /\ "second" \in markers' => Normalized'
  BY <1>3 DEF NInv
<1>4. raced = {} BY DEF HNext
<1>5. OnlyMoves(u)
  BY <1>1, StartGood, FirstGood, SecondGood, ServeGood, Zenon DEF StartUp, Good
<1>6. CASE Serve(u)
  <2>1. Job(u) /\ pc[u] = "serving" /\ markers' = markers
    BY <1>6 DEF MInv, Serve, UpdateDocument, UpdateDailyData, DeleteDailyData, Request, At
  <2>2. "second" \in markers BY <2>1 DEF Job
  <2> QED BY <1>4, <1>6, <2>1, <2>2, ServeKeeps DEF NInv
<1>7. CASE Inside(u)
  <2>1. pc[u] \in Normalizing \cup Refreshing
    BY <1>7 DEF Inside, Normalize, ClearTransactions, InsertTransactions, ClearDeposits,
       InsertDeposits, RecordsDone, RefreshRead, RefreshTransactions, RefreshWrite, MarkSecond,
       At, Normalizing, Refreshing
  <2>2. Done(u) BY <1>4, <1>7, NormalizeDone, RowsDone, RefreshDone, Zenon DEF Inside
  <2>3. ASSUME NEW v \in Workers, v # u PROVE Progress(v)'
    <3>1. pc'[v] \notin Normalizing \cup Refreshing
      BY <1>4, <1>5, <2>1, <2>3, Alone DEF OnlyMoves, At1
    <3> QED BY <3>1 DEF Progress, Normalizing, Refreshing
  <2> QED BY <2>2, <2>3 DEF Done
<1>8. CASE Outside(u)
  <2>1. /\ UNCHANGED <<records, transactions, deposits>>
        /\ "first" \in markers => snap' = snap
        /\ "second" \in markers' <=> "second" \in markers
    BY <1>4, <1>8, OutsideKeeps
  <2>2. CASE "second" \in markers
    <3>1. Normalized /\ snap' = snap BY <1>4, <2>1, <2>2 DEF NInv
    <3> QED BY <2>1, <2>2, <3>1 DEF Normalized, RecordNormal, RowsRight, DayFresh
  <2>3. CASE "second" \notin markers
    <3>1. \A i \in Records : records'[i] # NULL BY <1>4, <2>1, <2>3 DEF NInv
    <3>2. ASSUME NEW v \in Workers PROVE Progress(v)'
      <4>1. CASE v = u BY <1>4, <1>8, <2>3, <4>1, OutsideDone
      <4>2. CASE v # u
        <5>1. /\ pc'[v] = pc[v] /\ todo'[v] = todo[v] /\ item'[v] = item[v] /\ read'[v] = read[v]
          BY <1>5, <4>2 DEF OnlyMoves, At1
        <5>2. Progress(v) BY <1>4, <2>3 DEF NInv
        <5>3. CASE pc[v] \in Normalizing \cup Refreshing
          <6>1. "first" \in markers
            BY <5>3 DEF MInv, Job, Normalizing, Refreshing, Migrating
          <6> QED BY <2>1, <5>1, <5>2, <6>1, ProgressKept
        <5>4. CASE pc[v] \notin Normalizing \cup Refreshing
          BY <5>1, <5>4 DEF Progress, Normalizing, Refreshing
        <5> QED BY <5>3, <5>4
      <4> QED BY <4>1, <4>2
    <3> QED BY <2>1, <2>3, <3>1, <3>2
  <2> QED BY <2>2, <2>3
<1> QED BY <1>2, <1>6, <1>7, <1>8

LEMMA NormalInductive == HSpec => []NInv
<1>1. HInit => NInv
  <2> SUFFICES ASSUME HInit PROVE NInv OBVIOUS
  <2>1. \A i \in Records : records[i] # NULL
    <3>1. [version |-> 0, schema |-> 1] \in Contents BY DEF Contents, Versions
    <3>2. records = [i \in Records |-> [version |-> 0, schema |-> 1]] BY DEF HInit, Init
    <3> QED BY <3>1, <3>2
  <2>2. \A w \in Workers : Progress(w)
    BY DEF HInit, Init, Progress, Normalizing, Refreshing
  <2>3. markers = {} BY DEF HInit, Init
  <2> QED BY <2>1, <2>2, <2>3 DEF NInv
<1>2. MInv /\ MInv' /\ NInv /\ [HNext]_hvars => NInv'
  <2>1. ASSUME MInv, MInv', NInv, UNCHANGED hvars PROVE NInv'
    <3>1. /\ UNCHANGED <<markers, raced, records, transactions, deposits, snap>>
          /\ \A w \in Workers : /\ pc'[w] = pc[w] /\ todo'[w] = todo[w]
                                /\ item'[w] = item[w] /\ read'[w] = read[w]
      BY <2>1 DEF hvars
    <3>2. \A w \in Workers : Progress(w) => Progress(w)' BY <3>1, ProgressKept
    <3>3. Normalized' <=> Normalized
      BY <3>1 DEF Normalized, RecordNormal, RowsRight, DayFresh
    <3> QED BY <2>1, <3>1, <3>2, <3>3 DEF NInv
  <2> QED BY <2>1, NormalStep
<1> QED BY <1>1, <1>2, Inductive, PTL DEF HSpec

-----------------------------------------------------------------------------
(* Every row has its shape and workers treat what they have read, for any  *)
(* number of workers, however they stop and start.                         *)
THEOREM TypeCorrect == HSpec => []TypeOK
<1>1. MInv => TypeOK
  BY DEF MInv, StoreOK, Job, FunctionsOK, RecordSets, PCs, TypeOK
<1> QED BY <1>1, Inductive, PTL

(* The migrations never take back an edit of a document, of a daily record *)
(* or of a snapshot, unless two workers have run one at the same time.     *)
THEOREM EditsKept == HSpec => EditsSurvive
<1>1. MInv /\ [HNext]_hvars => [TakesNothingBack]_hvars BY StepCorrect
<1> QED BY <1>1, Inductive, PTL DEF HSpec, EditsSurvive

(* Once the second migration is marked every record is normalised, each    *)
(* with one row of its current content in both collections, and its days   *)
(* are recomputed, whatever stopped on the way and whatever requests do    *)
(* then - unless two workers have run a migration at the same time.        *)
THEOREM MarkedStaysNormalized == HSpec => []MarkedMeansNormalized
<1>1. NInv => MarkedMeansNormalized BY DEF NInv, MarkedMeansNormalized
<1> QED BY <1>1, NormalInductive, PTL

(* With a single worker the exception never applies.                       *)
THEOREM OneWorkerNeverRaces ==
    ASSUME \A v, w \in Workers : v = w
    PROVE  HSpec => [](raced = {})
<1>1. HInit => raced = {} BY DEF HInit
<1>2. raced = {} /\ [HNext]_hvars => (raced = {})'
  BY DEF HNext, hvars, Overlapping
<1> QED BY <1>1, <1>2, PTL DEF HSpec
=============================================================================
