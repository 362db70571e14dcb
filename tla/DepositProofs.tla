---------------------------- MODULE DepositProofs ----------------------------
(***************************************************************************)
(* For any requests, deposits, dates and periods, however requests interleave *)
(* and fail: the transactions of a deposit are wrong only where two requests were *)
(* at work on it or one failed (TransactionsOnce), and a snapshot only in a *)
(* period two requests contended for or one left unsaved (StaleWhereDisturbed). *)
(*                                                                         *)
(* Requests that are served one at a time implement the atomic requests of *)
(* FinanceLedger (AsIfAtomic): what TLC checks with ImplementsLedger on four *)
(* requests.  That invariant compares the store of a request at work with  *)
(* `committed', the store it found: which rows it has changed so far, and which *)
(* snapshots are already those of its final rows.                          *)
(***************************************************************************)
EXTENDS DepositHistory, SerialDeposits, FiniteSetTheorems, TLAPS

USE NullAssumption

(* The shapes of rows and of requests at work.                             *)
Moves == [id: Ids, date: Dates, amount: Amounts, by: Reqs]
Sources == [id: Ids, row: Rows]

WritingPCs == {"write", "clear", "fill", "drop_transactions", "drop"}

Early == [pc: WritingPCs \cup {"read_deposits"}, id: Ids, row: Rows \cup {NULL}, days: Seq(Dates)]
Middle == [pc: {"read_transactions"}, id: Ids, row: Rows \cup {NULL}, days: Seq(Dates),
           deposits: SUBSET Sources]
Late == [pc: {"find", "save"}, id: Ids, row: Rows \cup {NULL}, days: Seq(Dates),
         deposits: SUBSET Sources, txs: SUBSET Moves,
         periods: Seq(Periods), found: {"none", "seen", "gone"}]

Working(x) ==
    /\ x \in Early \cup Middle \cup Late
    /\ x.days # <<>>
    /\ x.pc \in {"write", "clear", "fill"} => x.row \in Rows /\ x.row.date \in SetOf(x.days)
    /\ x.pc \in {"find", "save"} => x.periods # <<>>

Shapes ==
    /\ deposits \in [Ids -> Rows \cup {NULL}]
    /\ created \in Nat
    /\ \A i \in Ids : deposits[i] # NULL => i <= created
    /\ txs \subseteq Moves
    /\ snap = [p \in Periods |-> snap[p]]
    /\ req = [r \in Reqs |-> req[r]]
    /\ \A r \in Reqs : req[r] # Idle => Working(req[r]) /\ req[r].id <= created

-----------------------------------------------------------------------------
(* The transactions.                                                       *)

TransactionsOf(i) == {t \in txs : t.id = i}

Right(i) ==
    IF deposits[i] = NULL THEN TransactionsOf(i) = {}
    ELSE \E t \in txs : /\ TransactionsOf(i) = {t}
                        /\ t.date = deposits[i].date /\ t.amount = deposits[i].amount

(* A request that has its deposit to itself finds what it has written.     *)
Prepared(r) ==
    /\ req[r].pc \in {"clear", "fill"} => deposits[req[r].id] = req[r].row
    /\ req[r].pc \in {"fill", "drop"} => TransactionsOf(req[r].id) = {}

Writing(r) == req[r] # Idle /\ ~Reading(r) /\ ~Saving(r)

OnceInv ==
    /\ crowded \subseteq InFlight
    /\ \A r, s \in Reqs : r # s /\ SameDeposit(r, s) => r \in crowded
    /\ \A r \in crowded : req[r].id \in shaky
    /\ \A r \in InFlight \ crowded : Prepared(r)
    /\ \A i \in Ids \ shaky : (\A r \in Reqs : req[r] # Idle /\ req[r].id = i => ~Writing(r)) => Right(i)

-----------------------------------------------------------------------------
(* The snapshots.                                                          *)

CountedRows(p, rows) == {d \in rows : d.row.date \in DaysOf[p]}
CountedMoves(p, page) == {t \in page : t.date \in DaysOf[p]}

(* What r has read of a period it has had to itself since is current.      *)
Current(r) ==
    \A p \in Scope(r) \ shared[r] :
       /\ req[r].pc \in {"read_transactions", "find", "save"} =>
             CountedRows(p, req[r].deposits) = CountedRows(p, DepositRows)
       /\ Saving(r) => CountedMoves(p, req[r].txs) = CountedMoves(p, txs)
       /\ req[r].pc = "save" /\ Head(req[r].periods) = p /\ req[r].found = "none" => snap[p] = NULL

StaleInv ==
    /\ \A r \in InFlight : Contended(r) \subseteq suspect \cap shared[r]
    /\ \A r \in Reqs : req[r] = Idle => shared[r] = {}
    /\ \A r \in InFlight : shared[r] \cap Scope(r) \subseteq suspect
    /\ \A r \in InFlight : Writing(r) =>
          At(RowDates[req[r].id]) \subseteq At(SetOf(req[r].days)) \cup suspect
    /\ \A r \in InFlight : Current(r)
    /\ \A p \in Periods \ suspect : Fresh(p) \/ \E r \in Reqs : p \in Scope(r)

-----------------------------------------------------------------------------
(* Requests at work, by what they do next.                                 *)
LEMMA Kinds ==
    ASSUME NEW x, Working(x)
    PROVE  /\ x # Idle
           /\ x.id \in Ids /\ x.row \in Rows \cup {NULL} /\ x.days \in Seq(Dates)
           /\ x.pc \in WritingPCs \cup {"read_deposits", "read_transactions", "find", "save"}
           /\ x.pc \in WritingPCs \cup {"read_deposits"} => x \in Early
           /\ x.pc = "read_transactions" => x \in Middle
           /\ x.pc \in {"find", "save"} => x \in Late
<1> USE DEF WritingPCs
<1>1. CASE x \in Early BY <1>1 DEF Early, Idle
<1>2. CASE x \in Middle BY <1>2 DEF Middle, Idle
<1>3. CASE x \in Late BY <1>3 DEF Late, Idle
<1> QED BY <1>1, <1>2, <1>3 DEF Working

(* Request q is where it was; the snapshot it found may be gone.           *)
Alike(q) ==
    /\ req'[q] = Idle <=> req[q] = Idle
    /\ req'[q] # Idle =>
          /\ Working(req'[q])
          /\ req'[q].pc = req[q].pc /\ req'[q].id = req[q].id
          /\ req'[q].row = req[q].row /\ req'[q].days = req[q].days
          /\ req[q].pc \in {"read_transactions", "find", "save"} => req'[q].deposits = req[q].deposits
          /\ req[q].pc \in {"find", "save"} =>
                /\ req'[q].txs = req[q].txs /\ req'[q].periods = req[q].periods
                /\ req'[q].found \in {req[q].found, "gone"}

(* Request s alone moves.                                                  *)
Apart(s) ==
    /\ req' = [q \in Reqs |-> req'[q]]
    /\ \A q \in Reqs \ {s} : Alike(q)

LEMMA OneMoves ==
    ASSUME Shapes, NEW s \in Reqs, NEW x, req' = [req EXCEPT ![s] = x]
    PROVE  Apart(s) /\ req'[s] = x
<1>1. req' = [q \in Reqs |-> IF q = s THEN x ELSE req[q]] BY DEF Shapes
<1>2. req'[s] = x BY <1>1
<1>3. \A q \in Reqs \ {s} : req'[q] = req[q] BY <1>1
<1>4. req' = [q \in Reqs |-> req'[q]] BY <1>1
<1>5. ASSUME NEW q \in Reqs \ {s} PROVE Alike(q)
  <2>1. req'[q] = req[q] BY <1>3
  <2>2. req[q] # Idle => Working(req[q]) BY DEF Shapes
  <2> QED BY <2>1, <2>2 DEF Alike
<1> QED BY <1>2, <1>4, <1>5 DEF Apart

(* Request s goes on to pc with what it knew.                              *)
GoesOn(s, pc) ==
    /\ req[s] # Idle /\ req'[s] # Idle
    /\ Working(req'[s])
    /\ req'[s].pc = pc /\ req'[s].id = req[s].id
    /\ req'[s].row = req[s].row /\ req'[s].days = req[s].days

LEMMA WritingGoesOn ==
    ASSUME Shapes, NEW s \in Reqs, req[s] # Idle, req[s].pc \in WritingPCs,
           NEW pc \in {"clear", "fill", "drop", "read_deposits"}, Goto(s, pc),
           pc \in {"clear", "fill"} => req[s].pc \in {"write", "clear"}
    PROVE  Apart(s) /\ GoesOn(s, pc)
<1>1. Working(req[s]) BY DEF Shapes
<1>2. req[s] \in Early BY <1>1, Kinds
<1>3. PICK x : x = [req[s] EXCEPT !.pc = pc] OBVIOUS
<1>4. /\ x \in Early /\ x.pc = pc /\ x.id = req[s].id /\ x.row = req[s].row
      /\ x.days = req[s].days
  BY <1>2, <1>3 DEF Early, WritingPCs
<1>5. req' = [req EXCEPT ![s] = x] BY <1>3 DEF Goto
<1>6. Apart(s) /\ req'[s] = x BY <1>5, OneMoves
<1>7. Working(x) BY <1>1, <1>4 DEF Working
<1>8. x # Idle BY <1>7, Kinds
<1> QED BY <1>4, <1>6, <1>7, <1>8 DEF GoesOn

LEMMA Leaves ==
    ASSUME Shapes, NEW s \in Reqs, Failed(s)
    PROVE  Apart(s) /\ req'[s] = Idle
BY OneMoves DEF Failed

-----------------------------------------------------------------------------
(* What each step does to its request.                                     *)

LEMMA WorkingAt ==
    ASSUME Shapes, NEW s \in Reqs,
           req[s].pc \in WritingPCs \cup {"read_deposits", "read_transactions", "find", "save"}
    PROVE  req[s] # Idle /\ Working(req[s]) /\ req[s].id \in Ids
<1>1. req[s] # Idle BY DEF Idle, WritingPCs
<1> QED BY <1>1, Kinds DEF Shapes

LEMMA Begins ==
    ASSUME Shapes, NEW s \in Reqs, NEW pc \in {"write", "clear", "drop_transactions"}, NEW i \in Ids,
           NEW row \in Rows \cup {NULL}, NEW days \in Seq(Dates), days # <<>>,
           pc \in {"write", "clear"} => row \in Rows /\ row.date \in SetOf(days),
           Begin(s, pc, i, row, days)
    PROVE  /\ Apart(s)
           /\ req'[s] # Idle /\ Working(req'[s])
           /\ req'[s].pc = pc /\ req'[s].id = i /\ req'[s].row = row /\ req'[s].days = days
<1>1. PICK x : x = [pc |-> pc, id |-> i, row |-> row, days |-> days] OBVIOUS
<1>2. x \in Early /\ x.pc = pc /\ x.id = i /\ x.row = row /\ x.days = days
  BY <1>1 DEF Early, WritingPCs
<1>3. Working(x) BY <1>2 DEF Working
<1>4. req' = [req EXCEPT ![s] = x] BY <1>1 DEF Begin
<1> QED BY <1>2, <1>3, <1>4, OneMoves, Kinds

LEMMA Lists ==
    ASSUME NEW a, NEW b
    PROVE  SetOf(<<a>>) = {a} /\ SetOf(<<a, b>>) = {a, b}
BY DEF SetOf

LEMMA SetOfSplit ==
    ASSUME NEW S, NEW list \in Seq(S), list # <<>>
    PROVE  /\ SetOf(list) = {Head(list)} \cup SetOf(Tail(list))
           /\ Head(list) \in S /\ Tail(list) \in Seq(S)
           /\ SetOf(list) \subseteq S
           /\ Len(list) > 1 <=> Tail(list) # <<>>
<1>1. Len(list) \in Nat /\ Len(list) > 0 OBVIOUS
<1>2. /\ Head(list) = list[1] /\ Head(list) \in S
      /\ Tail(list) \in Seq(S) /\ Len(Tail(list)) = Len(list) - 1
      /\ \A n \in 1 .. Len(list) - 1 : Tail(list)[n] = list[n + 1]
  OBVIOUS
<1>3. ASSUME NEW y \in SetOf(list) PROVE y \in {Head(list)} \cup SetOf(Tail(list))
  <2>1. PICK n \in 1 .. Len(list) : y = list[n] BY DEF SetOf
  <2>2. CASE n = 1 BY <1>2, <2>1, <2>2
  <2>3. CASE n # 1
    <3>1. n - 1 \in 1 .. Len(list) - 1 /\ (n - 1) + 1 = n BY <1>1, <2>1, <2>3
    <3>2. y = Tail(list)[n - 1] BY <1>2, <2>1, <3>1
    <3> QED BY <1>2, <3>1, <3>2 DEF SetOf
  <2> QED BY <2>2, <2>3
<1>4. ASSUME NEW y \in {Head(list)} \cup SetOf(Tail(list)) PROVE y \in SetOf(list)
  <2>1. CASE y = Head(list)
    <3>1. 1 \in 1 .. Len(list) BY <1>1
    <3> QED BY <1>2, <2>1, <3>1 DEF SetOf
  <2>2. CASE y \in SetOf(Tail(list))
    <3>1. PICK n \in 1 .. Len(list) - 1 : y = Tail(list)[n] BY <1>2, <2>2 DEF SetOf
    <3>2. n + 1 \in 1 .. Len(list) BY <1>1, <3>1
    <3> QED BY <1>2, <3>1, <3>2 DEF SetOf
  <2> QED BY <2>1, <2>2
<1>5. SetOf(list) \subseteq S BY DEF SetOf
<1>6. Len(list) > 1 <=> Tail(list) # <<>>
  <2>1. PICK t \in Seq(S) : t = Tail(list) /\ Len(t) = Len(list) - 1 BY <1>2
  <2>2. t # <<>> <=> Len(t) > 0 OBVIOUS
  <2>3. Len(list) > 1 <=> Len(t) > 0 BY <1>1, <2>1
  <2> QED BY <2>1, <2>2, <2>3, Zenon
<1>7. SetOf(list) = {Head(list)} \cup SetOf(Tail(list)) BY <1>3, <1>4
<1> QED BY <1>2, <1>5, <1>6, <1>7

-----------------------------------------------------------------------------
(* What the steps do.                                                      *)

LEMMA CreateFacts ==
    ASSUME Shapes, NEW s \in Reqs, NEW row \in Rows, Create(s, row)
    PROVE  /\ req[s] = Idle /\ Apart(s) /\ created' = created + 1 /\ created + 1 \in Ids
           /\ req'[s] # Idle /\ Working(req'[s])
           /\ req'[s].pc = "clear" /\ req'[s].id = created + 1
           /\ req'[s].row = row /\ req'[s].days = <<row.date>>
           /\ deposits' = [deposits EXCEPT ![created + 1] = row]
           /\ UNCHANGED <<txs, snap>>
<1>1. /\ req[s] = Idle /\ created + 1 \in Ids /\ created' = created + 1
      /\ deposits' = [deposits EXCEPT ![created + 1] = row]
      /\ UNCHANGED <<txs, snap>> /\ Begin(s, "clear", created + 1, row, <<row.date>>)
  BY DEF Create, MayStart
<1>2. row.date \in Dates BY DEF Rows
<1>3. <<row.date>> \in Seq(Dates) /\ <<row.date>> # <<>> BY <1>2
<1>4. row.date \in SetOf(<<row.date>>) BY Lists
<1> HIDE DEF Rows
<1>5. /\ Apart(s) /\ req'[s] # Idle /\ Working(req'[s])
      /\ req'[s].pc = "clear" /\ req'[s].id = created + 1
      /\ req'[s].row = row /\ req'[s].days = <<row.date>>
  <2>1. PICK days : days = <<row.date>> OBVIOUS
  <2>2. PICK i \in Ids : i = created + 1 BY <1>1
  <2>3. days \in Seq(Dates) /\ days # <<>> /\ row.date \in SetOf(days) BY <1>3, <1>4, <2>1
  <2>4. Begin(s, "clear", i, row, days) BY <1>1, <2>1, <2>2
  <2> QED BY <2>1, <2>2, <2>3, <2>4, Begins
<1> QED BY <1>1, <1>5

LEMMA BeginUpdateFacts ==
    ASSUME Shapes, NEW s \in Reqs, NEW i \in Ids, NEW row \in Rows, BeginUpdate(s, i, row)
    PROVE  /\ req[s] = Idle /\ Apart(s) /\ UNCHANGED store /\ deposits[i] # NULL
           /\ req'[s] # Idle /\ Working(req'[s])
           /\ req'[s].pc = "write" /\ req'[s].id = i
           /\ req'[s].row = row /\ req'[s].days = <<deposits[i].date, row.date>>
<1>1. /\ req[s] = Idle /\ UNCHANGED store /\ deposits[i] # NULL
      /\ Begin(s, "write", i, row, <<deposits[i].date, row.date>>)
  BY DEF BeginUpdate, MayStart
<1>2. deposits[i] \in Rows BY <1>1 DEF Shapes
<1>3. row.date \in Dates /\ deposits[i].date \in Dates BY <1>2 DEF Rows
<1>4. PICK days : days = <<deposits[i].date, row.date>> OBVIOUS
<1>5. days \in Seq(Dates) /\ days # <<>> BY <1>3, <1>4
<1>6. row.date \in SetOf(days)
  <2>1. SetOf(days) = {deposits[i].date, row.date} BY <1>4, Lists, Zenon
  <2> QED BY <2>1
<1>7. Begin(s, "write", i, row, days) BY <1>1, <1>4, Zenon
<1>8. /\ Apart(s) /\ req'[s] # Idle /\ Working(req'[s])
      /\ req'[s].pc = "write" /\ req'[s].id = i /\ req'[s].row = row /\ req'[s].days = days
  BY <1>5, <1>6, <1>7, Begins
<1> QED BY <1>1, <1>4, <1>8, Zenon

LEMMA BeginDeleteFacts ==
    ASSUME Shapes, NEW s \in Reqs, NEW i \in Ids, BeginDelete(s, i)
    PROVE  /\ req[s] = Idle /\ Apart(s) /\ UNCHANGED store /\ deposits[i] # NULL
           /\ req'[s] # Idle /\ Working(req'[s])
           /\ req'[s].pc = "drop_transactions" /\ req'[s].id = i
           /\ req'[s].row = NULL /\ req'[s].days = <<deposits[i].date>>
<1>1. /\ req[s] = Idle /\ UNCHANGED store /\ deposits[i] # NULL
      /\ Begin(s, "drop_transactions", i, NULL, <<deposits[i].date>>)
  BY DEF BeginDelete, MayStart
<1>2. deposits[i] \in Rows BY <1>1 DEF Shapes
<1>3. deposits[i].date \in Dates BY <1>2 DEF Rows
<1>4. PICK days : days = <<deposits[i].date>> OBVIOUS
<1>5. days \in Seq(Dates) /\ days # <<>> BY <1>3, <1>4
<1>6. PICK row \in Rows \cup {NULL} : row = NULL OBVIOUS
<1>7. Begin(s, "drop_transactions", i, row, days) BY <1>1, <1>4, <1>6, Zenon
<1>8. /\ Apart(s) /\ req'[s] # Idle /\ Working(req'[s])
      /\ req'[s].pc = "drop_transactions" /\ req'[s].id = i
      /\ req'[s].row = row /\ req'[s].days = days
  BY <1>5, <1>7, Begins
<1> QED BY <1>1, <1>4, <1>6, <1>8, Zenon

(* Request s is at work, about to take the step of pc.                     *)
About(s, pc) ==
    req[s] # Idle /\ Working(req[s]) /\ req[s].pc = pc /\ req[s].id \in Ids

LEMMA WriteFacts ==
    ASSUME Shapes, NEW s \in Reqs, Write(s)
    PROVE  /\ About(s, "write") /\ Apart(s) /\ UNCHANGED <<created, txs, snap>>
           /\ deposits[req[s].id] = NULL => req'[s] = Idle /\ UNCHANGED deposits
           /\ deposits[req[s].id] # NULL =>
                 /\ GoesOn(s, "clear")
                 /\ deposits' = [deposits EXCEPT ![req[s].id] = req[s].row]
<1>1. req[s].pc = "write" /\ UNCHANGED <<created, txs, snap>> BY DEF Write
<1>2. About(s, "write") BY <1>1, WorkingAt DEF About, WritingPCs
<1>3. CASE deposits[req[s].id] = NULL
  <2>1. Failed(s) /\ UNCHANGED deposits BY <1>3 DEF Write
  <2> QED BY <1>1, <1>2, <1>3, <2>1, Leaves
<1>4. CASE deposits[req[s].id] # NULL
  <2>1. Goto(s, "clear") /\ deposits' = [deposits EXCEPT ![req[s].id] = req[s].row]
    BY <1>4 DEF Write
  <2>2. Apart(s) /\ GoesOn(s, "clear") BY <1>1, <1>2, <2>1, WritingGoesOn DEF About, WritingPCs
  <2> QED BY <1>1, <1>2, <1>4, <2>1, <2>2
<1> QED BY <1>3, <1>4

LEMMA ClearFacts ==
    ASSUME Shapes, NEW s \in Reqs, Clear(s)
    PROVE  /\ About(s, "clear") /\ Apart(s) /\ GoesOn(s, "fill")
           /\ txs' = {t \in txs : t.id # req[s].id} /\ UNCHANGED <<deposits, created, snap>>
<1>1. req[s].pc = "clear" /\ Goto(s, "fill") BY DEF Clear
<1>2. About(s, "clear") BY <1>1, WorkingAt DEF About, WritingPCs
<1>3. Apart(s) /\ GoesOn(s, "fill") BY <1>1, <1>2, WritingGoesOn DEF About, WritingPCs
<1> QED BY <1>2, <1>3 DEF Clear, Others

LEMMA FillFacts ==
    ASSUME Shapes, NEW s \in Reqs, Fill(s)
    PROVE  /\ About(s, "fill") /\ Apart(s) /\ GoesOn(s, "read_deposits")
           /\ txs' = txs \cup {[id |-> req[s].id, date |-> req[s].row.date,
                                amount |-> req[s].row.amount, by |-> s]}
           /\ UNCHANGED <<deposits, created, snap>>
<1>1. req[s].pc = "fill" /\ Goto(s, "read_deposits") BY DEF Fill
<1>2. About(s, "fill") BY <1>1, WorkingAt DEF About, WritingPCs
<1>3. Apart(s) /\ GoesOn(s, "read_deposits")
  BY <1>1, <1>2, WritingGoesOn DEF About, WritingPCs
<1> QED BY <1>2, <1>3 DEF Fill

LEMMA DropTransactionsFacts ==
    ASSUME Shapes, NEW s \in Reqs, DropTransactions(s)
    PROVE  /\ About(s, "drop_transactions") /\ Apart(s) /\ GoesOn(s, "drop")
           /\ txs' = {t \in txs : t.id # req[s].id} /\ UNCHANGED <<deposits, created, snap>>
<1>1. req[s].pc = "drop_transactions" /\ Goto(s, "drop") BY DEF DropTransactions
<1>2. About(s, "drop_transactions") BY <1>1, WorkingAt DEF About, WritingPCs
<1>3. Apart(s) /\ GoesOn(s, "drop") BY <1>1, <1>2, WritingGoesOn DEF About, WritingPCs
<1> QED BY <1>2, <1>3 DEF DropTransactions, Others

LEMMA DropFacts ==
    ASSUME Shapes, NEW s \in Reqs, Drop(s)
    PROVE  /\ About(s, "drop") /\ Apart(s) /\ UNCHANGED <<created, txs, snap>>
           /\ deposits[req[s].id] = NULL => req'[s] = Idle /\ UNCHANGED deposits
           /\ deposits[req[s].id] # NULL =>
                 /\ GoesOn(s, "read_deposits")
                 /\ deposits' = [deposits EXCEPT ![req[s].id] = NULL]
<1>1. req[s].pc = "drop" /\ UNCHANGED <<created, txs, snap>> BY DEF Drop
<1>2. About(s, "drop") BY <1>1, WorkingAt DEF About, WritingPCs
<1>3. CASE deposits[req[s].id] = NULL
  <2>1. Failed(s) /\ UNCHANGED deposits BY <1>3 DEF Drop
  <2> QED BY <1>1, <1>2, <1>3, <2>1, Leaves
<1>4. CASE deposits[req[s].id] # NULL
  <2>1. Goto(s, "read_deposits") /\ deposits' = [deposits EXCEPT ![req[s].id] = NULL]
    BY <1>4 DEF Drop
  <2>2. Apart(s) /\ GoesOn(s, "read_deposits")
    BY <1>1, <1>2, <2>1, WritingGoesOn DEF About, WritingPCs
  <2> QED BY <1>1, <1>2, <1>4, <2>1, <2>2
<1> QED BY <1>3, <1>4

LEMMA SourcesOK == ASSUME Shapes PROVE NewestDeposits \subseteq DepositRows /\ DepositRows \subseteq Sources
<1>1. NewestDeposits \subseteq DepositRows BY DEF NewestDeposits
<1>2. ASSUME NEW i \in Ids, deposits[i] # NULL PROVE [id |-> i, row |-> deposits[i]] \in Sources
  <2>1. deposits[i] \in Rows BY <1>2 DEF Shapes
  <2> HIDE DEF Rows
  <2> QED BY <2>1 DEF Sources
<1> QED BY <1>1, <1>2 DEF DepositRows

LEMMA ReadDepositsFacts ==
    ASSUME Shapes, NEW s \in Reqs, ReadDeposits(s)
    PROVE  /\ About(s, "read_deposits") /\ Apart(s) /\ UNCHANGED store
           /\ GoesOn(s, "read_transactions") /\ req'[s].deposits = NewestDeposits
<1>1. req[s].pc = "read_deposits" /\ UNCHANGED store BY DEF ReadDeposits
<1>2. About(s, "read_deposits") BY <1>1, WorkingAt DEF About
<1>3. PICK x : x = [pc |-> "read_transactions", id |-> req[s].id, row |-> req[s].row,
                    days |-> req[s].days, deposits |-> NewestDeposits]
  OBVIOUS
<1>4. req' = [req EXCEPT ![s] = x] BY <1>3 DEF ReadDeposits
<1>5. Working(req[s]) /\ req[s].row \in Rows \cup {NULL} /\ req[s].days \in Seq(Dates)
      /\ req[s].id \in Ids /\ req[s].days # <<>>
  BY <1>2, Kinds DEF About, Working
<1>6. /\ x \in Middle /\ x.pc = "read_transactions" /\ x.id = req[s].id /\ x.row = req[s].row
      /\ x.days = req[s].days /\ x.deposits = NewestDeposits
  <2>1. PICK D \in SUBSET Sources : D = NewestDeposits BY SourcesOK
  <2> HIDE DEF Rows
  <2> QED BY <1>3, <1>5, <2>1 DEF Middle
<1>7. Working(x) BY <1>5, <1>6 DEF Working
<1>8. Apart(s) /\ req'[s] = x BY <1>4, OneMoves
<1>9. x # Idle BY <1>7, Kinds
<1> QED BY <1>1, <1>2, <1>6, <1>7, <1>8, <1>9 DEF GoesOn, About

LEMMA ReadTransactionsFacts ==
    ASSUME Shapes, NEW s \in Reqs, ReadTransactions(s)
    PROVE  /\ About(s, "read_transactions") /\ Apart(s) /\ UNCHANGED store
           /\ GoesOn(s, "find") /\ req'[s].deposits = req[s].deposits
           /\ req'[s].txs \in TransactionPages
           /\ req'[s].periods = PeriodsOf[Head(req[s].days)]
<1>1. req[s].pc = "read_transactions" /\ UNCHANGED store BY DEF ReadTransactions
<1>2. About(s, "read_transactions") BY <1>1, WorkingAt DEF About
<1>3. PICK page \in TransactionPages :
        req' = [req EXCEPT ![s] = [pc |-> "find", id |-> req[s].id, row |-> req[s].row,
                                   days |-> req[s].days, deposits |-> req[s].deposits, txs |-> page,
                                   periods |-> PeriodsOf[Head(req[s].days)], found |-> "none"]]
  BY DEF ReadTransactions
<1>4. PICK x : x = [pc |-> "find", id |-> req[s].id, row |-> req[s].row,
                    days |-> req[s].days, deposits |-> req[s].deposits, txs |-> page,
                    periods |-> PeriodsOf[Head(req[s].days)], found |-> "none"]
  OBVIOUS
<1>5. /\ req[s].row \in Rows \cup {NULL} /\ req[s].days \in Seq(Dates)
      /\ req[s].id \in Ids /\ req[s].days # <<>>
  BY <1>2, Kinds DEF About, Working
<1>6. req[s].deposits \in SUBSET Sources BY <1>1, <1>2, Kinds DEF About, Middle
<1>7. page \in SUBSET Moves BY DEF TransactionPages, Shapes
<1>8. PeriodsOf[Head(req[s].days)] \in Seq(Periods) /\ PeriodsOf[Head(req[s].days)] # <<>>
  <2>1. Head(req[s].days) \in Dates BY <1>5, SetOfSplit
  <2> QED BY <2>1, PeriodsAssumption
<1>9. /\ x \in Late /\ x.pc = "find" /\ x.id = req[s].id /\ x.row = req[s].row
      /\ x.days = req[s].days /\ x.deposits = req[s].deposits /\ x.txs = page
      /\ x.periods = PeriodsOf[Head(req[s].days)]
  <2> HIDE DEF Rows
  <2> QED BY <1>4, <1>5, <1>6, <1>7, <1>8 DEF Late
<1>10. Working(x)
  <2>1. x.periods # <<>> /\ x.days # <<>> BY <1>5, <1>8, <1>9, Zenon
  <2> QED BY <1>9, <2>1 DEF Working
<1>11. Apart(s) /\ req'[s] = x
  <2>1. req' = [req EXCEPT ![s] = x] BY <1>3, <1>4, Zenon
  <2> QED BY <2>1, OneMoves
<1>12. x # Idle BY <1>10, Kinds
<1> QED BY <1>1, <1>2, <1>9, <1>10, <1>11, <1>12, Zenon DEF GoesOn, About

LEMMA FindFacts ==
    ASSUME Shapes, NEW s \in Reqs, Find(s)
    PROVE  /\ About(s, "find") /\ Apart(s) /\ UNCHANGED store
           /\ GoesOn(s, "save") /\ req'[s].deposits = req[s].deposits
           /\ req'[s].txs = req[s].txs /\ req'[s].periods = req[s].periods
           /\ req'[s].found \in {"none", "seen"}
           /\ req'[s].found = "none" => snap[Head(req[s].periods)] = NULL
<1>1. req[s].pc = "find" /\ UNCHANGED store BY DEF Find
<1>2. About(s, "find") BY <1>1, WorkingAt DEF About
<1>3. PICK found \in {"seen", "none"} :
        /\ found = IF snap[Head(req[s].periods)] # NULL THEN "seen" ELSE "none"
        /\ req' = [req EXCEPT ![s].pc = "save", ![s].found = found]
  BY DEF Find
<1>4. req[s] \in Late BY <1>1, <1>2, Kinds DEF About
<1>5. PICK x : x = [req[s] EXCEPT !.pc = "save", !.found = found] OBVIOUS
<1>6. /\ x \in Late /\ x.pc = "save" /\ x.id = req[s].id /\ x.row = req[s].row
      /\ x.days = req[s].days /\ x.deposits = req[s].deposits /\ x.txs = req[s].txs
      /\ x.periods = req[s].periods /\ x.found = found
  <2> HIDE DEF Rows
  <2> QED BY <1>4, <1>5 DEF Late
<1>7. Working(x)
  <2>1. req[s].periods # <<>> /\ req[s].days # <<>> BY <1>1, <1>2 DEF About, Working
  <2> QED BY <1>6, <2>1 DEF Working
<1>8. Apart(s) /\ req'[s] = x
  <2>1. req = [q \in Reqs |-> req[q]] BY DEF Shapes
  <2>2. req' = [req EXCEPT ![s] = x] BY <1>3, <1>5, <2>1
  <2> QED BY <2>2, OneMoves
<1>9. x # Idle BY <1>7, Kinds
<1> QED BY <1>1, <1>2, <1>3, <1>6, <1>7, <1>8, <1>9 DEF GoesOn, About

(* The request goes on to the next period or to the next day, or ends.     *)
AfterSave(s) ==
    \/ /\ Tail(req[s].periods) # <<>>
       /\ GoesOn(s, "find") /\ req'[s].periods = Tail(req[s].periods)
       /\ req'[s].deposits = req[s].deposits /\ req'[s].txs = req[s].txs
    \/ /\ Tail(req[s].periods) = <<>> /\ Tail(req[s].days) # <<>>
       /\ req'[s] # Idle /\ Working(req'[s]) /\ req'[s].pc = "read_deposits"
       /\ req'[s].id = req[s].id /\ req'[s].row = req[s].row /\ req'[s].days = Tail(req[s].days)
    \/ /\ Tail(req[s].periods) = <<>> /\ Tail(req[s].days) = <<>>
       /\ req'[s] = Idle

LEMMA SaveFacts ==
    ASSUME Shapes, NEW s \in Reqs, Save(s)
    PROVE  /\ About(s, "save") /\ Apart(s) /\ UNCHANGED <<deposits, created, txs>>
           /\ SaveFails(s) => req'[s] = Idle /\ UNCHANGED snap
           /\ ~SaveFails(s) =>
                 /\ AfterSave(s)
                 /\ snap' = [snap EXCEPT ![Head(req[s].periods)] =
                               IF New(s) # NULL \/ req[s].found = "seen" THEN New(s) ELSE @]
<1>1. req[s].pc = "save" /\ UNCHANGED <<deposits, created, txs>> BY DEF Save
<1>2. About(s, "save") BY <1>1, WorkingAt DEF About
<1>3. req[s] \in Late BY <1>1, <1>2, Kinds DEF About
<1>4. CASE SaveFails(s)
  <2>1. Failed(s) /\ UNCHANGED snap BY <1>4 DEF Save
  <2> QED BY <1>1, <1>2, <1>4, <2>1, Leaves
<1>5. CASE ~SaveFails(s)
  <2> DEFINE p == Head(req[s].periods)
             deletes == New(s) = NULL /\ req[s].found = "seen"
             misled == {q \in InFlight \ {s} : /\ deletes
                                               /\ req[q].pc = "save" /\ Head(req[q].periods) = p
                                               /\ req[q].found = "seen"}
             other == [q \in Reqs |-> IF q \in misled THEN [req[q] EXCEPT !.found = "gone"] ELSE req[q]]
  <2>1. /\ snap' = [snap EXCEPT ![p] = IF New(s) # NULL \/ deletes THEN New(s) ELSE @]
        /\ req' = NextPeriod(s, other)
    BY <1>5 DEF Save
  <2>2. other[s] = req[s] OBVIOUS
  <2>3. PICK next : next = Advanced(req[s]) OBVIOUS
  <2>4. req' = [other EXCEPT ![s] = next]
    <3> HIDE DEF other
    <3> QED BY <2>1, <2>2, <2>3 DEF NextPeriod
  <2>5. /\ req' = [q \in Reqs |-> req'[q]] /\ req'[s] = next
        /\ \A q \in Reqs \ {s} : req'[q] = other[q]
    <3>1. other = [q \in Reqs |-> other[q]] OBVIOUS
    <3> HIDE DEF other
    <3> QED BY <2>4, <3>1
  <2>6. ASSUME NEW q \in Reqs \ {s} PROVE Alike(q)
    <3>1. CASE q \notin misled
      <4>1. req'[q] = req[q] BY <2>5, <3>1
      <4> QED BY <4>1 DEF Alike, Shapes
    <3>2. CASE q \in misled
      <4>1. req'[q] = [req[q] EXCEPT !.found = "gone"] BY <2>5, <3>2
      <4>2. req[q] # Idle /\ Working(req[q]) /\ req[q].pc = "save"
        BY <3>2 DEF InFlight, Shapes
      <4>3. req[q] \in Late BY <4>2, Kinds
      <4>4. PICK x : x = [req[q] EXCEPT !.found = "gone"] OBVIOUS
      <4>5. /\ x \in Late /\ x.pc = req[q].pc /\ x.id = req[q].id /\ x.row = req[q].row
            /\ x.days = req[q].days /\ x.deposits = req[q].deposits /\ x.txs = req[q].txs
            /\ x.periods = req[q].periods /\ x.found = "gone"
        <5> HIDE DEF misled, other, Rows
        <5> QED BY <4>3, <4>4 DEF Late
      <4>6. Working(x) BY <4>2, <4>5 DEF Working
      <4>7. x # Idle BY <4>6, Kinds
      <4>8. req'[q] = x BY <4>1, <4>4
      <4> HIDE DEF misled, other
      <4> QED BY <4>2, <4>5, <4>6, <4>7, <4>8 DEF Alike
    <3> QED BY <3>1, <3>2
  <2>7. Apart(s)
    <3> HIDE DEF other, misled
    <3> QED BY <2>5, <2>6 DEF Apart
  <2> HIDE DEF other, misled
  <2>8. /\ req[s].periods \in Seq(Periods) /\ req[s].periods # <<>>
        /\ req[s].days \in Seq(Dates) /\ req[s].days # <<>>
    BY <1>1, <1>2, <1>3 DEF Late, About, Working
  <2>9. /\ Tail(req[s].periods) \in Seq(Periods) /\ Tail(req[s].days) \in Seq(Dates)
        /\ Len(req[s].periods) > 1 <=> Tail(req[s].periods) # <<>>
        /\ Len(req[s].days) > 1 <=> Tail(req[s].days) # <<>>
    BY <2>8, SetOfSplit
  <2>10. AfterSave(s)
    <3>1. CASE Tail(req[s].periods) # <<>>
      <4>1. PICK rest \in Seq(Periods) : rest = Tail(req[s].periods) /\ rest # <<>> BY <2>9, <3>1
      <4>2. next = [req[s] EXCEPT !.pc = "find", !.periods = rest, !.found = "none"]
        BY <2>3, <2>9, <3>1, <4>1 DEF Advanced
      <4>3. /\ next \in Late /\ next.pc = "find" /\ next.id = req[s].id /\ next.row = req[s].row
            /\ next.days = req[s].days /\ next.deposits = req[s].deposits /\ next.txs = req[s].txs
            /\ next.periods = rest
        <5> HIDE DEF Rows
        <5> QED BY <1>3, <4>1, <4>2 DEF Late
      <4>4. Working(next) BY <2>8, <4>1, <4>3 DEF Working
      <4>5. next # Idle BY <4>4, Kinds
      <4> QED BY <1>2, <2>5, <3>1, <4>1, <4>3, <4>4, <4>5, Zenon DEF AfterSave, GoesOn, About
    <3>2. CASE Tail(req[s].periods) = <<>> /\ Tail(req[s].days) # <<>>
      <4>1. PICK rest \in Seq(Dates) : rest = Tail(req[s].days) /\ rest # <<>> BY <2>9, <3>2
      <4>2. next = [pc |-> "read_deposits", id |-> req[s].id, row |-> req[s].row, days |-> rest]
        BY <2>3, <2>9, <3>2, <4>1 DEF Advanced
      <4>3. /\ next \in Early /\ next.pc = "read_deposits" /\ next.id = req[s].id
            /\ next.row = req[s].row /\ next.days = rest
        <5> HIDE DEF Rows
        <5> QED BY <1>3, <4>1, <4>2 DEF Late, Early
      <4>4. Working(next) BY <4>1, <4>3 DEF Working
      <4>5. next # Idle BY <4>4, Kinds
      <4> QED BY <2>5, <3>2, <4>1, <4>3, <4>4, <4>5, Zenon DEF AfterSave
    <3>3. CASE Tail(req[s].periods) = <<>> /\ Tail(req[s].days) = <<>>
      <4>1. next = Idle BY <2>3, <2>9, <3>3 DEF Advanced
      <4> QED BY <2>5, <3>3, <4>1, Zenon DEF AfterSave
    <3> QED BY <3>1, <3>2, <3>3
  <2>11. snap' = [snap EXCEPT ![Head(req[s].periods)] =
                    IF New(s) # NULL \/ req[s].found = "seen" THEN New(s) ELSE @]
    BY <2>1
  <2> QED BY <1>1, <1>2, <1>5, <2>7, <2>10, <2>11
<1> QED BY <1>4, <1>5

-----------------------------------------------------------------------------
(* The transactions: what a step of s has to show.                         *)

RowsKept(i) == deposits'[i] = deposits[i] /\ TransactionsOf(i)' = TransactionsOf(i)

OnceStep(s) ==
    /\ Apart(s)
    /\ req[s] = Idle => Writing(s)'
    /\ req[s] # Idle /\ req'[s] # Idle => req'[s].id = req[s].id
    /\ \A i \in Ids : req'[s] = Idle \/ req'[s].id # i => RowsKept(i)
    /\ req[s] # Idle /\ ~Writing(s) => ~Writing(s)' /\ \A i \in Ids : RowsKept(i)
    /\ s \notin crowded' /\ req'[s] # Idle => Prepared(s)'
    /\ Writing(s) /\ req'[s] # Idle /\ ~Writing(s)' /\ s \notin crowded => Right(req[s].id)'
    /\ Writing(s) /\ req'[s] = Idle => req[s].id \in shaky'
    /\ crowded' = (crowded \cap InFlight') \cup Crowd'
    /\ \A q \in Crowd' : req'[q].id \in shaky'
    /\ \A i \in shaky \ shaky' : Writing(s) /\ i = req[s].id /\ s \notin crowded

LEMMA OnceStepKeeps ==
    ASSUME Shapes, Shapes', OnceInv, NEW s \in Reqs, OnceStep(s)
    PROVE  OnceInv'
<1>1. Crowd' \subseteq InFlight' BY DEF Crowd
<1>2. crowded' \subseteq InFlight' BY <1>1 DEF OnceStep
<1>3. ASSUME NEW q \in Reqs, NEW r \in Reqs, q # r, SameDeposit(q, r)' PROVE q \in Crowd'
  <2>1. SameDeposit(q, r)' => q \in InFlight' BY DEF SameDeposit, InFlight
  <2> QED BY <1>3, <2>1 DEF Crowd
<1>4. \A q, r \in Reqs : q # r /\ SameDeposit(q, r)' => q \in crowded'
  BY <1>3 DEF OnceStep
<1>5. ASSUME NEW q \in Reqs \ {s}
      PROVE  /\ req'[q] # Idle <=> req[q] # Idle
             /\ req'[q] # Idle => /\ req'[q].id = req[q].id /\ req'[q].pc = req[q].pc
                                  /\ req'[q].row = req[q].row /\ req[q].id \in Ids
             /\ Writing(q)' <=> Writing(q)
  <2>1. Alike(q) BY <1>5 DEF OnceStep, Apart
  <2>2. req[q] # Idle => req[q].id \in Ids BY Kinds DEF Shapes
  <2> QED BY <2>1, <2>2 DEF Alike, Writing, Reading, Saving
<1>6. ASSUME NEW q \in crowded' PROVE req'[q].id \in shaky'
  <2>1. CASE q \in Crowd' BY <2>1 DEF OnceStep
  <2>2. CASE q \notin Crowd'
    <3>1. q \in crowded /\ q \in InFlight' BY <1>6, <2>2 DEF OnceStep
    <3>2. q \in Reqs /\ req[q] # Idle /\ req'[q] # Idle BY <3>1 DEF OnceInv, InFlight
    <3>3. req'[q].id = req[q].id BY <1>5, <3>2 DEF OnceStep
    <3>4. req[q].id \in shaky BY <3>1 DEF OnceInv
    <3>5. ASSUME req[q].id \notin shaky' PROVE FALSE
      <4>1. req[s] # Idle /\ req[q].id = req[s].id /\ s \notin crowded
        BY <3>4, <3>5 DEF OnceStep, Writing
      <4>2. q # s /\ SameDeposit(s, q) BY <3>1, <3>2, <4>1 DEF SameDeposit
      <4> QED BY <3>2, <4>1, <4>2 DEF OnceInv
    <3> QED BY <3>3, <3>5
  <2> QED BY <2>1, <2>2
<1>7. ASSUME NEW q \in InFlight' \ crowded' PROVE Prepared(q)'
  <2>1. CASE q = s BY <1>7, <2>1 DEF OnceStep, InFlight
  <2>2. CASE q # s
    <3>1. q \in Reqs /\ req'[q] # Idle BY <1>7 DEF InFlight
    <3>2. q \in InFlight \ crowded BY <1>5, <1>7, <2>2, <3>1 DEF OnceStep, InFlight
    <3>3. req'[s] = Idle \/ req'[s].id # req'[q].id
      BY <1>4, <1>7, <2>2, <3>1 DEF SameDeposit
    <3>4. PICK i \in Ids : i = req[q].id /\ i = req'[q].id BY <1>5, <2>2, <3>1
    <3>5. RowsKept(i) BY <3>3, <3>4 DEF OnceStep
    <3>6. Prepared(q) BY <3>2 DEF OnceInv
    <3>7. req'[q].pc = req[q].pc /\ req'[q].row = req[q].row BY <1>5, <2>2, <3>1
    <3>8. TransactionsOf(req[q].id)' = TransactionsOf(req[q].id)
      BY <3>4, <3>5 DEF RowsKept, TransactionsOf
    <3> QED BY <3>4, <3>5, <3>6, <3>7, <3>8 DEF Prepared, RowsKept
  <2> QED BY <2>1, <2>2
<1>8. ASSUME NEW i \in Ids, RowsKept(i), Right(i) PROVE Right(i)'
  <2>1. deposits'[i] = deposits[i] /\ TransactionsOf(i)' = TransactionsOf(i) BY <1>8 DEF RowsKept
  <2>2. CASE deposits[i] = NULL BY <1>8, <2>1, <2>2 DEF Right
  <2>3. CASE deposits[i] # NULL
    <3>1. PICK t \in txs : /\ TransactionsOf(i) = {t}
                           /\ t.date = deposits[i].date /\ t.amount = deposits[i].amount
      BY <1>8, <2>3 DEF Right
    <3>2. t \in txs' BY <2>1, <3>1 DEF TransactionsOf
    <3> QED BY <2>1, <2>3, <3>1, <3>2 DEF Right
  <2> QED BY <2>2, <2>3
<1>9. ASSUME NEW i \in Ids \ shaky', \A q \in Reqs : req'[q] # Idle /\ req'[q].id = i => ~Writing(q)'
      PROVE  Right(i)'
  <2>1. ASSUME NEW q \in Reqs \ {s}, req[q] # Idle, req[q].id = i PROVE ~Writing(q)
    BY <1>5, <1>9, <2>1
  <2>2. CASE req[s] # Idle /\ req[s].id = i /\ Writing(s)
    <3>1. req'[s] # Idle BY <1>9, <2>2 DEF OnceStep
    <3>2. ~Writing(s)' BY <1>9, <2>2, <3>1 DEF OnceStep
    <3>3. s \notin crowded
      <4>1. s \in crowded => i \in shaky BY <2>2 DEF OnceInv
      <4> QED BY <1>9, <2>2, <4>1 DEF OnceStep
    <3> QED BY <2>2, <3>1, <3>2, <3>3 DEF OnceStep
  <2>3. CASE ~(req[s] # Idle /\ req[s].id = i /\ Writing(s))
    <3>1. i \notin shaky
      <4>1. ASSUME i \in shaky PROVE FALSE
        <5>1. Writing(s) /\ i = req[s].id BY <1>9, <4>1 DEF OnceStep
        <5> QED BY <2>3, <5>1 DEF Writing
      <4> QED BY <4>1
    <3>2. \A q \in Reqs : req[q] # Idle /\ req[q].id = i => ~Writing(q) BY <2>1, <2>3
    <3>3. Right(i) BY <3>1, <3>2 DEF OnceInv
    <3>4. RowsKept(i)
      <4>1. CASE req[s] = Idle
        <5>1. Writing(s)' BY <4>1 DEF OnceStep
        <5>2. req'[s].id # i BY <1>9, <5>1 DEF Writing
        <5> QED BY <5>2 DEF OnceStep
      <4>2. CASE req[s] # Idle BY <2>3, <4>2 DEF OnceStep
      <4> QED BY <4>1, <4>2
    <3> QED BY <1>8, <3>3, <3>4
  <2> QED BY <2>2, <2>3
<1> QED BY <1>2, <1>4, <1>6, <1>7, <1>9 DEF OnceInv

(* What the history variables say of a step.                               *)
Ends(s) == IF StepFails(s) THEN Broke(s) ELSE Went(s)

LEMMA Noted ==
    ASSUME NEW s, NEW lost, NEW lostIds, NEW healed, NEW healedIds,
           Record(s, lost, lostIds, healed, healedIds)
    PROVE  /\ crowded' = (crowded \cap InFlight') \cup Crowd'
           /\ \A q \in Crowd' : req'[q].id \in shaky'
           /\ lostIds \subseteq shaky'
           /\ \A i \in shaky \ shaky' : i \in healedIds
BY DEF Record

LEMMA EndsNoted ==
    ASSUME NEW s, Ends(s)
    PROVE  /\ crowded' = (crowded \cap InFlight') \cup Crowd'
           /\ \A q \in Crowd' : req'[q].id \in shaky'
           /\ StepFails(s) => req[s].id \in shaky'
           /\ \A i \in shaky \ shaky' :
                 i = req[s].id /\ s \notin crowded /\ req[s].pc \in {"fill", "drop"}
<1>1. CASE StepFails(s)
  <2>1. Record(s, Scope(s), {req[s].id}, {}, {}) BY <1>1 DEF Ends, Broke
  <2> QED BY <2>1, Noted
<1>2. CASE ~StepFails(s)
  <2>1. PICK healed : Record(s, {}, {}, healed,
                             IF req[s].pc \in {"fill", "drop"} /\ s \notin crowded THEN {req[s].id} ELSE {})
    BY <1>2 DEF Ends, Went
  <2> QED BY <1>2, <2>1, Noted
<1> QED BY <1>1, <1>2

LEMMA StartedNoted ==
    ASSUME NEW s, Started(s)
    PROVE  /\ crowded' = (crowded \cap InFlight') \cup Crowd'
           /\ \A q \in Crowd' : req'[q].id \in shaky'
           /\ shaky \subseteq shaky'
<1>1. PICK lost : Record(s, lost, {}, {}, {}) BY DEF Started
<1> QED BY <1>1, Noted

LEMMA WritingIs ==
    ASSUME Shapes, NEW s \in Reqs
    PROVE  Writing(s) <=> req[s] # Idle /\ req[s].pc \in WritingPCs
BY Kinds DEF Shapes, Writing, Reading, Saving, WritingPCs

LEMMA UnchangedRows ==
    ASSUME UNCHANGED <<deposits, txs>>
    PROVE  \A i \in Ids : RowsKept(i)
BY DEF RowsKept, TransactionsOf

LEMMA ArriveOnce ==
    ASSUME Shapes, Shapes', OnceInv, NEW s \in Reqs, Arrive(s), Started(s)
    PROVE  OnceStep(s)
<1>1. /\ crowded' = (crowded \cap InFlight') \cup Crowd'
      /\ \A q \in Crowd' : req'[q].id \in shaky'
      /\ shaky \subseteq shaky'
  BY StartedNoted
<1>2. Writing(s)' <=> req'[s] # Idle /\ req'[s].pc \in WritingPCs
  <2>1. req'[s] # Idle => Working(req'[s]) BY DEF Shapes
  <2> QED BY <2>1, Kinds DEF Writing, Reading, Saving, WritingPCs
<1>3. CASE \E row \in Rows : Create(s, row)
  <2>1. PICK row \in Rows : Create(s, row) BY <1>3
  <2>2. /\ req[s] = Idle /\ Apart(s) /\ created + 1 \in Ids
        /\ req'[s] # Idle /\ req'[s].pc = "clear" /\ req'[s].id = created + 1
        /\ req'[s].row = row
        /\ deposits' = [deposits EXCEPT ![created + 1] = row]
        /\ txs' = txs
    BY <2>1, CreateFacts
  <2>3. \A i \in Ids : i # created + 1 => RowsKept(i)
    BY <2>2 DEF RowsKept, TransactionsOf, Shapes
  <2>4. Prepared(s)' BY <2>2 DEF Prepared, Shapes
  <2> QED BY <1>1, <1>2, <2>2, <2>3, <2>4 DEF OnceStep, Writing, WritingPCs
<1>4. CASE \E i \in Ids : BeginDelete(s, i) \/ \E row \in Rows : BeginUpdate(s, i, row)
  <2>1. PICK i \in Ids : BeginDelete(s, i) \/ \E row \in Rows : BeginUpdate(s, i, row) BY <1>4
  <2>2. /\ req[s] = Idle /\ Apart(s) /\ UNCHANGED <<deposits, txs>>
        /\ req'[s] # Idle /\ req'[s].pc \in {"write", "drop_transactions"}
    BY <2>1, BeginUpdateFacts, BeginDeleteFacts DEF store
  <2>3. \A j \in Ids : RowsKept(j) BY <2>2, UnchangedRows
  <2>4. Prepared(s)' BY <2>2 DEF Prepared
  <2> QED BY <1>1, <1>2, <2>2, <2>3, <2>4 DEF OnceStep, Writing, WritingPCs
<1> QED BY <1>3, <1>4 DEF Arrive

(* The steps that write.                                                   *)
LEMMA WritingOnce ==
    ASSUME Shapes, Shapes', OnceInv, NEW s \in Reqs, Ends(s),
           Write(s) \/ Clear(s) \/ Fill(s) \/ DropTransactions(s) \/ Drop(s)
    PROVE  OnceStep(s)
<1>1. /\ crowded' = (crowded \cap InFlight') \cup Crowd'
      /\ \A q \in Crowd' : req'[q].id \in shaky'
      /\ StepFails(s) => req[s].id \in shaky'
      /\ \A i \in shaky \ shaky' : i = req[s].id /\ s \notin crowded
  BY EndsNoted
<1>2. /\ req[s] # Idle /\ req[s].id \in Ids /\ Writing(s) /\ Apart(s)
      /\ req'[s] # Idle => req'[s].id = req[s].id
  BY WriteFacts, ClearFacts, FillFacts, DropTransactionsFacts, DropFacts, WritingIs
     DEF About, GoesOn, WritingPCs
<1>3. PICK i \in Ids : i = req[s].id BY <1>2
<1>4. /\ \A j \in Ids : j # i => RowsKept(j)
      /\ req'[s] = Idle => (\A j \in Ids : RowsKept(j)) /\ StepFails(s)
  <2>1. CASE Write(s)
    BY <1>3, <2>1, WriteFacts, UnchangedRows DEF About, GoesOn, RowsKept, TransactionsOf, StepFails, Shapes
  <2>2. CASE Drop(s)
    BY <1>3, <2>2, DropFacts, UnchangedRows DEF About, GoesOn, RowsKept, TransactionsOf, StepFails, Shapes
  <2>3. CASE Clear(s) \/ DropTransactions(s)
    BY <1>3, <2>3, ClearFacts, DropTransactionsFacts DEF GoesOn, RowsKept, TransactionsOf
  <2>4. CASE Fill(s)
    <3>1. PICK t : t = [id |-> i, date |-> req[s].row.date, amount |-> req[s].row.amount, by |-> s]
      OBVIOUS
    <3>2. t.id = i BY <3>1
    <3>3. txs' = txs \cup {t} /\ deposits' = deposits /\ req'[s] # Idle
      BY <1>3, <2>4, <3>1, FillFacts DEF GoesOn
    <3> QED BY <3>2, <3>3 DEF RowsKept, TransactionsOf
  <2> QED BY <2>1, <2>2, <2>3, <2>4
<1>5. ASSUME s \notin crowded, req'[s] # Idle
      PROVE  Prepared(s)' /\ (~Writing(s)' => Right(req[s].id)')
  <2>1. Prepared(s) BY <1>2, <1>5 DEF OnceInv, InFlight
  <2>2. req'[s].id = i /\ req'[s] # Idle BY <1>2, <1>3, <1>5
  <2>3. CASE Write(s)
    <3>1. /\ req'[s].pc = "clear" /\ req'[s].row = req[s].row
          /\ deposits' = [deposits EXCEPT ![i] = req[s].row]
      BY <1>3, <1>5, <2>3, WriteFacts DEF GoesOn
    <3>2. deposits'[i] = req'[s].row BY <3>1 DEF Shapes
    <3>3. Prepared(s)' BY <2>2, <3>1, <3>2 DEF Prepared
    <3>4. Writing(s)' BY <1>5, <3>1 DEF Writing, Reading, Saving
    <3> QED BY <3>3, <3>4
  <2>4. CASE Clear(s)
    <3>1. /\ req'[s].pc = "fill" /\ req'[s].row = req[s].row /\ deposits' = deposits
          /\ txs' = {t \in txs : t.id # i} /\ req[s].pc = "clear"
      BY <1>3, <2>4, ClearFacts DEF GoesOn, About
    <3>2. deposits'[i] = req'[s].row BY <1>3, <2>1, <3>1 DEF Prepared
    <3>3. TransactionsOf(i)' = {} BY <3>1 DEF TransactionsOf
    <3>4. Prepared(s)' BY <2>2, <3>1, <3>2, <3>3 DEF Prepared, TransactionsOf
    <3>5. Writing(s)' BY <1>5, <3>1 DEF Writing, Reading, Saving
    <3> QED BY <3>4, <3>5
  <2>5. CASE Fill(s)
    <3>1. PICK t : t = [id |-> i, date |-> req[s].row.date, amount |-> req[s].row.amount, by |-> s]
      OBVIOUS
    <3>2. t.id = i /\ t.date = req[s].row.date /\ t.amount = req[s].row.amount BY <3>1
    <3>3. /\ txs' = txs \cup {t} /\ deposits' = deposits /\ req'[s].pc = "read_deposits"
          /\ req[s].pc = "fill" /\ Working(req[s])
      BY <1>3, <2>5, <3>1, FillFacts DEF GoesOn, About
    <3>4. deposits[i] = req[s].row /\ TransactionsOf(i) = {} /\ req[s].row \in Rows
      BY <1>3, <2>1, <3>3 DEF Prepared, Working
    <3>5. TransactionsOf(i)' = {t} BY <3>2, <3>3, <3>4 DEF TransactionsOf
    <3>6. Right(i)' BY <3>2, <3>3, <3>4, <3>5 DEF Right
    <3>7. Right(req[s].id)' BY <2>2, <3>6 DEF Right, TransactionsOf
    <3>8. Prepared(s)' BY <3>3 DEF Prepared
    <3> QED BY <3>7, <3>8
  <2>6. CASE DropTransactions(s)
    <3>1. /\ req'[s].pc = "drop" /\ txs' = {t \in txs : t.id # i}
      BY <1>3, <2>6, DropTransactionsFacts DEF GoesOn, About
    <3>2. TransactionsOf(i)' = {} BY <3>1 DEF TransactionsOf
    <3>3. Prepared(s)' BY <2>2, <3>1, <3>2 DEF Prepared, TransactionsOf
    <3>4. Writing(s)' BY <1>5, <3>1 DEF Writing, Reading, Saving
    <3> QED BY <3>3, <3>4
  <2>7. CASE Drop(s)
    <3>1. /\ req'[s].pc = "read_deposits" /\ req[s].pc = "drop" /\ txs' = txs
          /\ deposits' = [deposits EXCEPT ![i] = NULL]
      BY <1>3, <1>5, <2>7, DropFacts DEF GoesOn, About
    <3>2. TransactionsOf(i) = {} BY <1>3, <2>1, <3>1 DEF Prepared
    <3>3. deposits'[i] = NULL /\ TransactionsOf(i)' = {} BY <3>1, <3>2 DEF Shapes, TransactionsOf
    <3>4. Right(i)' BY <3>3 DEF Right
    <3>5. Right(req[s].id)' BY <2>2, <3>4 DEF Right, TransactionsOf
    <3>6. Prepared(s)' BY <3>1 DEF Prepared
    <3> QED BY <3>5, <3>6
  <2> QED BY <2>3, <2>4, <2>5, <2>6, <2>7
<1>6. s \notin crowded' /\ req'[s] # Idle => s \notin crowded BY <1>1 DEF InFlight
<1>7. Writing(s) /\ req[s] # Idle BY <1>2
<1> QED BY <1>1, <1>2, <1>3, <1>4, <1>5, <1>6 DEF OnceStep, Writing

(* The steps that read, those that save, and failures.                     *)
LEMMA ReadingOnce ==
    ASSUME Shapes, Shapes', OnceInv, NEW s \in Reqs,
           \/ Ends(s) /\ (ReadDeposits(s) \/ ReadTransactions(s) \/ Find(s) \/ Save(s))
           \/ Broke(s) /\ Fail(s)
    PROVE  OnceStep(s)
<1>1. CASE Ends(s) /\ (ReadDeposits(s) \/ ReadTransactions(s) \/ Find(s) \/ Save(s))
  <2>1. /\ crowded' = (crowded \cap InFlight') \cup Crowd'
        /\ \A q \in Crowd' : req'[q].id \in shaky'
        /\ \A i \in shaky \ shaky' : req[s].pc \in {"fill", "drop"}
    BY <1>1, EndsNoted
  <2>2. /\ req[s] # Idle /\ Apart(s) /\ UNCHANGED <<deposits, txs>>
        /\ req[s].pc \in {"read_deposits", "read_transactions", "find", "save"}
        /\ req'[s] # Idle =>
              /\ req'[s].id = req[s].id
              /\ req'[s].pc \in {"read_deposits", "read_transactions", "find", "save"}
    BY <1>1, ReadDepositsFacts, ReadTransactionsFacts, FindFacts, SaveFacts
       DEF About, GoesOn, AfterSave, store
  <2>3. ~Writing(s) /\ ~Writing(s)' BY <2>2 DEF Writing, Reading, Saving
  <2>4. \A i \in Ids : RowsKept(i) BY <2>2, UnchangedRows
  <2>5. req'[s] # Idle => Prepared(s)' BY <2>2 DEF Prepared
  <2> QED BY <2>1, <2>2, <2>3, <2>4, <2>5 DEF OnceStep, Writing
<1>2. CASE Broke(s) /\ Fail(s)
  <2>1. /\ crowded' = (crowded \cap InFlight') \cup Crowd'
        /\ \A q \in Crowd' : req'[q].id \in shaky'
        /\ req[s].id \in shaky' /\ shaky \subseteq shaky'
    <3>1. Record(s, Scope(s), {req[s].id}, {}, {}) BY <1>2 DEF Broke
    <3> QED BY <3>1, Noted
  <2>2. req[s] # Idle /\ req'[s] = Idle /\ Apart(s) /\ UNCHANGED <<deposits, txs>>
    BY <1>2, Leaves DEF Fail, store
  <2>3. \A i \in Ids : RowsKept(i) BY <2>2, UnchangedRows
  <2> QED BY <2>1, <2>2, <2>3 DEF OnceStep, Writing
<1> QED BY <1>1, <1>2

-----------------------------------------------------------------------------
LEMMA Acts ==
    ASSUME HNext
    PROVE  /\ Next
           /\ \E s \in Reqs :
                 \/ Arrive(s) /\ Started(s)
                 \/ Step(s) /\ Ends(s)
                 \/ Fail(s) /\ Broke(s)
BY DEF HNext, Next, Ends

LEMMA ShapesStep ==
    ASSUME Shapes, Next
    PROVE  Shapes'
<1>1. PICK s \in Reqs : Arrive(s) \/ Step(s) \/ Fail(s) BY DEF Next
<1>2. ASSUME Apart(s), created' \in {created, created + 1},
             req'[s] # Idle => Working(req'[s]) /\ req'[s].id <= created'
      PROVE  /\ req' = [r \in Reqs |-> req'[r]]
             /\ \A r \in Reqs : req'[r] # Idle => Working(req'[r]) /\ req'[r].id <= created'
  <2>1. ASSUME NEW r \in Reqs \ {s}, req'[r] # Idle
        PROVE  Working(req'[r]) /\ req'[r].id <= created'
    <3>1. /\ Working(req'[r]) /\ req'[r].id = req[r].id /\ req[r] # Idle
      BY <1>2, <2>1 DEF Apart, Alike
    <3>2. req[r].id <= created /\ req[r].id \in Ids BY <3>1, Kinds DEF Shapes
    <3>3. req[r].id \in Int BY <3>2, IdsAssumption
    <3> QED BY <1>2, <3>1, <3>2, <3>3 DEF Shapes
  <2> QED BY <1>2, <2>1 DEF Apart
<1>3. ASSUME req[s] # Idle
      PROVE  req[s].id \in Ids /\ req[s].id <= created
  BY <1>3, Kinds DEF Shapes
<1>4. CASE \E row \in Rows : Create(s, row)
  <2>1. PICK row \in Rows : Create(s, row) BY <1>4
  <2>2. /\ Apart(s) /\ created' = created + 1 /\ created + 1 \in Ids
        /\ Working(req'[s]) /\ req'[s].id = created + 1
        /\ deposits' = [deposits EXCEPT ![created + 1] = row] /\ UNCHANGED <<txs, snap>>
    BY <2>1, CreateFacts
  <2>3. created \in Nat /\ \A i \in Ids : i \in Int BY IdsAssumption DEF Shapes
  <2>4. deposits' \in [Ids -> Rows \cup {NULL}] BY <2>2 DEF Shapes
  <2>5. \A i \in Ids : deposits'[i] # NULL => i <= created'
    BY <2>2, <2>3 DEF Shapes
  <2>6. /\ req' = [r \in Reqs |-> req'[r]]
        /\ \A r \in Reqs : req'[r] # Idle => Working(req'[r]) /\ req'[r].id <= created'
    BY <1>2, <2>2, <2>3
  <2> QED BY <2>2, <2>3, <2>4, <2>5, <2>6 DEF Shapes
<1>5. CASE ~\E row \in Rows : Create(s, row)
  <2>1. created' = created
    BY <1>1, <1>5 DEF Arrive, BeginUpdate, BeginDelete, Step, Write, Clear, Fill, DropTransactions,
       Drop, ReadDeposits, ReadTransactions, Find, Save, Fail, store
  <2>2. Apart(s) /\ (req'[s] # Idle => Working(req'[s]) /\ req'[s].id <= created')
    <3>1. CASE Arrive(s)
      <4>1. PICK i \in Ids : BeginDelete(s, i) \/ \E row \in Rows : BeginUpdate(s, i, row)
        BY <1>5, <3>1 DEF Arrive
      <4> QED BY <2>1, <4>1, BeginUpdateFacts, BeginDeleteFacts DEF Shapes
    <3>2. CASE Step(s)
      BY <1>3, <2>1, <3>2, WriteFacts, ClearFacts, FillFacts, DropTransactionsFacts, DropFacts,
         ReadDepositsFacts, ReadTransactionsFacts, FindFacts, SaveFacts
         DEF Step, About, GoesOn, AfterSave
    <3>3. CASE Fail(s) BY <3>3, Leaves DEF Fail
    <3> QED BY <1>1, <3>1, <3>2, <3>3
  <2>3. /\ deposits' \in [Ids -> Rows \cup {NULL}]
        /\ \A i \in Ids : deposits'[i] # NULL => i <= created
    <3>1. CASE Write(s)
      <4>1. About(s, "write") /\ req[s].row \in Rows BY <3>1, WriteFacts DEF About, Working
      <4>2. deposits' = deposits
            \/ (deposits[req[s].id] # NULL /\ deposits' = [deposits EXCEPT ![req[s].id] = req[s].row])
        BY <3>1, WriteFacts
      <4> QED BY <1>3, <4>1, <4>2 DEF Shapes, About
    <3>2. CASE Drop(s)
      <4>1. deposits' = deposits \/ deposits' = [deposits EXCEPT ![req[s].id] = NULL]
        BY <3>2, DropFacts
      <4> QED BY <4>1 DEF Shapes
    <3>3. CASE ~Write(s) /\ ~Drop(s)
      <4>1. deposits' = deposits
        BY <1>1, <1>5, <3>3 DEF Arrive, BeginUpdate, BeginDelete, Step, Clear, Fill,
           DropTransactions, ReadDeposits, ReadTransactions, Find, Save, Fail, store
      <4> QED BY <4>1 DEF Shapes
    <3> QED BY <3>1, <3>2, <3>3
  <2>4. txs' \subseteq Moves
    <3>1. CASE Fill(s)
      <4>1. About(s, "fill") /\ req[s].row \in Rows BY <3>1, FillFacts DEF About, Working
      <4>2. req[s].row.date \in Dates /\ req[s].row.amount \in Amounts BY <4>1 DEF Rows
      <4>3. [id |-> req[s].id, date |-> req[s].row.date, amount |-> req[s].row.amount, by |-> s] \in Moves
        BY <4>1, <4>2 DEF About, Moves
      <4> QED BY <3>1, <4>3, FillFacts DEF Shapes
    <3>2. CASE ~Fill(s)
      <4>1. txs' \subseteq txs
        BY <1>1, <1>5, <3>2 DEF Arrive, BeginUpdate, BeginDelete, Step, Write, Clear, Others, Drop,
           DropTransactions, ReadDeposits, ReadTransactions, Find, Save, Fail, store
      <4> QED BY <4>1 DEF Shapes
    <3> QED BY <3>1, <3>2
  <2>5. snap' = [p \in Periods |-> snap'[p]]
    <3>1. CASE Save(s) BY <3>1, SaveFacts DEF Shapes
    <3>2. CASE ~Save(s)
      <4>1. snap' = snap
        BY <1>1, <1>5, <3>2 DEF Arrive, BeginUpdate, BeginDelete, Step, Write, Clear, Fill, Drop,
           DropTransactions, ReadDeposits, ReadTransactions, Find, Fail, store
      <4> QED BY <4>1 DEF Shapes
    <3> QED BY <3>1, <3>2
  <2>6. /\ req' = [r \in Reqs |-> req'[r]]
        /\ \A r \in Reqs : req'[r] # Idle => Working(req'[r]) /\ req'[r].id <= created'
    BY <1>2, <2>1, <2>2
  <2> QED BY <2>1, <2>3, <2>4, <2>5, <2>6 DEF Shapes
<1> QED BY <1>4, <1>5

LEMMA OnceNext ==
    ASSUME Shapes, OnceInv, HNext
    PROVE  OnceInv'
<1>1. PICK s \in Reqs :
         \/ Arrive(s) /\ Started(s)
         \/ Step(s) /\ Ends(s)
         \/ Fail(s) /\ Broke(s)
  BY Acts
<1>2. Shapes' BY Acts, ShapesStep
<1>3. OnceStep(s) BY <1>1, <1>2, ArriveOnce, WritingOnce, ReadingOnce DEF Step
<1> QED BY <1>2, <1>3, OnceStepKeeps

LEMMA Stuttering ==
    ASSUME UNCHANGED hvars
    PROVE  (Shapes => Shapes') /\ (OnceInv => OnceInv')
<1> USE DEF hvars
<1>1. Shapes => Shapes' BY DEF Shapes
<1>2. OnceInv => OnceInv'
  BY DEF OnceInv, InFlight, SameDeposit, Prepared, TransactionsOf, Right, Writing, Reading, Saving
<1> QED BY <1>1, <1>2

LEMMA ShapesHold == HSpec => []Shapes
<1>1. HInit => Shapes BY DEF HInit, Init, Shapes
<1>2. Shapes /\ [HNext]_hvars => Shapes' BY Acts, ShapesStep, Stuttering
<1> QED BY <1>1, <1>2, PTL DEF HSpec

LEMMA OnceHolds == HSpec => []OnceInv
<1>1. HInit => OnceInv
  <2> SUFFICES ASSUME HInit PROVE OnceInv OBVIOUS
  <2>1. \A r \in Reqs : req[r] = Idle BY DEF HInit, Init
  <2>2. \A i \in Ids : Right(i) BY DEF HInit, Init, Right, TransactionsOf
  <2> QED BY <2>1, <2>2 DEF HInit, OnceInv, InFlight, SameDeposit
<1>2. Shapes /\ OnceInv /\ [HNext]_hvars => OnceInv' BY OnceNext, Stuttering
<1> QED BY <1>1, <1>2, ShapesHold, PTL DEF HSpec

(* The transactions of a deposit are the one row its content asks for,     *)
(* stored once - whatever other requests do, and in whatever order, as     *)
(* long as no two work on this deposit at once and none fails on it.       *)
THEOREM TransactionsOnce == HSpec => []TransactionsOnceUnlessDisturbed
<1>1. Shapes /\ OnceInv => TransactionsOnceUnlessDisturbed
  <2> SUFFICES ASSUME Shapes, OnceInv, NEW i \in Ids \ shaky,
                      \A r \in Reqs : req[r] # Idle => req[r].id # i \/ Reading(r) \/ Saving(r)
               PROVE  IF deposits[i] = NULL THEN TransactionsOf(i) = {}
                      ELSE /\ Cardinality(TransactionsOf(i)) = 1
                           /\ \A t \in TransactionsOf(i) :
                                 t.date = deposits[i].date /\ t.amount = deposits[i].amount
    BY DEF TransactionsOnceUnlessDisturbed, TransactionsOf
  <2>1. Right(i) BY DEF OnceInv, Writing
  <2>2. CASE deposits[i] = NULL BY <2>1, <2>2 DEF Right
  <2>3. CASE deposits[i] # NULL
    <3>1. PICK t \in txs : /\ TransactionsOf(i) = {t}
                           /\ t.date = deposits[i].date /\ t.amount = deposits[i].amount
      BY <2>1, <2>3 DEF Right
    <3>2. Cardinality(TransactionsOf(i)) = 1 BY <3>1, FS_Singleton
    <3> QED BY <2>3, <3>1, <3>2
  <2> QED BY <2>2, <2>3
<1> QED BY <1>1, ShapesHold, OnceHolds, PTL

-----------------------------------------------------------------------------
(* The snapshots.  The pages _sync_restaurant_record reads hold all rows   *)
(* there are.                                                              *)
PagesSuffice ==
    /\ Cardinality(DepositRows) <= DepositLimit
    /\ IsFiniteSet(txs) /\ Cardinality(txs) <= TransactionLimit

LEMMA RowsFinite == IsFiniteSet(DepositRows)
<1> DEFINE ids == {j \in Ids : deposits[j] # NULL}
           f == [j \in ids |-> [id |-> j, row |-> deposits[j]]]
<1>1. IsFiniteSet(Ids)
  <2>1. 1 \in Int /\ Cardinality(Ids) \in Int BY IdsAssumption
  <2>2. IsFiniteSet(1 .. Cardinality(Ids)) BY <2>1, FS_Interval
  <2> QED BY <2>2, IdsAssumption, Zenon
<1>2. IsFiniteSet(ids) BY <1>1, FS_Subset
<1>3. f \in Surjection(ids, DepositRows)
  <2>1. \A j \in ids : f[j] \in DepositRows BY DEF DepositRows
  <2>2. \A e \in DepositRows : \E j \in ids : f[j] = e BY DEF DepositRows
  <2> HIDE DEF ids
  <2>3. f \in [ids -> DepositRows] BY <2>1
  <2> HIDE DEF f
  <2> QED BY <2>2, <2>3 DEF Surjection
<1> HIDE DEF ids, f
<1> QED BY <1>2, <1>3, FS_Surjection

LEMMA NewestIsAll ==
    ASSUME Shapes, PagesSuffice
    PROVE  NewestDeposits = DepositRows
<1> SUFFICES ASSUME NEW d \in DepositRows
             PROVE  Cardinality({e \in DepositRows : e.id > d.id}) < DepositLimit
  BY DEF NewestDeposits
<1> DEFINE newer == {e \in DepositRows : e.id > d.id}
<1>1. newer \subseteq DepositRows \ {d}
  <2>1. d.id \in Int BY IdsAssumption DEF DepositRows
  <2> QED BY <2>1
<1>2. /\ IsFiniteSet(DepositRows \ {d})
      /\ Cardinality(DepositRows \ {d}) = Cardinality(DepositRows) - 1
  BY RowsFinite, FS_RemoveElement
<1>3. Cardinality(newer) <= Cardinality(DepositRows \ {d}) /\ IsFiniteSet(newer)
  BY <1>1, <1>2, FS_Subset
<1>4. Cardinality(newer) \in Nat /\ Cardinality(DepositRows) \in Nat
  BY <1>3, RowsFinite, FS_CardinalityType
<1> HIDE DEF newer
<1>5. Cardinality(newer) < DepositLimit
  BY <1>2, <1>3, <1>4, LimitsAssumption DEF PagesSuffice
<1> QED BY <1>5 DEF newer

LEMMA PageIsAll ==
    ASSUME PagesSuffice, NEW page \in TransactionPages
    PROVE  page = txs
<1>1. Cardinality(txs) \in Nat BY FS_CardinalityType DEF PagesSuffice
<1>2. Cardinality(page) = Cardinality(txs) /\ page \subseteq txs
  BY <1>1, LimitsAssumption DEF TransactionPages, PagesSuffice
<1> QED BY <1>2, FS_Subset DEF PagesSuffice

(* The dates of a set of periods, and the periods of a set of dates.       *)
LEMMA AtIs ==
    ASSUME NEW dates, dates \subseteq Dates, NEW p \in Periods
    PROVE  p \in At(dates) <=> \E d \in dates : d \in DaysOf[p]
<1>1. ASSUME NEW d \in Dates PROVE p \in SetOf(PeriodsOf[d]) <=> d \in DaysOf[p]
  BY PeriodsAssumption DEF SetOf
<1> QED BY <1>1 DEF At

LEMMA AtSplits ==
    ASSUME NEW S, NEW T
    PROVE  /\ At(S \cup T) = At(S) \cup At(T)
           /\ S \subseteq T => At(S) \subseteq At(T)
BY DEF At

LEMMA AtDays ==
    ASSUME NEW days \in Seq(Dates), days # <<>>
    PROVE  /\ SetOf(days) \subseteq Dates
           /\ At(SetOf(days)) = SetOf(PeriodsOf[Head(days)]) \cup At(SetOf(Tail(days)))
<1>1. /\ SetOf(days) = {Head(days)} \cup SetOf(Tail(days)) /\ SetOf(days) \subseteq Dates
  BY SetOfSplit
<1>2. At({Head(days)}) = SetOf(PeriodsOf[Head(days)]) BY DEF At
<1>3. At(SetOf(days)) = At({Head(days)}) \cup At(SetOf(Tail(days))) BY <1>1, AtSplits
<1> QED BY <1>1, <1>2, <1>3

LEMMA RowDatesOK ==
    ASSUME Shapes, NEW i \in Ids
    PROVE  /\ RowDates[i] = DepositDate[i] \cup {t.date : t \in TransactionsOf(i)}
           /\ DepositDate[i] = IF deposits[i] = NULL THEN {} ELSE {deposits[i].date}
           /\ RowDates[i] \subseteq Dates
<1>1. /\ RowDates[i] = DepositDate[i] \cup {t.date : t \in TransactionsOf(i)}
      /\ DepositDate[i] = IF deposits[i] = NULL THEN {} ELSE {deposits[i].date}
  BY DEF RowDates, DepositDate, TransactionsOf
<1>2. DepositDate[i] \subseteq Dates BY <1>1 DEF Shapes, Rows
<1>3. {t.date : t \in TransactionsOf(i)} \subseteq Dates BY DEF TransactionsOf, Shapes, Moves
<1> QED BY <1>1, <1>2, <1>3

LEMMA RowDatesAfter ==
    ASSUME Shapes', NEW i \in Ids
    PROVE  RowDates'[i] \subseteq Dates
<1>1. RowDates'[i] = DepositDate'[i] \cup {t.date : t \in {u \in txs' : u.id = i}}
  BY DEF RowDates
<1>2. DepositDate'[i] = IF deposits'[i] = NULL THEN {} ELSE {deposits'[i].date} BY DEF DepositDate
<1>3. deposits'[i] # NULL => deposits'[i].date \in Dates BY DEF Shapes, Rows
<1>4. \A t \in txs' : t.date \in Dates BY DEF Shapes, Moves
<1> QED BY <1>1, <1>2, <1>3, <1>4

(* The rows of period p that are counted stay.                             *)
KeptIn(p) ==
    /\ CountedRows(p, DepositRows)' = CountedRows(p, DepositRows)
    /\ CountedMoves(p, txs)' = CountedMoves(p, txs)

LEMMA AggregateIs ==
    ASSUME NEW p, NEW rows, NEW page
    PROVE  Aggregate(p, rows, page) =
             IF CountedRows(p, rows) = {} THEN NULL
             ELSE [deposits |-> CountedRows(p, rows),
                   moves |-> {[id |-> t.id, date |-> t.date, amount |-> t.amount, by |-> t.by] :
                                t \in CountedMoves(p, page)}]
BY DEF Aggregate, CountedRows, CountedMoves

LEMMA KeptFresh ==
    ASSUME NEW p \in Periods, KeptIn(p), snap'[p] = snap[p], Fresh(p)
    PROVE  Fresh(p)'
<1>1. Aggregate(p, DepositRows', txs') = Aggregate(p, DepositRows, txs)
  BY AggregateIs DEF KeptIn
<1> QED BY <1>1 DEF Fresh

LEMMA AllKept ==
    ASSUME UNCHANGED <<deposits, txs>>, NEW p
    PROVE  KeptIn(p)
BY DEF KeptIn, CountedRows, CountedMoves, DepositRows

LEMMA KeptOutside ==
    ASSUME Shapes, Shapes', NEW i \in Ids, \A j \in Ids \ {i} : RowsKept(j), NEW p \in Periods,
           p \notin At(RowDates[i]), p \notin At(RowDates[i]')
    PROVE  KeptIn(p)
<1>1. /\ \A d \in RowDates[i] : d \notin DaysOf[p]
      /\ \A d \in RowDates'[i] : d \notin DaysOf[p]
  <2>1. PICK before : before = RowDates[i] OBVIOUS
  <2>2. PICK after : after = RowDates'[i] OBVIOUS
  <2>3. before \subseteq Dates BY <2>1, RowDatesOK
  <2>4. after \subseteq Dates BY <2>2, RowDatesAfter
  <2>5. p \notin At(before) BY <2>1 DEF At
  <2>6. p \notin At(after) BY <2>2 DEF At
  <2> QED BY <2>1, <2>2, <2>3, <2>4, <2>5, <2>6, AtIs
<1>2. ASSUME NEW d PROVE d \in CountedRows(p, DepositRows)' <=> d \in CountedRows(p, DepositRows)
  <2>1. ASSUME NEW j \in Ids PROVE j # i => deposits'[j] = deposits[j] BY DEF RowsKept
  <2>2. deposits[i] # NULL => deposits[i].date \notin DaysOf[p] BY <1>1, RowDatesOK
  <2>3. deposits'[i] # NULL => deposits'[i].date \notin DaysOf[p] BY <1>1 DEF RowDates, DepositDate
  <2>4. d \in CountedRows(p, DepositRows) <=>
          \E j \in Ids : deposits[j] # NULL /\ d = [id |-> j, row |-> deposits[j]] /\ deposits[j].date \in DaysOf[p]
    BY DEF CountedRows, DepositRows
  <2>5. d \in CountedRows(p, DepositRows)' <=>
          \E j \in Ids : deposits'[j] # NULL /\ d = [id |-> j, row |-> deposits'[j]] /\ deposits'[j].date \in DaysOf[p]
    BY DEF CountedRows, DepositRows
  <2>6. \A j \in Ids : /\ deposits[j] # NULL /\ deposits[j].date \in DaysOf[p] => deposits'[j] = deposits[j]
                       /\ deposits'[j] # NULL /\ deposits'[j].date \in DaysOf[p] => deposits'[j] = deposits[j]
    BY <2>1, <2>2, <2>3
  <2>7. ASSUME d \in CountedRows(p, DepositRows) PROVE d \in CountedRows(p, DepositRows)'
    <3>1. PICK j \in Ids : deposits[j] # NULL /\ d = [id |-> j, row |-> deposits[j]] /\ deposits[j].date \in DaysOf[p]
      BY <2>4, <2>7
    <3>2. deposits'[j] = deposits[j] BY <2>6, <3>1
    <3>3. deposits'[j] # NULL /\ d = [id |-> j, row |-> deposits'[j]] /\ deposits'[j].date \in DaysOf[p]
      BY <3>1, <3>2, Zenon
    <3> QED BY <2>5, <3>3
  <2>8. ASSUME d \in CountedRows(p, DepositRows)' PROVE d \in CountedRows(p, DepositRows)
    <3>1. PICK j \in Ids : deposits'[j] # NULL /\ d = [id |-> j, row |-> deposits'[j]] /\ deposits'[j].date \in DaysOf[p]
      BY <2>5, <2>8
    <3>2. deposits'[j] = deposits[j] BY <2>6, <3>1
    <3>3. deposits[j] # NULL /\ d = [id |-> j, row |-> deposits[j]] /\ deposits[j].date \in DaysOf[p]
      BY <3>1, <3>2, Zenon
    <3> QED BY <2>4, <3>3
  <2> QED BY <2>7, <2>8
<1>3. ASSUME NEW t PROVE t \in CountedMoves(p, txs)' <=> t \in CountedMoves(p, txs)
  <2>1. t \in TransactionsOf(i) => t.date \notin DaysOf[p] BY <1>1 DEF RowDates, TransactionsOf
  <2>2. t \in TransactionsOf(i)' => t.date \notin DaysOf[p] BY <1>1 DEF RowDates, TransactionsOf
  <2>3. t \in txs /\ t.id # i => t \in txs'
    <3>1. t \in txs => t.id \in Ids BY DEF Shapes, Moves
    <3> QED BY <3>1 DEF RowsKept, TransactionsOf
  <2>4. t \in txs' /\ t.id # i => t \in txs
    <3>1. t \in txs' => t.id \in Ids BY DEF Shapes, Moves
    <3> QED BY <3>1 DEF RowsKept, TransactionsOf
  <2> QED BY <2>1, <2>2, <2>3, <2>4 DEF CountedMoves, TransactionsOf
<1>4. CountedRows(p, DepositRows)' = CountedRows(p, DepositRows) BY <1>2
<1>5. CountedMoves(p, txs)' = CountedMoves(p, txs) BY <1>3
<1> QED BY <1>4, <1>5 DEF KeptIn

LEMMA ScopeInPeriods ==
    ASSUME Shapes, NEW r \in Reqs
    PROVE  Scope(r) \subseteq Periods
<1>1. ASSUME NEW dates, dates \subseteq Dates PROVE At(dates) \subseteq Periods
  <2>1. ASSUME NEW d \in Dates PROVE SetOf(PeriodsOf[d]) \subseteq Periods
    BY PeriodsAssumption DEF SetOf
  <2> QED BY <1>1, <2>1 DEF At
<1>2. CASE req[r] = Idle BY <1>2 DEF Scope
<1>3. CASE req[r] # Idle
  <2>1. /\ Working(req[r]) /\ req[r].id \in Ids
        /\ req[r].days \in Seq(Dates) /\ req[r].days # <<>>
    BY <1>3, Kinds DEF Shapes, Working
  <2>2. SetOf(req[r].days) \subseteq Dates /\ SetOf(Tail(req[r].days)) \subseteq Dates
    BY <2>1, SetOfSplit
  <2>3. RowDates[req[r].id] \subseteq Dates BY <2>1, RowDatesOK
  <2>4. Saving(r) => req[r].periods \in Seq(Periods)
    <3>1. Saving(r) => req[r] \in Late BY <2>1, Kinds DEF Saving
    <3> QED BY <3>1 DEF Late
  <2>5. Saving(r) => SetOf(req[r].periods) \subseteq Periods BY <2>4 DEF SetOf
  <2>6. /\ At(SetOf(req[r].days)) \subseteq Periods
        /\ At(SetOf(Tail(req[r].days))) \subseteq Periods
        /\ At(SetOf(req[r].days) \cup RowDates[req[r].id]) \subseteq Periods
    BY <1>1, <2>2, <2>3
  <2> QED BY <1>3, <2>5, <2>6 DEF Scope
<1> QED BY <1>2, <1>3

LEMMA ContendedHas ==
    ASSUME NEW q \in Reqs, NEW r \in Reqs, q # r
    PROVE  /\ Scope(q) \cap Scope(r) \subseteq Contended(q)
           /\ SameDeposit(q, r) => Scope(q) \cup Scope(r) \subseteq Contended(q)
           /\ (Scope(q) \cap Scope(r) \subseteq Contended(q))'
           /\ (SameDeposit(q, r) => Scope(q) \cup Scope(r) \subseteq Contended(q))'
<1>1. r \in Reqs \ {q} OBVIOUS
<1>2. /\ Scope(q) \cap Scope(r) \subseteq Contended(q)
      /\ SameDeposit(q, r) => Scope(q) \cup Scope(r) \subseteq Contended(q)
  BY <1>1 DEF Contended
<1>3. /\ (Scope(q) \cap Scope(r) \subseteq Contended(q))'
      /\ (SameDeposit(q, r) => Scope(q) \cup Scope(r) \subseteq Contended(q))'
  BY <1>1 DEF Contended
<1> QED BY <1>2, <1>3

(* The snapshots: what a step of s has to show.                            *)
Records(s) ==
    /\ \A q \in Reqs : Contended(q)' \subseteq suspect'
    /\ \A q \in InFlight' : /\ Contended(q)' \subseteq shared'[q]
                            /\ shared'[q] \subseteq shared[q] \cup Contended(q)'
    /\ \A q \in InFlight' \ {s} : shared[q] \subseteq shared'[q]
    /\ \A q \in Reqs : req'[q] = Idle => shared'[q] = {}

Touches(s) ==
    /\ req[s] # Idle /\ req'[s] # Idle => req'[s].id = req[s].id
    /\ \A i \in Ids : \/ RowsKept(i)
                      \/ req'[s] # Idle /\ req'[s].id = i /\ (req[s] # Idle \/ i > created)
    /\ \A p \in Periods : KeptIn(p) \/ p \in Scope(s) \/ (req[s] = Idle /\ p \in Scope(s)')
    /\ \A p \in Periods : snap'[p] = snap[p] \/ p \in Scope(s)

StaleStep(s) ==
    /\ Apart(s) /\ Records(s) /\ Touches(s)
    /\ \A p \in Periods : p \in Scope(s) => p \in Scope(s)' \/ p \in suspect' \/ Fresh(p)'
    /\ \A p \in suspect \ suspect' : p \in Scope(s) \ shared[s] /\ Fresh(p)'
    /\ req[s] # Idle => Scope(s)' \subseteq Scope(s)
    /\ Writing(s)' => \A i \in Ids : i = req'[s].id =>
          At(RowDates'[i]) \subseteq At(SetOf(req'[s].days)) \cup suspect'
    /\ req'[s] # Idle => Current(s)'

LEMMA StaleStepKeeps ==
    ASSUME Shapes, Shapes', StaleInv, NEW s \in Reqs, StaleStep(s)
    PROVE  StaleInv'
<1>1. ASSUME NEW q \in Reqs \ {s}
      PROVE  /\ req'[q] # Idle <=> req[q] # Idle
             /\ req[q] # Idle => req[q].id \in Ids /\ req[q].id <= created
             /\ req[q] # Idle => /\ req'[q].id = req[q].id /\ req'[q].pc = req[q].pc
                                 /\ req'[q].days = req[q].days
                                 /\ Saving(q) => /\ req'[q].periods = req[q].periods
                                                 /\ req'[q].txs = req[q].txs
                                                 /\ req'[q].found \in {req[q].found, "gone"}
                                 /\ req[q].pc = "read_transactions" \/ Saving(q) =>
                                       req'[q].deposits = req[q].deposits
             /\ Saving(q)' <=> Saving(q)
             /\ Reading(q)' <=> Reading(q)
             /\ Writing(q)' <=> Writing(q)
  <2>1. Alike(q) BY DEF StaleStep, Apart
  <2>2. req[q] # Idle => req[q].id \in Ids /\ req[q].id <= created BY Kinds DEF Shapes
  <2>3. CASE req[q] = Idle
    <3>1. req'[q] = req[q] BY <2>1, <2>3 DEF Alike
    <3> QED BY <2>3, <3>1 DEF Saving, Reading, Writing
  <2>4. CASE req[q] # Idle BY <2>1, <2>2, <2>4 DEF Alike, Saving, Reading, Writing
  <2> QED BY <2>3, <2>4
(* A claim changes only if s works on the same deposit.                    *)
<1>2. ASSUME NEW q \in Reqs \ {s}
      PROVE  \/ Scope(q)' = Scope(q) /\ (Writing(q) => RowsKept(req[q].id) /\ RowDates'[req[q].id] = RowDates[req[q].id])
             \/ SameDeposit(q, s)' /\ SameDeposit(q, s)
  <2>1. CASE ~Writing(q)
    <3>1. Scope(q)' = Scope(q) BY <1>1, <2>1 DEF Scope, Writing
    <3> QED BY <2>1, <3>1
  <2>2. CASE Writing(q)
    <3>1. req[q] # Idle /\ ~Saving(q) /\ ~Reading(q) BY <2>2 DEF Writing
    <3>2. PICK i \in Ids : i = req[q].id BY <1>1, <3>1
    <3>3. i = req'[q].id /\ i <= created /\ req'[q] # Idle /\ req'[q].days = req[q].days
      BY <1>1, <3>1, <3>2
    <3>4. CASE RowsKept(i)
      <4>1. RowDates'[i] = RowDates[i] BY <3>4 DEF RowsKept, RowDates, DepositDate, TransactionsOf
      <4>2. Scope(q) = At(SetOf(req[q].days) \cup RowDates[i]) BY <3>1, <3>2 DEF Scope
      <4>3. Scope(q)' = At(SetOf(req'[q].days) \cup RowDates'[i]) BY <1>1, <3>1, <3>3 DEF Scope
      <4>4. Scope(q)' = Scope(q) BY <3>3, <4>1, <4>2, <4>3
      <4> QED BY <3>2, <3>4, <4>1, <4>4
    <3>5. CASE ~RowsKept(i)
      <4>1. req'[s] # Idle /\ req'[s].id = i /\ (req[s] # Idle \/ i > created)
        BY <3>5 DEF StaleStep, Touches
      <4>2. ~(i > created)
        <5>1. i \in Int /\ created \in Int BY IdsAssumption DEF Shapes
        <5> QED BY <3>3, <5>1
      <4>3. req[s] # Idle BY <4>1, <4>2
      <4>4. req[s].id = i BY <4>1, <4>3 DEF StaleStep, Touches
      <4> QED BY <3>1, <3>2, <3>3, <4>1, <4>3, <4>4 DEF SameDeposit
    <3> QED BY <3>4, <3>5
  <2> QED BY <2>1, <2>2
(* What two claim is shared by both.                                       *)
<1>3. ASSUME NEW q \in Reqs \ {s}, NEW p \in Scope(q), p \in Scope(s)
      PROVE  p \in shared[q] /\ p \in shared[s] /\ p \in suspect
  <2>1. req[q] # Idle /\ req[s] # Idle BY <1>3 DEF Scope
  <2>2. p \in Contended(q) /\ p \in Contended(s) BY <1>3, ContendedHas
  <2> QED BY <2>1, <2>2 DEF StaleInv, InFlight
<1>4. ASSUME NEW q \in Reqs \ {s}, SameDeposit(q, s), NEW p \in Scope(q)
      PROVE  p \in suspect
  <2>1. p \in Contended(q) BY <1>4, ContendedHas
  <2> QED BY <1>4, <2>1 DEF StaleInv, InFlight, SameDeposit
<1>5. ASSUME NEW q \in Reqs \ {s}, NEW p \in Scope(q), p \in suspect PROVE p \in suspect'
  BY <1>3, <1>5 DEF StaleStep
<1>6. ASSUME NEW q \in Reqs \ {s}, SameDeposit(q, s)', NEW p \in Scope(q)'
      PROVE  p \in suspect' /\ p \in Contended(q)'
  BY <1>6, ContendedHas DEF StaleStep, Records
<1>10. \A q \in InFlight' : Contended(q)' \subseteq suspect' \cap shared'[q]
  BY DEF StaleStep, Records, InFlight
<1>11. \A q \in Reqs : req'[q] = Idle => shared'[q] = {} BY DEF StaleStep, Records
<1>12. ASSUME NEW q \in InFlight', NEW p \in shared'[q] \cap Scope(q)' PROVE p \in suspect'
  <2>1. q \in Reqs /\ req'[q] # Idle BY DEF InFlight
  <2>2. CASE p \in Contended(q)' BY <2>1, <2>2 DEF StaleStep, Records
  <2>3. CASE p \notin Contended(q)'
    <3>1. p \in shared[q] BY <1>12, <2>3 DEF StaleStep, Records
    <3>2. req[q] # Idle BY <2>1, <3>1 DEF StaleInv
    <3>3. CASE q = s
      <4>1. p \in Scope(s) BY <3>2, <3>3 DEF StaleStep
      <4>2. p \in suspect BY <2>1, <3>1, <3>2, <3>3, <4>1 DEF StaleInv, InFlight
      <4> QED BY <3>1, <3>3, <4>2 DEF StaleStep
    <3>4. CASE q # s
      <4>1. Scope(q)' = Scope(q) BY <1>2, <1>6, <2>1, <2>3, <3>4
      <4>2. p \in suspect BY <2>1, <3>1, <3>2, <4>1 DEF StaleInv, InFlight
      <4> QED BY <1>5, <2>1, <3>4, <4>1, <4>2
    <3> QED BY <3>3, <3>4
  <2> QED BY <2>2, <2>3
<1>13. ASSUME NEW q \in InFlight', Writing(q)', NEW i \in Ids, i = req'[q].id,
              NEW p \in At(RowDates'[i])
       PROVE  p \in At(SetOf(req'[q].days)) \cup suspect'
  <2>1. q \in Reqs /\ req'[q] # Idle BY DEF InFlight
  <2>2. CASE q = s BY <1>13, <2>2 DEF StaleStep
  <2>3. CASE q # s
    <3>1. /\ Writing(q) /\ req[q] # Idle /\ req[q].id = i /\ req'[q].days = req[q].days
      BY <1>1, <1>13, <2>1, <2>3
    <3>2. CASE Scope(q)' = Scope(q) /\ RowDates'[i] = RowDates[i]
      <4>1. p \in At(RowDates[i]) BY <1>13, <3>2
      <4>2. p \in At(SetOf(req[q].days)) \cup suspect
        BY <2>1, <3>1, <4>1 DEF StaleInv, InFlight
      <4>3. p \in Scope(q)
        <5>1. Scope(q) = At(SetOf(req[q].days) \cup RowDates[i]) BY <3>1 DEF Scope, Writing
        <5> QED BY <4>1, <5>1, AtSplits
      <4> QED BY <1>5, <2>1, <2>3, <3>1, <4>2, <4>3
    <3>3. CASE SameDeposit(q, s)'
      <4>1. Scope(q)' = At(SetOf(req'[q].days) \cup RowDates'[i]) BY <1>13, <2>1 DEF Scope, Writing
      <4>2. p \in Scope(q)' BY <1>13, <4>1, AtSplits
      <4> QED BY <1>6, <2>1, <2>3, <3>3, <4>2
    <3> QED BY <1>2, <2>1, <2>3, <3>1, <3>2, <3>3
  <2> QED BY <2>2, <2>3
<1>14. ASSUME NEW q \in InFlight' PROVE Current(q)'
  <2>1. q \in Reqs /\ req'[q] # Idle BY DEF InFlight
  <2>2. CASE q = s BY <2>1, <2>2 DEF StaleStep
  <2>3. CASE q # s
    <3> SUFFICES ASSUME NEW p \in Scope(q)' \ shared'[q]
                 PROVE  /\ req'[q].pc \in {"read_transactions", "find", "save"} =>
                              CountedRows(p, req'[q].deposits) = CountedRows(p, DepositRows)'
                        /\ Saving(q)' => CountedMoves(p, req'[q].txs) = CountedMoves(p, txs)'
                        /\ req'[q].pc = "save" /\ Head(req'[q].periods) = p /\ req'[q].found = "none" =>
                              snap'[p] = NULL
      BY DEF Current, CountedRows, CountedMoves
    <3>1. p \notin Contended(q)' BY DEF StaleStep, Records
    <3>2. Scope(q)' = Scope(q) BY <1>2, <1>6, <2>1, <2>3, <3>1
    <3>3. p \in Scope(q) \ shared[q] /\ p \in Periods
      BY <2>1, <2>3, <3>2, ScopeInPeriods DEF StaleStep, Records
    <3>4. p \notin Scope(s) BY <1>3, <2>1, <2>3, <3>3
    <3>5. p \notin Scope(s)' BY <2>1, <2>3, <3>1, ContendedHas
    <3>6. KeptIn(p) /\ snap'[p] = snap[p] BY <3>3, <3>4, <3>5 DEF StaleStep, Touches
    <3>7. Current(q) BY <1>1, <2>1, <2>3 DEF StaleInv, InFlight
    <3>8. /\ req'[q].pc = req[q].pc
          /\ req[q].pc \in {"read_transactions", "find", "save"} => req'[q].deposits = req[q].deposits
          /\ Saving(q)' <=> Saving(q)
          /\ Saving(q) => /\ req'[q].txs = req[q].txs /\ req'[q].periods = req[q].periods
                          /\ req'[q].found \in {req[q].found, "gone"}
      BY <1>1, <2>1, <2>3 DEF Saving
    <3>9. req'[q].pc \in {"read_transactions", "find", "save"} =>
             CountedRows(p, req'[q].deposits) = CountedRows(p, DepositRows)'
      BY <3>3, <3>6, <3>7, <3>8, Zenon DEF Current, KeptIn
    <3>10. Saving(q)' => CountedMoves(p, req'[q].txs) = CountedMoves(p, txs)'
      BY <3>3, <3>6, <3>7, <3>8, Zenon DEF Current, KeptIn
    <3>11. req'[q].pc = "save" /\ Head(req'[q].periods) = p /\ req'[q].found = "none" => snap'[p] = NULL
      BY <3>3, <3>6, <3>7, <3>8 DEF Current, Saving
    <3> QED BY <3>9, <3>10, <3>11
  <2> QED BY <2>2, <2>3
<1>15. ASSUME NEW p \in Periods \ suspect', ~Fresh(p)' PROVE \E r \in Reqs : p \in Scope(r)'
  <2>1. p \notin suspect BY <1>15 DEF StaleStep
  <2>2. p \notin Scope(s) \/ p \in Scope(s)' BY <1>15 DEF StaleStep
  <2>3. CASE Fresh(p)
    <3>1. snap'[p] # snap[p] \/ ~KeptIn(p) BY <1>15, <2>3, KeptFresh
    <3>2. p \in Scope(s) \/ p \in Scope(s)' BY <3>1 DEF StaleStep, Touches
    <3> QED BY <2>2, <3>2
  <2>4. CASE ~Fresh(p)
    <3>1. PICK q \in Reqs : p \in Scope(q) BY <2>1, <2>4 DEF StaleInv
    <3>2. CASE q = s BY <2>2, <3>1, <3>2
    <3>3. CASE q # s
      <4>1. ~SameDeposit(q, s) BY <1>4, <2>1, <3>1, <3>3
      <4>2. CASE Scope(q)' = Scope(q) BY <3>1, <4>2
      <4> QED BY <1>2, <3>3, <4>1, <4>2
    <3> QED BY <3>2, <3>3
  <2> QED BY <2>3, <2>4
<1>16. (\A r \in InFlight : shared[r] \cap Scope(r) \subseteq suspect)' BY <1>12
<1>17. (\A r \in InFlight : Writing(r) =>
           At(RowDates[req[r].id]) \subseteq At(SetOf(req[r].days)) \cup suspect)'
  <2> SUFFICES ASSUME NEW q \in InFlight', Writing(q)'
               PROVE  At(RowDates'[req'[q].id]) \subseteq At(SetOf(req'[q].days)) \cup suspect'
    OBVIOUS
  <2>1. q \in Reqs /\ req'[q] # Idle BY DEF InFlight
  <2>2. req'[q].id \in Ids
    <3>1. Working(req'[q]) BY <2>1 DEF Shapes
    <3> QED BY <3>1, Kinds
  <2> QED BY <1>13, <2>2
<1>18. (\A p \in Periods \ suspect : Fresh(p) \/ \E r \in Reqs : p \in Scope(r))' BY <1>15
<1>19. (\A r \in InFlight : Current(r))' BY <1>14
<1>20. (\A r \in InFlight : Contended(r) \subseteq suspect \cap shared[r])' BY <1>10
<1>21. (\A r \in Reqs : req[r] = Idle => shared[r] = {})' BY <1>11
<1> QED BY <1>16, <1>17, <1>18, <1>19, <1>20, <1>21 DEF StaleInv

LEMMA NotedSnapshots ==
    ASSUME NEW s \in Reqs, NEW lost, NEW lostIds, NEW healed, NEW healedIds,
           Record(s, lost, lostIds, healed, healedIds)
    PROVE  /\ Records(s)
           /\ lost \subseteq suspect'
           /\ \A p \in suspect \ suspect' : p \in healed
           /\ req'[s] # Idle /\ req[s].pc # "read_deposits" => shared[s] \subseteq shared'[s]
<1>1. \A q \in Reqs : shared'[q] =
         IF req'[q] = Idle THEN {}
         ELSE (IF q = s /\ req[s] # Idle /\ req[s].pc = "read_deposits" THEN {} ELSE shared[q])
                \cup Contended(q)'
  BY DEF Record
<1>2. suspect' = (suspect \ healed) \cup lost \cup UNION {Contended(q)' : q \in Reqs} BY DEF Record
<1>3. \A q \in InFlight' : q \in Reqs /\ req'[q] # Idle BY DEF InFlight
<1>4. \A q \in Reqs : Contended(q)' \subseteq suspect' BY <1>2
<1>5. lost \subseteq suspect' /\ \A p \in suspect \ suspect' : p \in healed BY <1>2
<1>6. \A q \in InFlight' : /\ Contended(q)' \subseteq shared'[q]
                           /\ shared'[q] \subseteq shared[q] \cup Contended(q)'
  BY <1>1, <1>3
<1>7. \A q \in InFlight' \ {s} : shared[q] \subseteq shared'[q] BY <1>1, <1>3
<1>8. \A q \in Reqs : req'[q] = Idle => shared'[q] = {} BY <1>1
<1>9. req'[s] # Idle /\ req[s].pc # "read_deposits" => shared[s] \subseteq shared'[s] BY <1>1
<1> QED BY <1>4, <1>5, <1>6, <1>7, <1>8, <1>9 DEF Records

(* A step that changes no row and no snapshot touches no other request.    *)
LEMMA QuietTouches ==
    ASSUME NEW s \in Reqs, UNCHANGED <<deposits, txs>>,
           req[s] # Idle /\ req'[s] # Idle => req'[s].id = req[s].id,
           \A p \in Periods : snap'[p] = snap[p] \/ p \in Scope(s)
    PROVE  Touches(s)
BY UnchangedRows, AllKept DEF Touches

LEMMA ScopeWhile ==
    ASSUME NEW s \in Reqs
    PROVE  /\ req[s] = Idle => Scope(s) = {}
           /\ req'[s] = Idle => Scope(s)' = {}
           /\ Writing(s) => Scope(s) = At(SetOf(req[s].days) \cup RowDates[req[s].id])
           /\ Writing(s)' => Scope(s)' = At(SetOf(req'[s].days) \cup RowDates'[req'[s].id])
           /\ req[s] # Idle /\ Reading(s) => Scope(s) = At(SetOf(req[s].days))
           /\ req'[s] # Idle /\ Reading(s)' => Scope(s)' = At(SetOf(req'[s].days))
           /\ req[s] # Idle /\ Saving(s) =>
                 Scope(s) = SetOf(req[s].periods) \cup At(SetOf(Tail(req[s].days)))
           /\ req'[s] # Idle /\ Saving(s)' =>
                 Scope(s)' = SetOf(req'[s].periods) \cup At(SetOf(Tail(req'[s].days)))
<1>1. Reading(s) => ~Saving(s) BY DEF Reading, Saving
<1>2. Reading(s)' => ~Saving(s)' BY DEF Reading, Saving
<1> QED BY <1>1, <1>2 DEF Scope, Writing

(* A request that fails, or stops, leaves its claim as suspect.            *)
LEMMA BrokeStale ==
    ASSUME Shapes, StaleInv, NEW s \in Reqs, req[s] # Idle, req'[s] = Idle, Apart(s), Broke(s),
           UNCHANGED <<deposits, txs, snap>>
    PROVE  StaleStep(s)
<1>1. /\ Records(s) /\ Scope(s) \subseteq suspect' /\ \A p \in suspect : p \in suspect'
  BY NotedSnapshots DEF Broke
<1>2. Touches(s) BY QuietTouches
<1>3. Scope(s)' = {} /\ ~Writing(s)' BY ScopeWhile DEF Writing
<1> QED BY <1>1, <1>2, <1>3 DEF StaleStep

(* The steps that write: the dates of the rows of i stay among those       *)
(* known.                                                                  *)
LEMMA WritingStale ==
    ASSUME Shapes, Shapes', StaleInv, NEW s \in Reqs, Writing(s), Went(s), Apart(s),
           req'[s] # Idle, req'[s].id = req[s].id, req'[s].days = req[s].days,
           Writing(s)' \/ req'[s].pc = "read_deposits",
           UNCHANGED snap,
           NEW i \in Ids, i = req[s].id, \A j \in Ids \ {i} : RowsKept(j),
           RowDates'[i] \subseteq RowDates[i] \cup SetOf(req[s].days)
    PROVE  StaleStep(s)
<1> DEFINE days == SetOf(req[s].days)
           known == days \cup RowDates[i]
<1>1. req[s] # Idle /\ s \in InFlight /\ req[s].pc # "save" /\ req[s].pc # "read_deposits"
  BY DEF Writing, Reading, Saving, InFlight
<1>2. /\ Records(s) /\ \A p \in suspect : p \in suspect'
  BY <1>1, NotedSnapshots DEF Went
<1>3. Scope(s) = At(known) BY ScopeWhile
<1>4. RowDates'[i] \subseteq known OBVIOUS
<1>5. /\ At(RowDates[i]) \subseteq At(known) /\ At(RowDates'[i]) \subseteq At(known)
      /\ At(days) \subseteq At(known) /\ At(days \cup RowDates'[i]) \subseteq At(known)
  BY <1>4, AtSplits
<1>6. At(known) = At(days) \cup At(RowDates[i]) BY AtSplits
<1>7. At(RowDates[i]) \subseteq At(days) \cup suspect BY <1>1 DEF StaleInv
<1>8. \/ Writing(s)' /\ Scope(s)' = At(days \cup RowDates'[i])
      \/ req'[s].pc = "read_deposits" /\ Scope(s)' = At(days)
  <2>1. CASE Writing(s)' BY <2>1, ScopeWhile
  <2>2. CASE req'[s].pc = "read_deposits" BY <2>2, ScopeWhile DEF Reading
  <2> QED BY <2>1, <2>2
<1>9. At(days) \subseteq Scope(s)' BY <1>8, AtSplits
<1>10. Scope(s)' \subseteq Scope(s) BY <1>3, <1>5, <1>8
<1>11. ASSUME NEW p \in Scope(s) PROVE p \in Scope(s)' \/ p \in suspect'
  BY <1>2, <1>3, <1>6, <1>7, <1>9, <1>11
<1>12. ASSUME NEW p \in Periods PROVE KeptIn(p) \/ p \in Scope(s)
  <2>1. p \notin Scope(s) => p \notin At(RowDates[i]) /\ p \notin At(RowDates[i]')
    BY <1>3, <1>5
  <2> QED BY <2>1, KeptOutside
<1>13. Touches(s) BY <1>1, <1>12 DEF Touches
<1>14. At(RowDates'[i]) \subseteq At(days) \cup suspect' BY <1>2, <1>5, <1>6, <1>7
<1>15. Current(s)'
  <2>1. ~(req'[s].pc \in {"read_transactions", "find", "save"})
    BY <1>8 DEF Writing, Reading, Saving
  <2> QED BY <2>1 DEF Current, Saving
<1> HIDE DEF known
<1> QED BY <1>1, <1>2, <1>10, <1>11, <1>13, <1>14, <1>15 DEF StaleStep

LEMMA WritersStale ==
    ASSUME Shapes, Shapes', StaleInv, NEW s \in Reqs, Ends(s),
           Write(s) \/ Clear(s) \/ Fill(s) \/ DropTransactions(s) \/ Drop(s)
    PROVE  StaleStep(s)
<1>1. /\ req[s] # Idle /\ req[s].id \in Ids /\ Writing(s) /\ Apart(s) /\ Working(req[s])
      /\ req[s].pc \in WritingPCs
  BY WriteFacts, ClearFacts, FillFacts, DropTransactionsFacts, DropFacts, WritingIs
     DEF About, GoesOn, WritingPCs
<1>2. PICK i \in Ids : i = req[s].id BY <1>1
<1>3. CASE StepFails(s)
  <2>1. req'[s] = Idle /\ UNCHANGED <<deposits, txs, snap>>
    <3>1. CASE Write(s) BY <1>3, <3>1, WriteFacts DEF StepFails, About
    <3>2. CASE Drop(s) BY <1>3, <3>2, DropFacts DEF StepFails, About
    <3>3. CASE Clear(s) \/ Fill(s) \/ DropTransactions(s)
      BY <1>3, <3>3, ClearFacts, FillFacts, DropTransactionsFacts DEF StepFails, About
    <3> QED BY <3>1, <3>2, <3>3
  <2>2. Broke(s) BY <1>3 DEF Ends
  <2> QED BY <1>1, <2>1, <2>2, BrokeStale
<1>4. CASE ~StepFails(s)
  <2>1. Went(s) BY <1>4 DEF Ends
  <2>2. CASE Write(s)
    <3>1. /\ deposits[i] # NULL /\ req[s].pc = "write" BY <1>2, <1>4, <2>2, WriteFacts DEF StepFails, About
    <3>2. /\ GoesOn(s, "clear") /\ deposits' = [deposits EXCEPT ![i] = req[s].row]
          /\ UNCHANGED <<txs, snap>>
      BY <1>2, <2>2, <3>1, WriteFacts
    <3>3. Writing(s)' BY <3>2 DEF GoesOn, Writing, Reading, Saving
    <3>4. req[s].row \in Rows /\ req[s].row.date \in SetOf(req[s].days)
      BY <1>1, <3>1 DEF Working
    <3>5. \A j \in Ids \ {i} : RowsKept(j) BY <3>2 DEF RowsKept, TransactionsOf, Shapes
    <3>6. RowDates'[i] \subseteq RowDates[i] \cup SetOf(req[s].days)
      <4>1. deposits'[i] = req[s].row BY <3>2 DEF Shapes
      <4>2. DepositDate'[i] \subseteq SetOf(req[s].days) BY <3>4, <4>1 DEF DepositDate
      <4>3. txs' = txs BY <3>2
      <4> QED BY <4>2, <4>3 DEF RowDates
    <3> QED BY <1>1, <1>2, <2>1, <3>2, <3>3, <3>5, <3>6, WritingStale DEF GoesOn
  <2>3. CASE Clear(s) \/ DropTransactions(s)
    <3>1. /\ GoesOn(s, "fill") \/ GoesOn(s, "drop")
          /\ txs' = {t \in txs : t.id # i} /\ UNCHANGED <<deposits, snap>>
      BY <1>2, <2>3, ClearFacts, DropTransactionsFacts
    <3>2. Writing(s)' BY <3>1 DEF GoesOn, Writing, Reading, Saving
    <3>3. \A j \in Ids \ {i} : RowsKept(j) BY <3>1 DEF RowsKept, TransactionsOf
    <3>4. RowDates'[i] \subseteq RowDates[i]
      <4>1. DepositDate'[i] = DepositDate[i] BY <3>1 DEF DepositDate
      <4> QED BY <3>1, <4>1 DEF RowDates
    <3> QED BY <1>1, <1>2, <2>1, <3>1, <3>2, <3>3, <3>4, WritingStale DEF GoesOn
  <2>4. CASE Fill(s)
    <3>1. PICK t : t = [id |-> i, date |-> req[s].row.date, amount |-> req[s].row.amount, by |-> s]
      OBVIOUS
    <3>2. t.id = i /\ t.date = req[s].row.date BY <3>1
    <3>3. /\ GoesOn(s, "read_deposits") /\ txs' = txs \cup {t} /\ UNCHANGED <<deposits, snap>>
          /\ req[s].pc = "fill"
      BY <1>2, <2>4, <3>1, FillFacts DEF About
    <3>4. req[s].row.date \in SetOf(req[s].days) BY <1>1, <3>3 DEF Working
    <3>5. \A j \in Ids \ {i} : RowsKept(j) BY <3>2, <3>3 DEF RowsKept, TransactionsOf
    <3>6. RowDates'[i] \subseteq RowDates[i] \cup SetOf(req[s].days)
      <4>1. DepositDate'[i] = DepositDate[i] BY <3>3 DEF DepositDate
      <4> QED BY <3>2, <3>3, <3>4, <4>1 DEF RowDates
    <3> QED BY <1>1, <1>2, <2>1, <3>3, <3>5, <3>6, WritingStale DEF GoesOn
  <2>5. CASE Drop(s)
    <3>1. deposits[i] # NULL BY <1>2, <1>4, <2>5, DropFacts DEF StepFails, About
    <3>2. /\ GoesOn(s, "read_deposits") /\ deposits' = [deposits EXCEPT ![i] = NULL]
          /\ UNCHANGED <<txs, snap>>
      BY <1>2, <2>5, <3>1, DropFacts
    <3>3. \A j \in Ids \ {i} : RowsKept(j) BY <3>2 DEF RowsKept, TransactionsOf, Shapes
    <3>4. RowDates'[i] \subseteq RowDates[i]
      <4>1. deposits'[i] = NULL BY <3>2 DEF Shapes
      <4>2. DepositDate'[i] = {} BY <4>1 DEF DepositDate
      <4> QED BY <3>2, <4>2 DEF RowDates
    <3> QED BY <1>1, <1>2, <2>1, <3>2, <3>3, <3>4, WritingStale DEF GoesOn
  <2> QED BY <2>2, <2>3, <2>4, <2>5
<1> QED BY <1>3, <1>4

(* The steps that read rows, or look for a snapshot.                       *)
LEMMA ReadersStale ==
    ASSUME Shapes, Shapes', StaleInv, PagesSuffice, NEW s \in Reqs, Ends(s),
           ReadDeposits(s) \/ ReadTransactions(s) \/ Find(s)
    PROVE  StaleStep(s)
<1>1. /\ req[s] # Idle /\ Apart(s) /\ UNCHANGED <<deposits, created, txs, snap>>
      /\ req'[s] # Idle /\ req'[s].id = req[s].id /\ req'[s].days = req[s].days
      /\ req[s].days \in Seq(Dates) /\ req[s].days # <<>>
      /\ req[s].pc \in {"read_deposits", "read_transactions", "find"}
      /\ req'[s].pc \in {"read_transactions", "find", "save"}
  BY ReadDepositsFacts, ReadTransactionsFacts, FindFacts, Kinds DEF About, GoesOn, store, Working
<1>2. s \in InFlight /\ ~Writing(s)' BY <1>1 DEF InFlight, Writing, Reading, Saving
<1>3. Went(s) BY <1>1 DEF Ends, StepFails
<1>4. /\ Records(s) /\ \A p \in suspect : p \in suspect'
      /\ req[s].pc # "read_deposits" => shared[s] \subseteq shared'[s]
  BY <1>1, <1>3, NotedSnapshots DEF Went
<1>5. Touches(s) BY <1>1, QuietTouches
<1>6. DepositRows' = DepositRows /\ txs' = txs BY <1>1 DEF DepositRows
<1>7. Current(s) BY <1>2 DEF StaleInv
<1>8. CASE ReadDeposits(s)
  <2>1. /\ req[s].pc = "read_deposits" /\ req'[s].pc = "read_transactions"
        /\ req'[s].deposits = NewestDeposits
    BY <1>8, ReadDepositsFacts DEF About, GoesOn
  <2>2. Scope(s)' = Scope(s) BY <1>1, <2>1, ScopeWhile DEF Reading
  <2>3. Current(s)'
    <3>1. req'[s].deposits = DepositRows BY <2>1, NewestIsAll
    <3> QED BY <1>6, <2>1, <3>1 DEF Current, Saving
  <2> QED BY <1>1, <1>2, <1>4, <1>5, <2>2, <2>3 DEF StaleStep
<1>9. CASE ReadTransactions(s)
  <2>1. /\ req[s].pc = "read_transactions" /\ req'[s].pc = "find"
        /\ req'[s].deposits = req[s].deposits /\ req'[s].txs \in TransactionPages
        /\ req'[s].periods = PeriodsOf[Head(req[s].days)]
    BY <1>9, ReadTransactionsFacts DEF About, GoesOn
  <2>2. Scope(s)' = Scope(s)
    <3>1. Scope(s) = At(SetOf(req[s].days)) BY <1>1, <2>1, ScopeWhile DEF Reading
    <3>2. Scope(s)' = SetOf(req'[s].periods) \cup At(SetOf(Tail(req'[s].days)))
      BY <1>1, <2>1, ScopeWhile DEF Saving
    <3> QED BY <1>1, <2>1, <3>1, <3>2, AtDays
  <2>3. req'[s].txs = txs BY <2>1, PageIsAll
  <2>4. \A p \in Scope(s)' \ shared'[s] :
           CountedRows(p, req'[s].deposits) = CountedRows(p, DepositRows)
    BY <1>4, <1>7, <2>1, <2>2 DEF Current
  <2>5. Current(s)' BY <1>6, <2>1, <2>3, <2>4 DEF Current
  <2> QED BY <1>1, <1>2, <1>4, <1>5, <2>2, <2>5 DEF StaleStep
<1>10. CASE Find(s)
  <2>1. /\ req[s].pc = "find" /\ req'[s].pc = "save"
        /\ req'[s].deposits = req[s].deposits /\ req'[s].txs = req[s].txs
        /\ req'[s].periods = req[s].periods
        /\ req'[s].found = "none" => snap[Head(req[s].periods)] = NULL
    BY <1>10, FindFacts DEF About, GoesOn
  <2>2. Scope(s)' = Scope(s) BY <1>1, <2>1, ScopeWhile DEF Saving
  <2>3. \A p \in Scope(s)' \ shared'[s] :
           /\ CountedRows(p, req'[s].deposits) = CountedRows(p, DepositRows)
           /\ CountedMoves(p, req'[s].txs) = CountedMoves(p, txs)
    BY <1>4, <1>7, <2>1, <2>2 DEF Current, Saving
  <2>4. Current(s)' BY <1>1, <1>6, <2>1, <2>3 DEF Current
  <2> QED BY <1>1, <1>2, <1>4, <1>5, <2>2, <2>4 DEF StaleStep
<1> QED BY <1>8, <1>9, <1>10

(* A save puts its period right if the request has had it to itself.       *)
LEMMA SaveStale ==
    ASSUME Shapes, Shapes', StaleInv, NEW s \in Reqs, Ends(s), Save(s)
    PROVE  StaleStep(s)
<1>1. /\ req[s] # Idle /\ Apart(s) /\ UNCHANGED <<deposits, created, txs>>
      /\ req[s].pc = "save" /\ Working(req[s])
      /\ req[s].days \in Seq(Dates) /\ req[s].days # <<>>
  BY SaveFacts, Kinds DEF About, Working
<1>2. req[s].periods \in Seq(Periods) /\ req[s].periods # <<>>
  /\ req[s].found \in {"none", "seen", "gone"}
  BY <1>1, Kinds DEF Late, Working
<1>3. s \in InFlight BY <1>1 DEF InFlight
<1>4. CASE SaveFails(s)
  <2>1. req'[s] = Idle /\ UNCHANGED snap BY <1>4, SaveFacts
  <2>2. Broke(s) BY <1>1, <1>4 DEF Ends, StepFails
  <2> QED BY <1>1, <2>1, <2>2, BrokeStale
<1>5. CASE ~SaveFails(s)
  <2>1. Went(s) BY <1>1, <1>5 DEF Ends, StepFails
  <2>2. PICK p0 \in Periods : p0 = Head(req[s].periods) BY <1>2, SetOfSplit
  <2>3. /\ Records(s)
        /\ shared[s] \subseteq shared'[s] \/ req'[s] = Idle
        /\ \A p \in suspect \ suspect' : p \in {p0} \ shared[s]
    BY <1>1, <2>1, <2>2, NotedSnapshots DEF Went
  <2>4. AfterSave(s) BY <1>5, SaveFacts
  <2>5. snap' = [snap EXCEPT ![p0] = IF New(s) # NULL \/ req[s].found = "seen" THEN New(s) ELSE @]
    BY <1>5, <2>2, SaveFacts
  <2>6. Scope(s) = {p0} \cup Scope(s)'
    <3>1. Scope(s) = SetOf(req[s].periods) \cup At(SetOf(Tail(req[s].days)))
      BY <1>1, ScopeWhile DEF Saving
    <3>2. SetOf(req[s].periods) = {p0} \cup SetOf(Tail(req[s].periods))
      BY <1>2, <2>2, SetOfSplit
    <3>3. Scope(s)' = SetOf(Tail(req[s].periods)) \cup At(SetOf(Tail(req[s].days)))
      <4>1. CASE Tail(req[s].periods) # <<>>
        <5>1. /\ req'[s] # Idle /\ req'[s].pc = "find" /\ req'[s].periods = Tail(req[s].periods)
              /\ req'[s].days = req[s].days
          BY <2>4, <4>1 DEF AfterSave, GoesOn
        <5> QED BY <5>1, ScopeWhile, Zenon DEF Saving
      <4>2. CASE Tail(req[s].periods) = <<>>
        <5>1. SetOf(Tail(req[s].periods)) = {}
          <6>1. PICK none : none = <<>> OBVIOUS
          <6>2. SetOf(none) = {} BY <6>1 DEF SetOf
          <6> QED BY <4>2, <6>1, <6>2, Zenon
        <5>2. CASE Tail(req[s].days) # <<>>
          <6>1. req'[s] # Idle /\ req'[s].pc = "read_deposits" /\ req'[s].days = Tail(req[s].days)
            BY <2>4, <4>2, <5>2 DEF AfterSave
          <6>2. Scope(s)' = At(SetOf(req'[s].days)) BY <6>1, ScopeWhile DEF Reading
          <6> QED BY <5>1, <6>1, <6>2
        <5>3. CASE Tail(req[s].days) = <<>>
          <6>1. req'[s] = Idle BY <2>4, <4>2, <5>3 DEF AfterSave
          <6>2. Scope(s)' = {} BY <6>1, ScopeWhile
          <6>3. PICK none : none = <<>> OBVIOUS
          <6>4. At(SetOf(none)) = {} BY <6>3 DEF SetOf, At
          <6>5. At(SetOf(Tail(req[s].days))) = {} BY <5>3, <6>3, <6>4, Zenon
          <6> QED BY <5>1, <6>2, <6>5
        <5> QED BY <5>2, <5>3
      <4> QED BY <4>1, <4>2
    <3> QED BY <3>1, <3>2, <3>3
  <2>7. Current(s) BY <1>3 DEF StaleInv
  <2>8. DepositRows' = DepositRows /\ txs' = txs BY <1>1 DEF DepositRows
  <2>9. ASSUME p0 \notin shared[s] PROVE Fresh(p0)'
    <3>1. /\ CountedRows(p0, req[s].deposits) = CountedRows(p0, DepositRows)
          /\ CountedMoves(p0, req[s].txs) = CountedMoves(p0, txs)
          /\ req[s].found = "none" => snap[p0] = NULL
      BY <1>1, <2>2, <2>6, <2>7, <2>9 DEF Current, Saving
    <3>2. PICK agg : agg = Aggregate(p0, DepositRows, txs) OBVIOUS
    <3>3. New(s) = agg BY <2>2, <3>1, <3>2, AggregateIs, Zenon DEF New
    <3>4. snap'[p0] = agg
      <4>1. snap'[p0] = IF agg # NULL \/ req[s].found = "seen" THEN agg ELSE snap[p0]
        BY <2>5, <3>3 DEF Shapes
      <4>2. req[s].found \in {"none", "seen"} BY <1>2, <1>5 DEF SaveFails
      <4> QED BY <3>1, <4>1, <4>2
    <3> QED BY <2>8, <3>2, <3>4 DEF Fresh
  <2>10. ASSUME p0 \in shared[s] PROVE p0 \in suspect'
    <3>1. p0 \in suspect BY <1>3, <2>6, <2>10 DEF StaleInv
    <3> QED BY <2>3, <2>10, <3>1
  <2>11. req'[s] # Idle => req'[s].id = req[s].id
    BY <2>4 DEF AfterSave, GoesOn
  <2>12. \A p \in Periods : snap'[p] = snap[p] \/ p \in Scope(s)
    <3>1. \A p \in Periods : p # p0 => snap'[p] = snap[p] BY <2>5 DEF Shapes
    <3> QED BY <2>6, <3>1
  <2>13. Touches(s) BY <1>1, <2>11, <2>12, QuietTouches
  <2>14. ~Writing(s)' BY <2>4 DEF AfterSave, GoesOn, Writing, Reading, Saving
  <2>15. ASSUME req'[s] # Idle PROVE Current(s)'
    <3>1. CASE req'[s].pc = "find"
      <4>1. req'[s].deposits = req[s].deposits /\ req'[s].txs = req[s].txs
        BY <2>4, <2>15, <3>1 DEF AfterSave
      <4>2. \A p \in Scope(s)' \ shared'[s] :
               /\ CountedRows(p, req'[s].deposits) = CountedRows(p, DepositRows)
               /\ CountedMoves(p, req'[s].txs) = CountedMoves(p, txs)
        BY <1>1, <2>3, <2>6, <2>7, <2>15, <4>1 DEF Current, Saving
      <4> QED BY <2>8, <3>1, <4>2 DEF Current
    <3>2. CASE req'[s].pc = "read_deposits" BY <3>2 DEF Current, Saving
    <3> QED BY <2>4, <2>15, <3>1, <3>2 DEF AfterSave, GoesOn
  <2>16. ASSUME NEW p \in suspect \ suspect' PROVE p \in Scope(s) \ shared[s] /\ Fresh(p)'
    <3>1. p = p0 /\ p \notin shared[s] BY <2>3, <2>16
    <3> QED BY <2>6, <2>9, <3>1
  <2>17. ASSUME NEW p \in Scope(s) PROVE p \in Scope(s)' \/ p \in suspect' \/ Fresh(p)'
    <3>1. p = p0 \/ p \in Scope(s)' BY <2>6, <2>17
    <3> QED BY <2>9, <2>10, <3>1
  <2> QED BY <1>1, <2>3, <2>6, <2>13, <2>14, <2>15, <2>16, <2>17 DEF StaleStep
<1> QED BY <1>4, <1>5

(* A new request claims what it knows; what it does not know is suspect.   *)
LEMMA ArriveStale ==
    ASSUME Shapes, Shapes', StaleInv, NEW s \in Reqs, Arrive(s), Started(s)
    PROVE  StaleStep(s)
<1>1. PICK i \in Ids : /\ req[s] = Idle /\ Apart(s) /\ UNCHANGED <<txs, snap>>
                       /\ req'[s] # Idle /\ req'[s].id = i
                       /\ req'[s].pc \in {"write", "clear", "drop_transactions"}
                       /\ \A j \in Ids \ {i} : RowsKept(j)
                       /\ RowsKept(i) \/ i > created
                       /\ RowDates[i] \subseteq RowDates'[i]
                       /\ RowDates'[i] \subseteq (RowDates[i] \ DepositDate[i]) \cup SetOf(req'[s].days)
  <2>1. CASE \E row \in Rows : Create(s, row)
    <3>1. PICK row \in Rows : Create(s, row) BY <2>1
    <3>2. PICK i \in Ids : i = created + 1 BY <3>1, CreateFacts
    <3>3. /\ req[s] = Idle /\ Apart(s) /\ UNCHANGED <<txs, snap>>
          /\ req'[s] # Idle /\ req'[s].id = i /\ req'[s].pc = "clear"
          /\ req'[s].days = <<row.date>>
          /\ deposits' = [deposits EXCEPT ![i] = row]
      BY <3>1, <3>2, CreateFacts
    <3>4. i > created BY <3>2 DEF Shapes
    <3>5. deposits[i] = NULL /\ deposits'[i] = row
      <4>1. ~(i <= created) BY <3>2 DEF Shapes
      <4> QED BY <3>3, <4>1 DEF Shapes
    <3>6. DepositDate[i] = {} /\ DepositDate'[i] = {row.date} BY <3>5 DEF DepositDate
    <3>7. SetOf(req'[s].days) = {row.date}
      <4>1. PICK days : days = <<row.date>> OBVIOUS
      <4>2. SetOf(days) = {row.date} BY <4>1, Lists, Zenon
      <4> QED BY <3>3, <4>1, <4>2, Zenon
    <3>8. \A j \in Ids \ {i} : RowsKept(j) BY <3>3 DEF RowsKept, TransactionsOf, Shapes
    <3>9. /\ RowDates[i] \subseteq RowDates'[i]
          /\ RowDates'[i] \subseteq (RowDates[i] \ DepositDate[i]) \cup SetOf(req'[s].days)
      BY <3>3, <3>6, <3>7 DEF RowDates
    <3> QED BY <3>3, <3>4, <3>8, <3>9
  <2>2. CASE \E i \in Ids : BeginDelete(s, i) \/ \E row \in Rows : BeginUpdate(s, i, row)
    <3>1. PICK i \in Ids : BeginDelete(s, i) \/ \E row \in Rows : BeginUpdate(s, i, row) BY <2>2
    <3>2. /\ req[s] = Idle /\ Apart(s) /\ UNCHANGED <<deposits, txs, snap>> /\ deposits[i] # NULL
          /\ req'[s] # Idle /\ req'[s].id = i /\ req'[s].pc \in {"write", "drop_transactions"}
      BY <3>1, BeginUpdateFacts, BeginDeleteFacts DEF store
    <3>3. DepositDate[i] \subseteq SetOf(req'[s].days)
      <4>1. DepositDate[i] = {deposits[i].date} BY <3>2 DEF DepositDate
      <4>2. CASE BeginDelete(s, i)
        <5>1. PICK days : days = <<deposits[i].date>> OBVIOUS
        <5>2. SetOf(days) = {deposits[i].date} BY <5>1, Lists, Zenon
        <5>3. req'[s].days = days BY <4>2, <5>1, BeginDeleteFacts, Zenon
        <5> QED BY <4>1, <5>2, <5>3
      <4>3. CASE \E row \in Rows : BeginUpdate(s, i, row)
        <5>1. PICK row \in Rows : BeginUpdate(s, i, row) BY <4>3
        <5>2. PICK days : days = <<deposits[i].date, row.date>> OBVIOUS
        <5>3. SetOf(days) = {deposits[i].date, row.date} BY <5>2, Lists, Zenon
        <5>4. req'[s].days = days BY <5>1, <5>2, BeginUpdateFacts, Zenon
        <5> QED BY <4>1, <5>3, <5>4
      <4> QED BY <3>1, <4>2, <4>3
    <3>4. \A j \in Ids : RowsKept(j) BY <3>2, UnchangedRows
    <3>5. RowDates' = RowDates BY <3>2 DEF RowDates, DepositDate
    <3> QED BY <3>2, <3>3, <3>4, <3>5
  <2> QED BY <2>1, <2>2 DEF Arrive
<1>2. /\ Records(s) /\ \A p \in suspect : p \in suspect'
      /\ At(RowDates[i] \ DepositDate[i]) \subseteq suspect'
  <2>1. Record(s, At(RowDates[i] \ DepositDate[i]), {}, {}, {})
    BY <1>1 DEF Started
  <2> QED BY <2>1, NotedSnapshots
<1>3. Scope(s) = {} BY <1>1, ScopeWhile
<1>4. Writing(s)' BY <1>1 DEF Writing, Reading, Saving
<1>5. Scope(s)' = At(SetOf(req'[s].days) \cup RowDates'[i]) BY <1>1, <1>4, ScopeWhile
<1>6. At(RowDates[i]) \subseteq Scope(s)' /\ At(RowDates'[i]) \subseteq Scope(s)'
  BY <1>1, <1>5, AtSplits
<1>7. ASSUME NEW p \in Periods PROVE KeptIn(p) \/ p \in Scope(s)'
  <2>1. p \notin Scope(s)' => p \notin At(RowDates[i]) /\ p \notin At(RowDates[i]') BY <1>6
  <2> QED BY <1>1, <2>1, KeptOutside
<1>8. Touches(s) BY <1>1, <1>7 DEF Touches
<1>9. At(RowDates'[i]) \subseteq At(SetOf(req'[s].days)) \cup suspect'
  <2>1. At(RowDates'[i]) \subseteq At(RowDates[i] \ DepositDate[i]) \cup At(SetOf(req'[s].days))
    <3>1. PICK S : S = RowDates[i] \ DepositDate[i] OBVIOUS
    <3>2. PICK T : T = SetOf(req'[s].days) OBVIOUS
    <3>3. RowDates'[i] \subseteq S \cup T BY <1>1, <3>1, <3>2
    <3>4. At(RowDates'[i]) \subseteq At(S) \cup At(T) BY <3>3 DEF At
    <3> QED BY <3>1, <3>2, <3>4
  <2> QED BY <1>2, <2>1
<1>10. Current(s)'
  <2>1. ~(req'[s].pc \in {"read_transactions", "find", "save"}) BY <1>1
  <2> QED BY <2>1 DEF Current, Saving
<1> QED BY <1>1, <1>2, <1>3, <1>8, <1>9, <1>10 DEF StaleStep

LEMMA StaleNext ==
    ASSUME Shapes, StaleInv, PagesSuffice, HNext
    PROVE  StaleInv'
<1>1. PICK s \in Reqs :
         \/ Arrive(s) /\ Started(s)
         \/ Step(s) /\ Ends(s)
         \/ Fail(s) /\ Broke(s)
  BY Acts
<1>2. Shapes' BY Acts, ShapesStep
<1>3. StaleStep(s)
  <2>1. CASE Arrive(s) /\ Started(s) BY <1>2, <2>1, ArriveStale
  <2>2. CASE Step(s) /\ Ends(s) BY <1>2, <2>2, WritersStale, ReadersStale, SaveStale DEF Step
  <2>3. CASE Fail(s) /\ Broke(s)
    <3>1. /\ req[s] # Idle /\ req'[s] = Idle /\ Apart(s) /\ UNCHANGED <<deposits, txs, snap>>
      BY <2>3, Leaves DEF Fail, store
    <3> QED BY <2>3, <3>1, BrokeStale
  <2> QED BY <1>1, <2>1, <2>2, <2>3
<1> QED BY <1>2, <1>3, StaleStepKeeps

LEMMA StaleStutters ==
    ASSUME UNCHANGED hvars, StaleInv
    PROVE  StaleInv'
<1>1. UNCHANGED <<deposits, txs, snap, req, suspect, shared>> BY DEF hvars
<1>2. RowDates' = RowDates /\ DepositRows' = DepositRows BY <1>1 DEF RowDates, DepositDate, DepositRows
<1>3. \A r \in Reqs : /\ Scope(r)' = Scope(r) /\ (Writing(r)' <=> Writing(r))
                      /\ (Saving(r)' <=> Saving(r))
  BY <1>1, <1>2 DEF Scope, Writing, Reading, Saving
<1>4. \A r \in Reqs : Contended(r)' = Contended(r)
  BY <1>1, <1>3 DEF Contended, SameDeposit
<1>5. \A r \in Reqs : Current(r) => Current(r)'
  BY <1>1, <1>2, <1>3 DEF Current
<1>6. \A p : Fresh(p) => Fresh(p)' BY <1>1, <1>2 DEF Fresh
<1>7. InFlight' = InFlight /\ InFlight \subseteq Reqs BY <1>1 DEF InFlight
<1> QED BY <1>1, <1>2, <1>3, <1>4, <1>5, <1>6, <1>7 DEF StaleInv

(* As long as the pages hold all rows, a snapshot is wrong only in a       *)
(* period some request has still to save, or one two requests contended    *)
(* for or a failed one left unsaved, until a request that has the period   *)
(* to itself saves it.                                                     *)
THEOREM StaleWhereDisturbed == HSpec /\ []PagesSuffice => []StaleOnlyWhereDisturbed
<1>1. HInit => StaleInv
  <2> SUFFICES ASSUME HInit PROVE StaleInv OBVIOUS
  <2>1. \A r \in Reqs : req[r] = Idle /\ shared[r] = {} BY DEF HInit, Init
  <2>2. \A p \in Periods : Fresh(p)
    <3>1. DepositRows = {} /\ txs = {} /\ \A p \in Periods : snap[p] = NULL
      BY DEF HInit, Init, DepositRows
    <3>2. \A p \in Periods : CountedRows(p, DepositRows) = {} BY <3>1 DEF CountedRows
    <3> QED BY <3>1, <3>2, AggregateIs DEF Fresh
  <2> QED BY <2>1, <2>2 DEF StaleInv, InFlight
<1>2. Shapes /\ StaleInv /\ PagesSuffice /\ [HNext]_hvars => StaleInv'
  BY StaleNext, StaleStutters
<1>3. StaleInv => StaleOnlyWhereDisturbed BY DEF StaleInv, StaleOnlyWhereDisturbed
<1> QED BY <1>1, <1>2, <1>3, ShapesHold, PTL DEF HSpec

-----------------------------------------------------------------------------
(* Requests that are served one at a time.                                 *)
DateOf(row) == IF row = NULL THEN {} ELSE {row.date}

(* The transactions `rows' are those of the deposit `row'.                 *)
Mirrors(row, rows) ==
    IF row = NULL THEN rows = {}
    ELSE \E t \in rows : rows = {t} /\ t.date = row.date /\ t.amount = row.amount

TransactionsBefore(i) == {t \in committed.txs : t.id = i}

(* The rows as the request r at work on deposit i has them by now.         *)
RowsAtWork(r, i) ==
    /\ \A j \in Ids \ {i} : /\ deposits[j] = committed.deposits[j]
                            /\ TransactionsOf(j) = TransactionsBefore(j)
    /\ req[r].row = NULL => committed.deposits[i] # NULL
    /\ req[r].pc \in {"write", "drop_transactions", "drop"} => deposits[i] # NULL
    /\ req[r].pc \in {"drop_transactions", "drop"} => req[r].row = NULL
    /\ req[r].pc \in {"clear", "fill"} => deposits[i] = req[r].row
    /\ req[r].pc \in {"fill", "drop"} => TransactionsOf(i) = {}
    /\ req[r].pc \notin WritingPCs => /\ deposits[i] = req[r].row
                                      /\ Mirrors(req[r].row, TransactionsOf(i))

(* The dates r changes, and the periods it has still to save.              *)
Changed(r) == DateOf(committed.deposits[req[r].id]) \cup DateOf(req[r].row)

Left(r) ==
    IF Saving(r) THEN SetOf(req[r].periods) \cup At(SetOf(Tail(req[r].days)))
    ELSE At(SetOf(req[r].days))

(* What r has read is what there is, and a period it is through with has   *)
(* the snapshot of the rows.                                               *)
SnapshotsAtWork(r) ==
    /\ req[r].pc \in WritingPCs => SetOf(req[r].days) = Changed(r)
    /\ Left(r) \subseteq At(Changed(r))
    /\ \A p \in Periods \ Left(r) :
          snap[p] = IF p \in At(Changed(r)) THEN Aggregate(p, DepositRows, txs) ELSE committed.snap[p]
    /\ req[r].pc \in {"read_transactions", "find", "save"} => req[r].deposits = DepositRows
    /\ Saving(r) => req[r].txs = txs
    /\ req[r].pc = "save" => /\ req[r].found \in {"none", "seen"}
                             /\ req[r].found = "none" => snap[Head(req[r].periods)] = NULL

SerialInv ==
    /\ Shapes
    /\ \A i \in Ids : /\ committed.deposits[i] \in Rows \cup {NULL}
                      /\ Mirrors(committed.deposits[i], TransactionsBefore(i))
    /\ InFlight = {} => committed = Stored
    /\ \A r \in InFlight : RowsAtWork(r, req[r].id) /\ SnapshotsAtWork(r)

-----------------------------------------------------------------------------
(* A step of s, the one request there is, that leaves it at work.          *)
StaysAtWork(s) ==
    /\ req'[s] # Idle
    /\ RowsAtWork(s, req[s].id)' /\ SnapshotsAtWork(s)'

LEMMA Alone ==
    ASSUME NEW s \in Reqs
    PROVE  /\ req[s] # Idle => InFlight = {s}
           /\ req[s] = Idle => InFlight = {}
           /\ req'[s] # Idle => InFlight' = {s}
           /\ req'[s] = Idle => InFlight' = {}
<1>1. \A r \in Reqs : r = s BY SerialAssumption
<1> QED BY <1>1 DEF InFlight

LEMMA AtWorkKeeps ==
    ASSUME SerialInv, Shapes', NEW s \in Reqs, StaysAtWork(s), committed' = committed
    PROVE  SerialInv'
<1>1. InFlight' = {s} BY Alone DEF StaysAtWork
<1>2. \A i \in Ids : /\ committed'.deposits[i] \in Rows \cup {NULL}
                     /\ Mirrors(committed'.deposits[i], TransactionsBefore(i)')
  BY DEF SerialInv, TransactionsBefore
<1>3. (\A r \in InFlight : RowsAtWork(r, req[r].id) /\ SnapshotsAtWork(r))'
  BY <1>1 DEF StaysAtWork
<1>4. (InFlight = {} => committed = Stored)' BY <1>1
<1>5. (\A i \in Ids : /\ committed.deposits[i] \in Rows \cup {NULL}
                      /\ Mirrors(committed.deposits[i], TransactionsBefore(i)))'
  BY <1>2
<1> QED BY <1>3, <1>4, <1>5 DEF SerialInv

LEMMA CommitKeeps ==
    ASSUME Shapes', NEW s \in Reqs, req'[s] = Idle, committed' = Stored',
           \A i \in Ids : Mirrors(deposits'[i], TransactionsOf(i)')
    PROVE  SerialInv'
<1>1. InFlight' = {} BY Alone
<1>2. ASSUME NEW i \in Ids
      PROVE  /\ committed'.deposits[i] \in Rows \cup {NULL}
             /\ Mirrors(committed'.deposits[i], TransactionsBefore(i)')
  <2>1. committed'.deposits = deposits' /\ committed'.txs = txs' BY DEF Stored
  <2>2. TransactionsBefore(i)' = TransactionsOf(i)' BY <2>1 DEF TransactionsBefore, TransactionsOf
  <2>3. deposits'[i] \in Rows \cup {NULL} BY DEF Shapes
  <2> QED BY <2>1, <2>2, <2>3
<1>3. (\A i \in Ids : /\ committed.deposits[i] \in Rows \cup {NULL}
                      /\ Mirrors(committed.deposits[i], TransactionsBefore(i)))'
  BY <1>2
<1>4. (\A r \in InFlight : RowsAtWork(r, req[r].id) /\ SnapshotsAtWork(r))' BY <1>1
<1> QED BY <1>1, <1>3, <1>4 DEF SerialInv

(* The request at work, its deposit and the store it found.                *)
LEMMA AtWork ==
    ASSUME SerialInv, NEW s \in Reqs, req[s] # Idle
    PROVE  /\ RowsAtWork(s, req[s].id) /\ SnapshotsAtWork(s)
           /\ Working(req[s]) /\ req[s].id \in Ids
           /\ req[s].days \in Seq(Dates) /\ req[s].days # <<>>
           /\ req[s].row \in Rows \cup {NULL}
           /\ committed.deposits[req[s].id] \in Rows \cup {NULL}
           /\ Changed(s) \subseteq Dates
<1>1. RowsAtWork(s, req[s].id) /\ SnapshotsAtWork(s) BY Alone DEF SerialInv
<1>2. Working(req[s]) BY DEF SerialInv, Shapes
<1>3. /\ req[s].id \in Ids /\ req[s].row \in Rows \cup {NULL}
      /\ req[s].days \in Seq(Dates) /\ req[s].days # <<>>
  BY <1>2, Kinds DEF Working
<1>4. committed.deposits[req[s].id] \in Rows \cup {NULL} BY <1>3 DEF SerialInv
<1>5. \A row \in Rows \cup {NULL} : DateOf(row) \subseteq Dates BY DEF DateOf, Rows
<1>6. Changed(s) \subseteq Dates BY <1>3, <1>4, <1>5 DEF Changed
<1> QED BY <1>1, <1>2, <1>3, <1>4, <1>6

-----------------------------------------------------------------------------
(* The request has not written all its rows yet: no snapshot changes.      *)
LEMMA WritingSnapshots ==
    ASSUME SerialInv, NEW s \in Reqs, req[s] # Idle, req[s].pc \in WritingPCs,
           NEW pc \in WritingPCs \cup {"read_deposits"}, GoesOn(s, pc),
           snap' = snap, committed' = committed
    PROVE  SnapshotsAtWork(s)'
<1>1. SnapshotsAtWork(s) BY AtWork
<1>2. ~Saving(s) /\ ~Saving(s)' BY DEF Saving, WritingPCs, GoesOn
<1>3. Left(s) = At(Changed(s)) /\ SetOf(req[s].days) = Changed(s)
  BY <1>1, <1>2 DEF SnapshotsAtWork, Left
<1>4. Changed(s)' = Changed(s) BY DEF Changed, GoesOn
<1>5. req'[s].days = req[s].days /\ req'[s].pc = pc BY DEF GoesOn
<1>6. Left(s)' = At(Changed(s)) BY <1>2, <1>3, <1>5 DEF Left
<1>7. \A p \in Periods \ At(Changed(s)) : snap[p] = committed.snap[p]
  BY <1>1, <1>3 DEF SnapshotsAtWork
<1>8. At(Changed(s))' = At(Changed(s)) BY <1>4 DEF At
<1>9. pc \notin {"read_transactions", "find", "save"} BY DEF WritingPCs
<1>10. (\A p \in Periods \ Left(s) :
           snap[p] = IF p \in At(Changed(s)) THEN Aggregate(p, DepositRows, txs) ELSE committed.snap[p])'
  BY <1>6, <1>7, <1>8
<1>11. SetOf(req'[s].days) = Changed(s)' BY <1>3, <1>4, <1>5
<1>12. (req[s].pc \in WritingPCs => SetOf(req[s].days) = Changed(s))' BY <1>11
<1>13. Left(s)' \subseteq At(Changed(s))' BY <1>6, <1>8
<1> QED BY <1>2, <1>5, <1>9, <1>10, <1>12, <1>13 DEF SnapshotsAtWork

(* What a step does to the rows of the other deposits: nothing.            *)
LEMMA OthersKept ==
    ASSUME SerialInv, NEW s \in Reqs, req[s] # Idle, committed' = committed,
           \A j \in Ids \ {req[s].id} : RowsKept(j)
    PROVE  \A j \in Ids \ {req[s].id} : /\ deposits'[j] = committed'.deposits[j]
                                        /\ TransactionsOf(j)' = TransactionsBefore(j)'
<1>1. RowsAtWork(s, req[s].id) BY AtWork
<1>2. \A j \in Ids : TransactionsBefore(j)' = TransactionsBefore(j) BY DEF TransactionsBefore
<1> QED BY <1>1, <1>2 DEF RowsAtWork, RowsKept

LEMMA RowsMove ==
    ASSUME SerialInv, NEW s \in Reqs, req[s] # Idle, committed' = committed,
           NEW i \in Ids, i = req[s].id,
           NEW pc, GoesOn(s, pc), pc \notin {"write", "drop_transactions"},
           \A j \in Ids \ {i} : RowsKept(j),
           pc = "drop" => deposits'[i] # NULL /\ req[s].row = NULL,
           pc \in {"clear", "fill"} => deposits'[i] = req[s].row,
           pc \in {"fill", "drop"} => TransactionsOf(i)' = {},
           pc \notin WritingPCs => /\ deposits'[i] = req[s].row
                                   /\ Mirrors(req[s].row, TransactionsOf(i)')
    PROVE  RowsAtWork(s, req[s].id)'
<1>1. req'[s].pc = pc /\ req'[s].row = req[s].row /\ req'[s].id = i BY DEF GoesOn
<1>2. \A j \in Ids \ {i} : /\ deposits'[j] = committed'.deposits[j]
                           /\ TransactionsOf(j)' = TransactionsBefore(j)'
  BY OthersKept
<1>3. req[s].row = NULL => committed'.deposits[i] # NULL BY AtWork DEF RowsAtWork
<1>4. RowsAtWork(s, i)' BY <1>1, <1>2, <1>3 DEF RowsAtWork
<1> QED BY <1>1, <1>4

LEMMA WriteStays ==
    ASSUME SerialInv, NEW s \in Reqs, NEW i \in Ids, i = req[s].id, Write(s), committed' = committed
    PROVE  StaysAtWork(s)
<1>1. Shapes BY DEF SerialInv
<1>2. /\ req[s] # Idle /\ req[s].pc = "write" /\ Working(req[s])
      /\ UNCHANGED <<txs, snap>>
  BY <1>1, WriteFacts DEF About
<1>3. deposits[i] # NULL BY <1>2, AtWork DEF RowsAtWork
<1>4. /\ GoesOn(s, "clear") /\ deposits' = [deposits EXCEPT ![i] = req[s].row]
  BY <1>1, <1>3, WriteFacts
<1>5. /\ deposits'[i] = req[s].row
      /\ \A j \in Ids \ {i} : deposits'[j] = deposits[j]
  BY <1>1, <1>2, <1>4 DEF Shapes
<1>6. \A j \in Ids \ {i} : RowsKept(j) BY <1>2, <1>5 DEF RowsKept, TransactionsOf
<1>7. RowsAtWork(s, req[s].id)' BY <1>2, <1>4, <1>5, <1>6, RowsMove DEF WritingPCs
<1>8. SnapshotsAtWork(s)' BY <1>2, <1>4, WritingSnapshots DEF WritingPCs
<1> QED BY <1>4, <1>7, <1>8 DEF StaysAtWork, GoesOn

(* The transactions of deposit i are gone, the others are there.           *)
LEMMA Emptied ==
    ASSUME NEW i, txs' = {t \in txs : t.id # i}, deposits' = deposits
    PROVE  TransactionsOf(i)' = {} /\ \A j \in Ids \ {i} : RowsKept(j)
BY DEF TransactionsOf, RowsKept

LEMMA ClearStays ==
    ASSUME SerialInv, NEW s \in Reqs, NEW i \in Ids, i = req[s].id, Clear(s), committed' = committed
    PROVE  StaysAtWork(s)
<1>1. Shapes BY DEF SerialInv
<1>2. /\ req[s] # Idle /\ req[s].pc = "clear"
      /\ GoesOn(s, "fill") /\ UNCHANGED <<deposits, snap>>
      /\ txs' = {t \in txs : t.id # i}
  BY <1>1, ClearFacts DEF About
<1>3. TransactionsOf(i)' = {} /\ \A j \in Ids \ {i} : RowsKept(j)
  BY <1>2, Emptied
<1>4. deposits'[i] = req[s].row BY <1>2, AtWork DEF RowsAtWork
<1>5. RowsAtWork(s, req[s].id)' BY <1>2, <1>3, <1>4, RowsMove DEF WritingPCs
<1>6. SnapshotsAtWork(s)' BY <1>2, WritingSnapshots DEF WritingPCs
<1> QED BY <1>2, <1>5, <1>6 DEF StaysAtWork, GoesOn

LEMMA FillStays ==
    ASSUME SerialInv, NEW s \in Reqs, NEW i \in Ids, i = req[s].id, Fill(s), committed' = committed
    PROVE  StaysAtWork(s)
<1>1. Shapes BY DEF SerialInv
<1>2. /\ req[s] # Idle /\ req[s].pc = "fill" /\ Working(req[s])
      /\ GoesOn(s, "read_deposits") /\ UNCHANGED <<deposits, snap>>
  BY <1>1, FillFacts DEF About
<1>3. PICK t : /\ t = [id |-> i, date |-> req[s].row.date,
                       amount |-> req[s].row.amount, by |-> s]
               /\ txs' = txs \cup {t}
  BY <1>1, FillFacts
<1>4. t.id = i /\ t.date = req[s].row.date /\ t.amount = req[s].row.amount BY <1>3
<1>5. TransactionsOf(i) = {} /\ deposits[i] = req[s].row
  BY <1>2, AtWork DEF RowsAtWork
<1>6. TransactionsOf(i)' = {t} BY <1>3, <1>4, <1>5 DEF TransactionsOf
<1>7. \A j \in Ids \ {i} : RowsKept(j)
  BY <1>2, <1>3, <1>4 DEF RowsKept, TransactionsOf
<1>8. req[s].row # NULL
  <2>1. req[s].row \in Rows BY <1>2 DEF Working
  <2> QED BY <2>1, NullAssumption
<1>9. Mirrors(req[s].row, TransactionsOf(i)') BY <1>4, <1>6, <1>8 DEF Mirrors
<1>10. RowsAtWork(s, req[s].id)' BY <1>2, <1>5, <1>7, <1>9, RowsMove
<1>11. SnapshotsAtWork(s)' BY <1>2, WritingSnapshots DEF WritingPCs
<1> QED BY <1>2, <1>10, <1>11 DEF StaysAtWork, GoesOn

LEMMA DropTransactionsStays ==
    ASSUME SerialInv, NEW s \in Reqs, NEW i \in Ids, i = req[s].id, DropTransactions(s), committed' = committed
    PROVE  StaysAtWork(s)
<1>1. Shapes BY DEF SerialInv
<1>2. /\ req[s] # Idle /\ req[s].pc = "drop_transactions"
      /\ GoesOn(s, "drop") /\ UNCHANGED <<deposits, snap>>
      /\ txs' = {t \in txs : t.id # i}
  BY <1>1, DropTransactionsFacts DEF About
<1>3. TransactionsOf(i)' = {} /\ \A j \in Ids \ {i} : RowsKept(j)
  BY <1>2, Emptied
<1>4. deposits'[i] # NULL /\ req[s].row = NULL BY <1>2, AtWork DEF RowsAtWork
<1>5. RowsAtWork(s, req[s].id)' BY <1>2, <1>3, <1>4, RowsMove DEF WritingPCs
<1>6. SnapshotsAtWork(s)' BY <1>2, WritingSnapshots DEF WritingPCs
<1> QED BY <1>2, <1>5, <1>6 DEF StaysAtWork, GoesOn

LEMMA DropStays ==
    ASSUME SerialInv, NEW s \in Reqs, NEW i \in Ids, i = req[s].id, Drop(s), committed' = committed
    PROVE  StaysAtWork(s)
<1>1. Shapes BY DEF SerialInv
<1>2. /\ req[s] # Idle /\ req[s].pc = "drop" /\ UNCHANGED <<txs, snap>>
  BY <1>1, DropFacts DEF About
<1>3. /\ deposits[i] # NULL /\ req[s].row = NULL /\ TransactionsOf(i) = {}
  BY <1>2, AtWork DEF RowsAtWork
<1>4. /\ GoesOn(s, "read_deposits") /\ deposits' = [deposits EXCEPT ![i] = NULL]
  BY <1>1, <1>3, DropFacts
<1>5. /\ deposits'[i] = req[s].row
      /\ \A j \in Ids \ {i} : deposits'[j] = deposits[j]
  BY <1>1, <1>2, <1>3, <1>4 DEF Shapes
<1>6. /\ \A j \in Ids \ {i} : RowsKept(j)
      /\ Mirrors(req[s].row, TransactionsOf(i)')
  BY <1>2, <1>3, <1>5 DEF RowsKept, TransactionsOf, Mirrors
<1>7. RowsAtWork(s, req[s].id)' BY <1>2, <1>4, <1>5, <1>6, RowsMove
<1>8. SnapshotsAtWork(s)' BY <1>2, <1>4, WritingSnapshots DEF WritingPCs
<1> QED BY <1>4, <1>7, <1>8 DEF StaysAtWork, GoesOn

-----------------------------------------------------------------------------
(* A request arrives when none is at work: it finds what was committed.    *)
LEMMA NothingAtWork ==
    ASSUME SerialInv, NEW s \in Reqs, req[s] = Idle
    PROVE  /\ committed.deposits = deposits /\ committed.txs = txs /\ committed.snap = snap
           /\ \A i \in Ids : TransactionsBefore(i) = TransactionsOf(i)
<1>1. committed = Stored BY Alone DEF SerialInv
<1>2. committed.deposits = deposits /\ committed.txs = txs /\ committed.snap = snap
  BY <1>1 DEF Stored
<1> QED BY <1>2 DEF TransactionsBefore, TransactionsOf

LEMMA ArrivalRows ==
    ASSUME SerialInv, NEW s \in Reqs, req[s] = Idle, committed' = committed, txs' = txs,
           NEW i \in Ids, i = req'[s].id,
           req'[s].pc \in {"write", "clear", "drop_transactions"},
           \A j \in Ids \ {i} : deposits'[j] = deposits[j],
           req'[s].row = NULL => deposits[i] # NULL,
           req'[s].pc \in {"write", "drop_transactions"} => deposits'[i] # NULL,
           req'[s].pc = "drop_transactions" => req'[s].row = NULL,
           req'[s].pc = "clear" => deposits'[i] = req'[s].row
    PROVE  RowsAtWork(s, req[s].id)'
<1>1. \A j \in Ids \ {i} : /\ deposits'[j] = committed'.deposits[j]
                           /\ TransactionsOf(j)' = TransactionsBefore(j)'
  BY NothingAtWork DEF TransactionsOf, TransactionsBefore
<1>2. req'[s].row = NULL => committed'.deposits[i] # NULL BY NothingAtWork
<1>3. RowsAtWork(s, i)' BY <1>1, <1>2 DEF RowsAtWork, WritingPCs
<1> QED BY <1>3

LEMMA ArrivalSnapshots ==
    ASSUME SerialInv, NEW s \in Reqs, req[s] = Idle, committed' = committed, snap' = snap,
           req'[s].pc \in {"write", "clear", "drop_transactions"},
           SetOf(req'[s].days) = Changed(s)'
    PROVE  SnapshotsAtWork(s)'
<1>1. ~Saving(s)' BY DEF Saving
<1>2. Left(s)' = At(Changed(s)') BY <1>1 DEF Left, At
<1>3. \A p \in Periods : snap'[p] = committed'.snap[p] BY NothingAtWork
<1>4. At(Changed(s))' = At(Changed(s)') BY DEF At
<1>5. (\A p \in Periods \ Left(s) :
          snap[p] = IF p \in At(Changed(s)) THEN Aggregate(p, DepositRows, txs) ELSE committed.snap[p])'
  BY <1>2, <1>3, <1>4
<1>6. (req[s].pc \in WritingPCs => SetOf(req[s].days) = Changed(s))' OBVIOUS
<1> QED BY <1>1, <1>2, <1>4, <1>5, <1>6 DEF SnapshotsAtWork

LEMMA CreateStays ==
    ASSUME SerialInv, NEW s \in Reqs, NEW row \in Rows, Create(s, row), committed' = committed
    PROVE  StaysAtWork(s)
<1>1. Shapes BY DEF SerialInv
<1>2. /\ req[s] = Idle /\ created + 1 \in Ids /\ req'[s] # Idle
      /\ req'[s].pc = "clear" /\ req'[s].id = created + 1
      /\ req'[s].row = row /\ req'[s].days = <<row.date>>
      /\ deposits' = [deposits EXCEPT ![created + 1] = row] /\ UNCHANGED <<txs, snap>>
  BY <1>1, CreateFacts
<1>3. PICK i \in Ids : i = created + 1 BY <1>2
<1>4. deposits[i] = NULL
  <2>1. created \in Nat BY <1>1 DEF Shapes
  <2> QED BY <1>1, <1>3, <2>1 DEF Shapes
<1>5. row # NULL BY NullAssumption
<1>6. /\ deposits'[i] = row
      /\ \A j \in Ids \ {i} : deposits'[j] = deposits[j]
  BY <1>1, <1>2, <1>3 DEF Shapes
<1>7. RowsAtWork(s, req[s].id)' BY <1>2, <1>3, <1>5, <1>6, ArrivalRows
<1>8. Changed(s)' = DateOf(committed.deposits[i]) \cup DateOf(row)
  BY <1>2, <1>3 DEF Changed
<1>9. Changed(s)' = {row.date} BY <1>2, <1>4, <1>5, <1>8, NothingAtWork DEF DateOf
<1>10. SetOf(req'[s].days) = {row.date} BY <1>2, Lists, Zenon
<1>11. SnapshotsAtWork(s)' BY <1>2, <1>9, <1>10, ArrivalSnapshots
<1> QED BY <1>2, <1>7, <1>11 DEF StaysAtWork

LEMMA BeginUpdateStays ==
    ASSUME SerialInv, NEW s \in Reqs, NEW i \in Ids, NEW row \in Rows, BeginUpdate(s, i, row),
           committed' = committed
    PROVE  StaysAtWork(s)
<1>1. Shapes BY DEF SerialInv
<1>2. /\ req[s] = Idle /\ UNCHANGED store /\ deposits[i] # NULL /\ req'[s] # Idle
      /\ req'[s].pc = "write" /\ req'[s].id = i
      /\ req'[s].row = row /\ req'[s].days = <<deposits[i].date, row.date>>
  BY <1>1, BeginUpdateFacts
<1>3. UNCHANGED <<deposits, txs, snap>> BY <1>2 DEF store
<1>4. row # NULL BY NullAssumption
<1>5. RowsAtWork(s, req[s].id)' BY <1>2, <1>3, <1>4, ArrivalRows
<1>6. Changed(s)' = DateOf(committed.deposits[i]) \cup DateOf(row) BY <1>2 DEF Changed
<1>7. Changed(s)' = {deposits[i].date, row.date}
  BY <1>2, <1>4, <1>6, NothingAtWork DEF DateOf
<1>8. SetOf(req'[s].days) = {deposits[i].date, row.date}
  <2>1. PICK days : days = <<deposits[i].date, row.date>> OBVIOUS
  <2>2. SetOf(days) = {deposits[i].date, row.date} BY <2>1, Lists, Zenon
  <2> QED BY <1>2, <2>1, <2>2, Zenon
<1>9. SnapshotsAtWork(s)' BY <1>2, <1>3, <1>7, <1>8, ArrivalSnapshots
<1> QED BY <1>2, <1>5, <1>9 DEF StaysAtWork

LEMMA BeginDeleteStays ==
    ASSUME SerialInv, NEW s \in Reqs, NEW i \in Ids, BeginDelete(s, i), committed' = committed
    PROVE  StaysAtWork(s)
<1>1. Shapes BY DEF SerialInv
<1>2. /\ req[s] = Idle /\ UNCHANGED store /\ deposits[i] # NULL /\ req'[s] # Idle
      /\ req'[s].pc = "drop_transactions" /\ req'[s].id = i
      /\ req'[s].row = NULL /\ req'[s].days = <<deposits[i].date>>
  BY <1>1, BeginDeleteFacts
<1>3. UNCHANGED <<deposits, txs, snap>> BY <1>2 DEF store
<1>4. RowsAtWork(s, req[s].id)' BY <1>2, <1>3, ArrivalRows
<1>5. Changed(s)' = DateOf(committed.deposits[i]) \cup DateOf(NULL) BY <1>2 DEF Changed
<1>6. Changed(s)' = {deposits[i].date} BY <1>2, <1>5, NothingAtWork DEF DateOf
<1>7. SetOf(req'[s].days) = {deposits[i].date} BY <1>2, Lists, Zenon
<1>8. SnapshotsAtWork(s)' BY <1>2, <1>3, <1>6, <1>7, ArrivalSnapshots
<1> QED BY <1>2, <1>4, <1>8 DEF StaysAtWork

-----------------------------------------------------------------------------
(* The rows are written: a page holds them all, and reading and saving     *)
(* changes none.                                                           *)
LEMMA AllMirrored ==
    ASSUME SerialInv, NEW s \in Reqs, req[s] # Idle, req[s].pc \notin WritingPCs
    PROVE  \A i \in Ids : Mirrors(deposits[i], TransactionsOf(i))
<1>1. PICK i \in Ids : i = req[s].id BY AtWork
<1>2. deposits[i] = req[s].row /\ Mirrors(req[s].row, TransactionsOf(i))
  BY <1>1, AtWork DEF RowsAtWork
<1>3. ASSUME NEW j \in Ids \ {i} PROVE Mirrors(deposits[j], TransactionsOf(j))
  <2>1. deposits[j] = committed.deposits[j] /\ TransactionsOf(j) = TransactionsBefore(j)
    BY <1>1, AtWork DEF RowsAtWork
  <2> QED BY <2>1 DEF SerialInv
<1> QED BY <1>2, <1>3

LEMMA PagesHoldAll ==
    ASSUME SerialInv, NEW s \in Reqs, req[s] # Idle, req[s].pc \notin WritingPCs
    PROVE  PagesSuffice
<1>1. IsFiniteSet(Ids) /\ Cardinality(Ids) \in Nat BY IdsAssumption, FS_Interval, FS_CardinalityType
<1>2. Shapes BY DEF SerialInv
<1>3. IsFiniteSet(txs) /\ Cardinality(txs) <= Cardinality(Ids)
  <2> DEFINE f == [t \in txs |-> t.id]
  <2>1. \A t \in txs : t.id \in Ids BY <1>2 DEF Shapes, Moves
  <2>2. ASSUME NEW t \in txs, NEW u \in txs, t.id = u.id PROVE t = u
    <3>1. PICK i \in Ids : i = t.id BY <2>1
    <3>2. Mirrors(deposits[i], TransactionsOf(i)) BY AllMirrored
    <3>3. t \in TransactionsOf(i) /\ u \in TransactionsOf(i) BY <2>2, <3>1 DEF TransactionsOf
    <3> QED BY <3>2, <3>3 DEF Mirrors
  <2>3. f \in Injection(txs, Ids)
    <3>1. f \in [txs -> Ids] BY <2>1
    <3>2. \A t, u \in txs : f[t] = f[u] => t = u BY <2>2
    <3> HIDE DEF f
    <3> QED BY <3>1, <3>2 DEF Injection, IsInjective
  <2> HIDE DEF f
  <2> QED BY <1>1, <2>3, FS_Injection
<1>4. IsFiniteSet(DepositRows) /\ Cardinality(DepositRows) <= Cardinality(Ids)
  <2> DEFINE g == [d \in DepositRows |-> d.id]
  <2>1. ASSUME NEW d \in DepositRows PROVE d.id \in Ids /\ d = [id |-> d.id, row |-> deposits[d.id]]
    BY DEF DepositRows
  <2>2. g \in Injection(DepositRows, Ids)
    <3>1. g \in [DepositRows -> Ids] BY <2>1
    <3>2. ASSUME NEW d \in DepositRows, NEW e \in DepositRows, g[d] = g[e] PROVE d = e
      BY <2>1, <3>2
    <3> HIDE DEF g
    <3> QED BY <3>1, <3>2 DEF Injection, IsInjective
  <2> HIDE DEF g
  <2> QED BY <1>1, <2>2, FS_Injection
<1>5. Cardinality(txs) \in Nat /\ Cardinality(DepositRows) \in Nat
  BY <1>3, <1>4, FS_CardinalityType
<1> QED BY <1>1, <1>3, <1>4, <1>5, PagesAssumption, LimitsAssumption DEF PagesSuffice

LEMMA ReadingRows ==
    ASSUME SerialInv, NEW s \in Reqs, req[s] # Idle, req[s].pc \notin WritingPCs,
           committed' = committed, UNCHANGED <<deposits, txs>>,
           req'[s].pc \notin WritingPCs, req'[s].id = req[s].id, req'[s].row = req[s].row
    PROVE  RowsAtWork(s, req[s].id)'
<1>1. PICK i \in Ids : i = req[s].id BY AtWork
<1>2. RowsAtWork(s, i) BY <1>1, AtWork
<1>3. \A j \in Ids : TransactionsOf(j)' = TransactionsOf(j) /\ TransactionsBefore(j)' = TransactionsBefore(j)
  BY DEF TransactionsOf, TransactionsBefore
<1>4. RowsAtWork(s, i)' BY <1>2, <1>3 DEF RowsAtWork, WritingPCs
<1> QED BY <1>1, <1>4

(* The periods that are done and what is still to do, after a step that    *)
(* changes no row: at most period p has come to be done.                   *)
LEMMA ReadingSnapshots ==
    ASSUME SerialInv, NEW s \in Reqs, req[s] # Idle, committed' = committed,
           UNCHANGED <<deposits, txs>>, req'[s].pc \notin WritingPCs,
           req'[s].id = req[s].id, req'[s].row = req[s].row,
           Left(s)' \subseteq Left(s),
           \A p \in Periods \ Left(s)' :
              \/ p \notin Left(s) /\ snap'[p] = snap[p]
              \/ p \in Left(s) /\ snap'[p] = Aggregate(p, DepositRows, txs)
    PROVE  /\ Left(s)' \subseteq At(Changed(s))'
           /\ (\A p \in Periods \ Left(s) :
                 snap[p] = IF p \in At(Changed(s)) THEN Aggregate(p, DepositRows, txs)
                                                   ELSE committed.snap[p])'
<1>1. Changed(s)' = Changed(s) BY DEF Changed
<1>2. At(Changed(s))' = At(Changed(s)) BY <1>1 DEF At
<1>3. Left(s) \subseteq At(Changed(s)) BY AtWork DEF SnapshotsAtWork
<1>4. DepositRows' = DepositRows BY DEF DepositRows
<1>5. ASSUME NEW p \in Periods \ Left(s)'
      PROVE  snap'[p] = IF p \in At(Changed(s)) THEN Aggregate(p, DepositRows, txs)
                                                ELSE committed.snap[p]
  <2>1. CASE p \notin Left(s) /\ snap'[p] = snap[p] BY <2>1, AtWork DEF SnapshotsAtWork
  <2>2. CASE p \in Left(s) /\ snap'[p] = Aggregate(p, DepositRows, txs) BY <1>3, <2>2
  <2> QED BY <2>1, <2>2
<1>6. Left(s)' \subseteq At(Changed(s))' BY <1>2, <1>3
<1>7. \A p : Aggregate(p, DepositRows, txs)' = Aggregate(p, DepositRows, txs) BY <1>4 DEF Aggregate
<1>8. (\A p \in Periods \ Left(s) :
         snap[p] = IF p \in At(Changed(s)) THEN Aggregate(p, DepositRows, txs)
                                           ELSE committed.snap[p])'
  BY <1>2, <1>4, <1>5, <1>7
<1> QED BY <1>6, <1>8

LEMMA ReadDepositsStays ==
    ASSUME SerialInv, NEW s \in Reqs, ReadDeposits(s), committed' = committed
    PROVE  StaysAtWork(s)
<1>1. Shapes BY DEF SerialInv
<1>2. /\ req[s] # Idle /\ req[s].pc = "read_deposits" /\ UNCHANGED <<deposits, txs, snap>>
      /\ GoesOn(s, "read_transactions") /\ req'[s].deposits = NewestDeposits
  BY <1>1, ReadDepositsFacts DEF About, store
<1>3. /\ req'[s] # Idle /\ req'[s].pc = "read_transactions" /\ req'[s].id = req[s].id
      /\ req'[s].row = req[s].row /\ req'[s].days = req[s].days
  BY <1>2 DEF GoesOn
<1>4. NewestDeposits = DepositRows BY <1>1, <1>2, PagesHoldAll, NewestIsAll DEF WritingPCs
<1>5. DepositRows' = DepositRows BY <1>2 DEF DepositRows
<1>6. RowsAtWork(s, req[s].id)' BY <1>2, <1>3, ReadingRows DEF WritingPCs
<1>7. Left(s)' = Left(s) BY <1>2, <1>3 DEF Left, Saving, At
<1>8. /\ Left(s)' \subseteq At(Changed(s))'
      /\ (\A p \in Periods \ Left(s) :
            snap[p] = IF p \in At(Changed(s)) THEN Aggregate(p, DepositRows, txs)
                                              ELSE committed.snap[p])'
  BY <1>2, <1>3, <1>7, ReadingSnapshots DEF WritingPCs
<1>9. SnapshotsAtWork(s)'
  BY <1>2, <1>3, <1>4, <1>5, <1>8 DEF SnapshotsAtWork, WritingPCs, Saving
<1> QED BY <1>3, <1>6, <1>9 DEF StaysAtWork

LEMMA ReadTransactionsStays ==
    ASSUME SerialInv, NEW s \in Reqs, ReadTransactions(s), committed' = committed
    PROVE  StaysAtWork(s)
<1>1. Shapes BY DEF SerialInv
<1>2. /\ req[s] # Idle /\ req[s].pc = "read_transactions" /\ UNCHANGED <<deposits, txs, snap>>
      /\ GoesOn(s, "find") /\ req'[s].deposits = req[s].deposits
      /\ req'[s].txs \in TransactionPages
      /\ req'[s].periods = PeriodsOf[Head(req[s].days)]
  BY <1>1, ReadTransactionsFacts DEF About, store
<1>3. /\ req'[s] # Idle /\ req'[s].pc = "find" /\ req'[s].id = req[s].id
      /\ req'[s].row = req[s].row /\ req'[s].days = req[s].days
  BY <1>2 DEF GoesOn
<1>4. req'[s].txs = txs'
  <2>1. req'[s].txs = txs BY <1>2, PagesHoldAll, PageIsAll DEF WritingPCs
  <2> QED BY <1>2, <2>1
<1>5. req'[s].deposits = DepositRows'
  <2>1. req[s].deposits = DepositRows BY <1>2, AtWork DEF SnapshotsAtWork
  <2> QED BY <1>2, <2>1 DEF DepositRows
<1>6. RowsAtWork(s, req[s].id)' BY <1>2, <1>3, ReadingRows DEF WritingPCs
<1>7. Left(s)' = Left(s)
  <2>1. Left(s) = At(SetOf(req[s].days)) BY <1>2 DEF Left, Saving
  <2>2. At(SetOf(req[s].days)) = SetOf(PeriodsOf[Head(req[s].days)]) \cup At(SetOf(Tail(req[s].days)))
    BY <1>2, AtWork, AtDays
  <2>3. Left(s)' = SetOf(req'[s].periods) \cup At(SetOf(Tail(req'[s].days)))
    BY <1>3 DEF Left, Saving, At
  <2> QED BY <1>2, <1>3, <2>1, <2>2, <2>3
<1>8. /\ Left(s)' \subseteq At(Changed(s))'
      /\ (\A p \in Periods \ Left(s) :
            snap[p] = IF p \in At(Changed(s)) THEN Aggregate(p, DepositRows, txs)
                                              ELSE committed.snap[p])'
  BY <1>2, <1>3, <1>7, ReadingSnapshots DEF WritingPCs
<1>9. SnapshotsAtWork(s)' BY <1>3, <1>4, <1>5, <1>8 DEF SnapshotsAtWork, WritingPCs
<1> QED BY <1>3, <1>6, <1>9 DEF StaysAtWork

LEMMA FindStays ==
    ASSUME SerialInv, NEW s \in Reqs, Find(s), committed' = committed
    PROVE  StaysAtWork(s)
<1>1. Shapes BY DEF SerialInv
<1>2. /\ req[s] # Idle /\ req[s].pc = "find" /\ UNCHANGED <<deposits, txs, snap>>
      /\ GoesOn(s, "save") /\ req'[s].deposits = req[s].deposits
      /\ req'[s].txs = req[s].txs /\ req'[s].periods = req[s].periods
      /\ req'[s].found \in {"none", "seen"}
      /\ req'[s].found = "none" => snap[Head(req[s].periods)] = NULL
  BY <1>1, FindFacts DEF About, store
<1>3. /\ req'[s] # Idle /\ req'[s].pc = "save" /\ req'[s].id = req[s].id
      /\ req'[s].row = req[s].row /\ req'[s].days = req[s].days
  BY <1>2 DEF GoesOn
<1>4. req'[s].txs = txs' /\ req'[s].deposits = DepositRows'
  <2>1. req[s].txs = txs /\ req[s].deposits = DepositRows
    BY <1>2, AtWork DEF SnapshotsAtWork, Saving
  <2> QED BY <1>2, <2>1 DEF DepositRows
<1>5. RowsAtWork(s, req[s].id)' BY <1>2, <1>3, ReadingRows DEF WritingPCs
<1>6. Left(s)' = Left(s) BY <1>2, <1>3 DEF Left, Saving, At
<1>7. /\ Left(s)' \subseteq At(Changed(s))'
      /\ (\A p \in Periods \ Left(s) :
            snap[p] = IF p \in At(Changed(s)) THEN Aggregate(p, DepositRows, txs)
                                              ELSE committed.snap[p])'
  BY <1>2, <1>3, <1>6, ReadingSnapshots DEF WritingPCs
<1>8. req'[s].found = "none" => snap'[Head(req'[s].periods)] = NULL BY <1>2
<1>9. SnapshotsAtWork(s)' BY <1>2, <1>3, <1>4, <1>7, <1>8 DEF SnapshotsAtWork, WritingPCs
<1> QED BY <1>3, <1>5, <1>9 DEF StaysAtWork

-----------------------------------------------------------------------------
(* Saving: the one request saves what the rows say, and finds what it saw. *)
LEMMA SaveSaves ==
    ASSUME SerialInv, NEW s \in Reqs, Save(s)
    PROVE  /\ req[s] # Idle /\ req[s].pc = "save" /\ UNCHANGED <<deposits, txs>>
           /\ AfterSave(s)
           /\ req[s].periods \in Seq(Periods) /\ req[s].periods # <<>>
           /\ Head(req[s].periods) \in Periods
           /\ snap'[Head(req[s].periods)] = Aggregate(Head(req[s].periods), DepositRows, txs)
           /\ \A p \in Periods \ {Head(req[s].periods)} : snap'[p] = snap[p]
<1>1. Shapes BY DEF SerialInv
<1>2. req[s] # Idle /\ req[s].pc = "save" /\ UNCHANGED <<deposits, txs>> /\ Working(req[s])
  BY <1>1, SaveFacts DEF About
<1>3. req[s].periods \in Seq(Periods) /\ req[s].periods # <<>>
  <2>1. req[s] \in Late BY <1>2, Kinds
  <2> QED BY <1>2, <2>1 DEF Late, Working
<1>4. PICK p \in Periods : p = Head(req[s].periods) BY <1>3, SetOfSplit
<1>5. New(s) = Aggregate(p, DepositRows, txs)
  BY <1>2, <1>4, AtWork DEF New, SnapshotsAtWork, Saving
<1>6. /\ req[s].found \in {"none", "seen"}
      /\ req[s].found = "none" => snap[p] = NULL
  BY <1>2, <1>4, AtWork DEF SnapshotsAtWork
<1>7. ~SaveFails(s) BY <1>4, <1>6 DEF SaveFails
<1>8. /\ AfterSave(s)
      /\ snap' = [snap EXCEPT ![p] = IF New(s) # NULL \/ req[s].found = "seen" THEN New(s) ELSE @]
  BY <1>1, <1>4, <1>7, SaveFacts
<1>9. snap'[p] = New(s) /\ \A q \in Periods \ {p} : snap'[q] = snap[q]
  BY <1>1, <1>6, <1>8 DEF Shapes
<1> QED BY <1>2, <1>3, <1>4, <1>5, <1>8, <1>9

LEMMA SetOfNone == SetOf(<<>>) = {}
<1>1. Len(<<>>) = 0 OBVIOUS
<1> QED BY <1>1 DEF SetOf

LEMMA SaveStays ==
    ASSUME SerialInv, NEW s \in Reqs, Save(s), committed' = committed, req'[s] # Idle
    PROVE  StaysAtWork(s)
<1>1. /\ req[s] # Idle /\ req[s].pc = "save" /\ UNCHANGED <<deposits, txs>>
      /\ AfterSave(s)
      /\ req[s].periods \in Seq(Periods) /\ req[s].periods # <<>>
      /\ Head(req[s].periods) \in Periods
      /\ snap'[Head(req[s].periods)] = Aggregate(Head(req[s].periods), DepositRows, txs)
      /\ \A p \in Periods \ {Head(req[s].periods)} : snap'[p] = snap[p]
  BY SaveSaves
<1>2. PICK p0 \in Periods : p0 = Head(req[s].periods) BY <1>1
<1>3. SetOf(req[s].periods) = {p0} \cup SetOf(Tail(req[s].periods)) BY <1>1, <1>2, SetOfSplit
<1>4. Left(s) = {p0} \cup SetOf(Tail(req[s].periods)) \cup At(SetOf(Tail(req[s].days)))
  BY <1>1, <1>3 DEF Left, Saving
<1>5. DepositRows' = DepositRows BY <1>1 DEF DepositRows
<1>6. req[s].deposits = DepositRows /\ req[s].txs = txs
  BY <1>1, AtWork DEF SnapshotsAtWork, Saving
<1>7. /\ req'[s].pc \in {"find", "read_deposits"} /\ req'[s].id = req[s].id /\ req'[s].row = req[s].row
      /\ Left(s)' = SetOf(Tail(req[s].periods)) \cup At(SetOf(Tail(req[s].days)))
      /\ req'[s].pc = "find" => req'[s].deposits = DepositRows /\ req'[s].txs = txs
  <2>1. CASE Tail(req[s].periods) # <<>>
    <3>1. /\ req'[s].pc = "find" /\ req'[s].id = req[s].id /\ req'[s].row = req[s].row
          /\ req'[s].days = req[s].days /\ req'[s].periods = Tail(req[s].periods)
          /\ req'[s].deposits = req[s].deposits /\ req'[s].txs = req[s].txs
      BY <1>1, <2>1 DEF AfterSave, GoesOn
    <3>2. Left(s)' = SetOf(req'[s].periods) \cup At(SetOf(Tail(req'[s].days)))
      BY <3>1 DEF Left, Saving, At
    <3> QED BY <1>6, <3>1, <3>2
  <2>2. CASE Tail(req[s].periods) = <<>>
    <3>1. /\ req'[s].pc = "read_deposits" /\ req'[s].id = req[s].id /\ req'[s].row = req[s].row
          /\ req'[s].days = Tail(req[s].days)
      BY <1>1, <2>2 DEF AfterSave
    <3>2. Left(s)' = At(SetOf(Tail(req[s].days))) BY <3>1 DEF Left, Saving, At
    <3>3. SetOf(Tail(req[s].periods)) = {} BY <2>2, SetOfNone
    <3> QED BY <3>1, <3>2, <3>3
  <2> QED BY <2>1, <2>2
<1>8. RowsAtWork(s, req[s].id)' BY <1>1, <1>7, ReadingRows DEF WritingPCs
<1>9. Left(s)' \subseteq Left(s) BY <1>4, <1>7
<1>10. ASSUME NEW p \in Periods \ Left(s)'
       PROVE  \/ p \notin Left(s) /\ snap'[p] = snap[p]
              \/ p \in Left(s) /\ snap'[p] = Aggregate(p, DepositRows, txs)
  BY <1>1, <1>2, <1>4, <1>7
<1>11. /\ Left(s)' \subseteq At(Changed(s))'
       /\ (\A p \in Periods \ Left(s) :
             snap[p] = IF p \in At(Changed(s)) THEN Aggregate(p, DepositRows, txs)
                                               ELSE committed.snap[p])'
  BY <1>1, <1>7, <1>9, <1>10, ReadingSnapshots DEF WritingPCs
<1>12. SnapshotsAtWork(s)'
  BY <1>1, <1>5, <1>7, <1>11 DEF SnapshotsAtWork, WritingPCs, Saving
<1> QED BY <1>8, <1>12 DEF StaysAtWork

(* The last save ends the request: every period is done.                   *)
LEMMA SaveEnds ==
    ASSUME SerialInv, NEW s \in Reqs, Save(s), req'[s] = Idle
    PROVE  /\ req[s] # Idle /\ req[s].pc = "save" /\ UNCHANGED <<deposits, txs>>
           /\ \A p \in Periods :
                 snap'[p] = IF p \in At(Changed(s)) THEN Aggregate(p, DepositRows, txs)
                                                    ELSE committed.snap[p]
<1>1. /\ req[s] # Idle /\ req[s].pc = "save" /\ UNCHANGED <<deposits, txs>>
      /\ AfterSave(s)
      /\ req[s].periods \in Seq(Periods) /\ req[s].periods # <<>>
      /\ Head(req[s].periods) \in Periods
      /\ snap'[Head(req[s].periods)] = Aggregate(Head(req[s].periods), DepositRows, txs)
      /\ \A p \in Periods \ {Head(req[s].periods)} : snap'[p] = snap[p]
  BY SaveSaves
<1>2. PICK p0 \in Periods : p0 = Head(req[s].periods) BY <1>1
<1>3. Tail(req[s].periods) = <<>> /\ Tail(req[s].days) = <<>> BY <1>1 DEF AfterSave, GoesOn
<1>4. Left(s) = {p0}
  <2>1. SetOf(req[s].periods) = {p0} \cup SetOf(Tail(req[s].periods)) BY <1>1, <1>2, SetOfSplit
  <2>2. SetOf(Tail(req[s].periods)) = {} /\ SetOf(Tail(req[s].days)) = {} BY <1>3, SetOfNone
  <2>3. Left(s) = SetOf(req[s].periods) \cup At(SetOf(Tail(req[s].days)))
    BY <1>1 DEF Left, Saving
  <2>4. At({}) = {} BY DEF At
  <2> QED BY <2>1, <2>2, <2>3, <2>4
<1>5. SnapshotsAtWork(s) BY <1>1, AtWork
<1>6. ASSUME NEW p \in Periods
      PROVE  snap'[p] = IF p \in At(Changed(s)) THEN Aggregate(p, DepositRows, txs)
                                                ELSE committed.snap[p]
  <2>1. CASE p = p0 BY <1>1, <1>2, <1>4, <1>5, <2>1 DEF SnapshotsAtWork
  <2>2. CASE p # p0 BY <1>1, <1>2, <1>4, <1>5, <2>2 DEF SnapshotsAtWork
  <2> QED BY <2>1, <2>2
<1> QED BY <1>1, <1>6

(* Nothing else ends it.                                                   *)
LEMMA StillAtWork ==
    ASSUME SerialInv, NEW s \in Reqs, Arrive(s) \/ Step(s), ~Save(s)
    PROVE  req'[s] # Idle
<1>1. Shapes BY DEF SerialInv
<1>2. CASE Arrive(s) BY <1>1, <1>2, CreateFacts, BeginUpdateFacts, BeginDeleteFacts DEF Arrive
<1>3. CASE Write(s)
  <2>1. req[s] # Idle /\ req[s].pc = "write" BY <1>1, <1>3, WriteFacts DEF About
  <2>2. deposits[req[s].id] # NULL BY <2>1, AtWork DEF RowsAtWork
  <2> QED BY <1>1, <1>3, <2>2, WriteFacts DEF GoesOn
<1>4. CASE Drop(s)
  <2>1. req[s] # Idle /\ req[s].pc = "drop" BY <1>1, <1>4, DropFacts DEF About
  <2>2. deposits[req[s].id] # NULL BY <2>1, AtWork DEF RowsAtWork
  <2> QED BY <1>1, <1>4, <2>2, DropFacts DEF GoesOn
<1>5. CASE Clear(s) \/ Fill(s) \/ DropTransactions(s)
  BY <1>1, <1>5, ClearFacts, FillFacts, DropTransactionsFacts DEF GoesOn
<1>6. CASE ReadDeposits(s) \/ ReadTransactions(s) \/ Find(s)
  BY <1>1, <1>6, ReadDepositsFacts, ReadTransactionsFacts, FindFacts DEF GoesOn
<1> QED BY <1>2, <1>3, <1>4, <1>5, <1>6 DEF Step

LEMMA SerialStays ==
    ASSUME SerialInv, NEW s \in Reqs, Arrive(s) \/ Step(s), req'[s] # Idle, committed' = committed
    PROVE  StaysAtWork(s)
<1>1. CASE Arrive(s)
  BY <1>1, CreateStays, BeginUpdateStays, BeginDeleteStays DEF Arrive
<1>2. CASE Write(s) \/ Clear(s) \/ Fill(s) \/ DropTransactions(s) \/ Drop(s)
  <2>1. req[s] # Idle
    <3>1. Shapes BY DEF SerialInv
    <3> QED BY <1>2, <3>1, WriteFacts, ClearFacts, FillFacts, DropTransactionsFacts, DropFacts DEF About
  <2>2. PICK i \in Ids : i = req[s].id BY <2>1, AtWork
  <2> QED BY <1>2, <2>2, WriteStays, ClearStays, FillStays, DropTransactionsStays, DropStays
<1>3. CASE ReadDeposits(s) \/ ReadTransactions(s) \/ Find(s)
  BY <1>3, ReadDepositsStays, ReadTransactionsStays, FindStays
<1>4. CASE Save(s) BY <1>4, SaveStays
<1> QED BY <1>1, <1>2, <1>3, <1>4 DEF Step

(* Every step is of a request that does not fail.                          *)
LEMMA SerialActs ==
    ASSUME SerialInv, SNext
    PROVE  \E s \in Reqs :
             \/ (Arrive(s) \/ Step(s)) /\ req'[s] # Idle /\ committed' = committed
             \/ Save(s) /\ req'[s] = Idle /\ committed' = Stored'
<1>1. PICK s \in Reqs : Arrive(s) \/ Step(s) BY SerialAssumption DEF SNext, Next, Fail
<1>2. CASE req'[s] = Idle
  <2>1. InFlight' = {} BY <1>2, Alone
  <2>2. Save(s) BY <1>1, <1>2, StillAtWork
  <2> QED BY <1>2, <2>1, <2>2 DEF SNext
<1>3. CASE req'[s] # Idle
  <2>1. InFlight' # {} BY <1>3, Alone
  <2> QED BY <1>1, <1>3, <2>1 DEF SNext
<1> QED BY <1>2, <1>3

LEMMA SerialStep ==
    ASSUME SerialInv, SNext
    PROVE  SerialInv'
<1>1. PICK s \in Reqs :
        \/ (Arrive(s) \/ Step(s)) /\ req'[s] # Idle /\ committed' = committed
        \/ Save(s) /\ req'[s] = Idle /\ committed' = Stored'
  BY SerialActs
<1>2. Shapes' BY ShapesStep DEF SerialInv, SNext
<1>3. CASE (Arrive(s) \/ Step(s)) /\ req'[s] # Idle /\ committed' = committed
  BY <1>2, <1>3, SerialStays, AtWorkKeeps
<1>4. CASE Save(s) /\ req'[s] = Idle /\ committed' = Stored'
  <2>1. req[s] # Idle /\ req[s].pc = "save" /\ UNCHANGED <<deposits, txs>> BY <1>4, SaveEnds
  <2>2. \A i \in Ids : Mirrors(deposits[i], TransactionsOf(i)) BY <2>1, AllMirrored DEF WritingPCs
  <2>3. \A i \in Ids : Mirrors(deposits'[i], TransactionsOf(i)')
    BY <2>1, <2>2 DEF TransactionsOf
  <2> QED BY <1>2, <1>4, <2>3, CommitKeeps
<1> QED BY <1>1, <1>3, <1>4

LEMMA SerialHolds == SSpec => []SerialInv
<1>1. SInit => SerialInv
  <2> SUFFICES ASSUME SInit PROVE SerialInv OBVIOUS
  <2>1. Shapes BY DEF SInit, Init, Shapes
  <2>2. InFlight = {} BY DEF SInit, Init, InFlight
  <2>3. committed = Stored BY DEF SInit
  <2>4. ASSUME NEW i \in Ids
        PROVE  /\ committed.deposits[i] \in Rows \cup {NULL}
               /\ Mirrors(committed.deposits[i], TransactionsBefore(i))
    <3>1. committed.deposits[i] = NULL /\ TransactionsBefore(i) = {}
      BY <2>3 DEF SInit, Init, Stored, TransactionsBefore
    <3> QED BY <3>1 DEF Mirrors
  <2> QED BY <2>1, <2>2, <2>3, <2>4 DEF SerialInv
<1>2. SerialInv /\ [SNext]_svars => SerialInv'
  <2> SUFFICES ASSUME SerialInv, [SNext]_svars PROVE SerialInv' OBVIOUS
  <2>1. CASE SNext BY <2>1, SerialStep
  <2>2. CASE UNCHANGED svars
    <3>1. UNCHANGED <<deposits, created, txs, snap, req, committed>> BY <2>2 DEF svars
    <3>2. Shapes' BY <3>1 DEF SerialInv, Shapes
    <3>3. (\A i \in Ids : /\ committed.deposits[i] \in Rows \cup {NULL}
                          /\ Mirrors(committed.deposits[i], TransactionsBefore(i)))'
      BY <3>1 DEF SerialInv, TransactionsBefore
    <3>4. (InFlight = {} => committed = Stored)' BY <3>1 DEF SerialInv, InFlight, Stored
    <3>5. ASSUME NEW r \in InFlight' PROVE (RowsAtWork(r, req[r].id) /\ SnapshotsAtWork(r))'
      <4>1. r \in InFlight BY <3>1 DEF InFlight
      <4>2. RowsAtWork(r, req[r].id) /\ SnapshotsAtWork(r) BY <4>1 DEF SerialInv
      <4>3. RowsAtWork(r, req[r].id)'
        BY <3>1, <4>2 DEF RowsAtWork, TransactionsOf, TransactionsBefore
      <4>4. SnapshotsAtWork(r)'
        BY <3>1, <4>2 DEF SnapshotsAtWork, Left, Changed, Saving, DepositRows, At, Aggregate
      <4> QED BY <4>3, <4>4
    <3>6. (\A r \in InFlight : RowsAtWork(r, req[r].id) /\ SnapshotsAtWork(r))' BY <3>5
    <3> QED BY <3>2, <3>3, <3>4, <3>6 DEF SerialInv
  <2> QED BY <2>1, <2>2
<1> QED BY <1>1, <1>2, PTL DEF SSpec

-----------------------------------------------------------------------------
(* The rows and snapshots FinanceLedger has for those here.                *)
NoRows == [i \in Ids |-> NULL]
NoSets == [i \in Ids |-> {}]

TransactionsFor(row) ==
    IF row = NULL THEN {} ELSE Ledger!CashDepositTransactions(LedgerDeposit(row))

LEMMA DepositIs ==
    ASSUME NEW row \in Rows
    PROVE  /\ row # NULL /\ LedgerDeposit(row) # NULL
           /\ LedgerDeposit(row).kind = "deposit" /\ LedgerDeposit(row).type = "bank_deposit"
           /\ LedgerDeposit(row).date = row.date /\ LedgerDeposit(row).amount = row.amount
           /\ row.date \in Dates /\ row.amount \in Amounts
<1>1. row # NULL /\ row.date \in Dates /\ row.amount \in Amounts BY NullAssumption DEF Rows
<1>2. PICK d : d = [kind |-> "deposit", type |-> "bank_deposit", date |-> row.date, amount |-> row.amount]
  OBVIOUS
<1>3. d \in LedgerDeposits BY <1>1, <1>2 DEF LedgerDeposits
<1>4. d # NULL BY <1>3, LedgerAssumption
<1>5. LedgerDeposit(row) = d BY <1>1, <1>2 DEF LedgerDeposit
<1> QED BY <1>1, <1>2, <1>4, <1>5

LEMMA TransactionsAre ==
    ASSUME NEW row \in Rows \cup {NULL}, NEW rows, Mirrors(row, rows)
    PROVE  {LedgerTransaction(t) : t \in rows} = TransactionsFor(row)
<1>1. CASE row = NULL BY <1>1 DEF Mirrors, TransactionsFor
<1>2. CASE row # NULL
  <2>1. row \in Rows BY <1>2
  <2>2. PICK t \in rows : rows = {t} /\ t.date = row.date /\ t.amount = row.amount
    BY <1>2 DEF Mirrors
  <2>3. {LedgerTransaction(u) : u \in rows} = {LedgerTransaction(t)} BY <2>2
  <2>4. Ledger!CashDepositTransactions(LedgerDeposit(row)) = {LedgerTransaction(t)}
    BY <2>1, <2>2, DepositIs DEF Ledger!CashDepositTransactions, LedgerTransaction
  <2> QED BY <1>2, <2>3, <2>4 DEF TransactionsFor
<1> QED BY <1>1, <1>2

(* The rows of deposits `deps', what a snapshot counts of them, and what   *)
(* the ledger has for them and for transactions `ts'.                      *)
RowsOf(deps) == {[id |-> i, row |-> deps[i]] : i \in {j \in Ids : deps[j] # NULL}}
CountedIn(deps, p) == {j \in Ids : deps[j] # NULL /\ deps[j].date \in DaysOf[p]}
SourceRows(deps) == [i \in Ids |-> LedgerDeposit(deps[i])]
TransactionRows(ts) == [i \in Ids |-> {LedgerTransaction(t) : t \in {u \in ts : u.id = i}}]
RowsIn(deps, p) == {[id |-> i, row |-> deps[i]] : i \in CountedIn(deps, p)}
DepositsIn(deps, p) == [i \in CountedIn(deps, p) |-> LedgerDeposit(deps[i])]
MoveRows(ts) == {<<t.id, LedgerTransaction(t)>> : t \in ts}
MovesIn(ts, p) == {t \in ts : t.date \in DaysOf[p]}
MovedRows(ts, D) == {row \in UNION {{i} \X TransactionRows(ts)[i] : i \in Ids} : row[2].date \in D}

(* The rows of a ledger snapshot, without the CHOOSE of the mapping.       *)
SnapshotWith(deps, p, moves) ==
    [rows |-> DepositsIn(deps, p), purchases |-> [i \in {} |-> NULL], deposits |-> {}, moves |-> MoveRows(moves)]

LEMMA SnapshotRows ==
    ASSUME NEW deps, NEW p, NEW moves, NEW s, s # NULL,
           s = [deposits |-> RowsIn(deps, p), moves |-> moves]
    PROVE  LedgerSnapshot(s) = SnapshotWith(deps, p, moves)
<1> DEFINE ids == CountedIn(deps, p)
           rowOf == [i \in {d.id : d \in s.deposits} |-> (CHOOSE d \in s.deposits : d.id = i).row]
<1>1. s.deposits = {[id |-> i, row |-> deps[i]] : i \in ids} /\ s.moves = moves BY DEF RowsIn
<1>2. {d.id : d \in s.deposits} = ids
  <2>1. \A d \in s.deposits : d.id \in ids BY <1>1
  <2>2. ASSUME NEW i \in ids PROVE \E d \in s.deposits : d.id = i
    <3>1. PICK d : d = [id |-> i, row |-> deps[i]] OBVIOUS
    <3> QED BY <1>1, <3>1
  <2> QED BY <2>1, <2>2
<1>3. ASSUME NEW i \in ids PROVE rowOf[i] = deps[i]
  <2>1. PICK d \in s.deposits : d = [id |-> i, row |-> deps[i]] BY <1>1
  <2>2. \A e \in s.deposits : e.id = i => e.row = deps[i] BY <1>1
  <2>3. PICK e : e = (CHOOSE x \in s.deposits : x.id = i) OBVIOUS
  <2>4. e \in s.deposits /\ e.id = i BY <2>1, <2>3
  <2> QED BY <1>2, <2>2, <2>3, <2>4
<1>4. DOMAIN rowOf = ids BY <1>2
<1>5. [i \in DOMAIN rowOf |-> LedgerDeposit(rowOf[i])] = DepositsIn(deps, p)
  <2> HIDE DEF rowOf
  <2> QED BY <1>3, <1>4 DEF DepositsIn
<1>6. LedgerSnapshot(s) =
        [rows |-> [i \in DOMAIN rowOf |-> LedgerDeposit(rowOf[i])],
         purchases |-> [i \in {} |-> NULL], deposits |-> {},
         moves |-> MoveRows(s.moves)]
  <2> HIDE <1>1, <1>2, <1>3, <1>4, <1>5
  <2> QED BY Zenon DEF LedgerSnapshot, MoveRows
<1>7. s.moves = moves BY <1>1
<1> HIDE DEF rowOf
<1> QED BY <1>5, <1>6, <1>7, Zenon DEF SnapshotWith

LEMMA SourcesCounted ==
    ASSUME NEW deps \in [Ids -> Rows \cup {NULL}], NEW p \in Periods
    PROVE  {i \in Ids : Ledger!SourceIn(SourceRows(deps)[i], DaysOf[p])} = CountedIn(deps, p)
<1>1. ASSUME NEW i \in Ids
      PROVE  Ledger!SourceIn(SourceRows(deps)[i], DaysOf[p]) <=> deps[i] # NULL /\ deps[i].date \in DaysOf[p]
  <2>1. SourceRows(deps)[i] = LedgerDeposit(deps[i]) BY DEF SourceRows
  <2>2. CASE deps[i] = NULL BY <2>1, <2>2 DEF LedgerDeposit, Ledger!SourceIn
  <2>3. CASE deps[i] # NULL
    <3>1. deps[i] \in Rows BY <2>3
    <3> QED BY <2>1, <2>3, <3>1, DepositIs DEF Ledger!SourceIn, Ledger!IsItem, Ledger!IsDocument
  <2> QED BY <2>2, <2>3
<1> QED BY <1>1 DEF CountedIn

LEMMA AggregateRows ==
    ASSUME NEW deps \in [Ids -> Rows \cup {NULL}], NEW ts \in SUBSET Moves, NEW p \in Periods
    PROVE  Aggregate(p, RowsOf(deps), ts) =
             IF CountedIn(deps, p) = {} THEN NULL
             ELSE [deposits |-> RowsIn(deps, p), moves |-> MovesIn(ts, p)]
<1> DEFINE counted == {d \in RowsOf(deps) : d.row.date \in DaysOf[p]}
           all == RowsIn(deps, p)
           moved == {[id |-> t.id, date |-> t.date, amount |-> t.amount, by |-> t.by] :
                       t \in {u \in ts : u.date \in DaysOf[p]}}
<1>1. counted = all
  <2>1. ASSUME NEW d \in counted PROVE d \in all BY DEF RowsOf, CountedIn, RowsIn
  <2>2. ASSUME NEW d \in all PROVE d \in counted BY DEF RowsOf, CountedIn, RowsIn
  <2> QED BY <2>1, <2>2
<1>2. all = {} <=> CountedIn(deps, p) = {} BY DEF RowsIn
<1>3. moved = MovesIn(ts, p)
  <2>1. \A t \in ts : t = [id |-> t.id, date |-> t.date, amount |-> t.amount, by |-> t.by]
    BY DEF Moves
  <2> QED BY <2>1 DEF MovesIn
<1>4. Aggregate(p, RowsOf(deps), ts) =
        IF counted = {} THEN NULL ELSE [deposits |-> counted, moves |-> moved]
  <2> HIDE <1>1, <1>2, <1>3
  <2> QED BY Zenon DEF Aggregate
<1> HIDE DEF counted, moved
<1>5. CASE CountedIn(deps, p) = {} BY <1>1, <1>2, <1>4, <1>5
<1>6. CASE CountedIn(deps, p) # {} BY <1>1, <1>2, <1>3, <1>4, <1>6, Zenon DEF all
<1> QED BY <1>5, <1>6

LEMMA MovesCounted ==
    ASSUME NEW ts \in SUBSET Moves, NEW p \in Periods
    PROVE  MovedRows(ts, DaysOf[p]) = MoveRows(MovesIn(ts, p))
<1> DEFINE x == TransactionRows(ts)
<1>1. \A t \in ts : t.id \in Ids BY DEF Moves
<1>2. \A t \in ts : LedgerTransaction(t).date = t.date BY DEF LedgerTransaction
<1>3. \A i \in Ids : x[i] = {LedgerTransaction(t) : t \in {u \in ts : u.id = i}} BY DEF TransactionRows
<1> HIDE DEF x
<1>4. ASSUME NEW row \in UNION {{i} \X x[i] : i \in Ids}, row[2].date \in DaysOf[p]
      PROVE  \E t \in ts : t.date \in DaysOf[p] /\ row = <<t.id, LedgerTransaction(t)>>
  <2>1. PICK i \in Ids : row \in {i} \X x[i] BY <1>4
  <2>2. PICK t \in ts : t.id = i /\ row[2] = LedgerTransaction(t) BY <1>3, <2>1
  <2>3. row = <<t.id, LedgerTransaction(t)>> BY <2>1, <2>2
  <2> QED BY <1>2, <1>4, <2>2, <2>3
<1>5. ASSUME NEW t \in ts, t.date \in DaysOf[p]
      PROVE  /\ <<t.id, LedgerTransaction(t)>> \in UNION {{i} \X x[i] : i \in Ids}
             /\ <<t.id, LedgerTransaction(t)>>[2].date \in DaysOf[p]
  <2>1. t.id \in Ids /\ LedgerTransaction(t) \in x[t.id] BY <1>1, <1>3
  <2>2. <<t.id, LedgerTransaction(t)>> \in {t.id} \X x[t.id] BY <2>1
  <2> QED BY <1>2, <1>5, <2>1, <2>2
<1> QED BY <1>4, <1>5 DEF MovedRows, MovesIn, MoveRows, x

LEMMA SnapshotIs ==
    ASSUME NEW deps \in [Ids -> Rows \cup {NULL}], NEW ts \in SUBSET Moves, NEW p \in Periods
    PROVE  LedgerSnapshot(Aggregate(p, RowsOf(deps), ts))
             = Ledger!SnapshotOf(p, SourceRows(deps), NoRows, NoSets, TransactionRows(ts))
<1> DEFINE D == DaysOf[p]
           ids == {i \in Ids : Ledger!SourceIn(SourceRows(deps)[i], D)}
           bought == {i \in Ids : Ledger!PurchaseIn(NoRows[i], D)}
           linked == {row \in UNION {{i} \X NoSets[i] : i \in Ids} : row[2].date \in D}
           moves == MovedRows(ts, D)
<1>1. ids = CountedIn(deps, p) BY SourcesCounted
<1>2. bought = {} BY DEF NoRows, Ledger!PurchaseIn
<1>3. linked = {}
  <2>1. ASSUME NEW i \in Ids PROVE {i} \X NoSets[i] = {} BY DEF NoSets
  <2> QED BY <2>1
<1>4. moves = MoveRows(MovesIn(ts, p)) BY MovesCounted
<1>5. Ledger!SnapshotOf(p, SourceRows(deps), NoRows, NoSets, TransactionRows(ts)) =
        IF ids = {} /\ bought = {} /\ linked = {} THEN NULL
        ELSE [rows |-> [i \in ids |-> SourceRows(deps)[i]], purchases |-> [i \in bought |-> NoRows[i]],
              deposits |-> linked, moves |-> moves]
  <2> HIDE <1>1, <1>2, <1>3, <1>4
  <2> QED BY Zenon DEF Ledger!SnapshotOf, MovedRows
<1>6. [i \in ids |-> SourceRows(deps)[i]] = DepositsIn(deps, p)
  <2>1. \A i \in CountedIn(deps, p) : SourceRows(deps)[i] = LedgerDeposit(deps[i])
    BY DEF SourceRows, CountedIn
  <2> HIDE DEF ids
  <2> QED BY <1>1, <2>1 DEF DepositsIn
<1>7. [i \in bought |-> NoRows[i]] = [i \in {} |-> NULL]
  <2> HIDE DEF bought
  <2> QED BY <1>2
<1> HIDE DEF ids, bought, linked, moves
<1>8. CASE CountedIn(deps, p) = {}
  <2>1. Aggregate(p, RowsOf(deps), ts) = NULL BY <1>8, AggregateRows
  <2> QED BY <1>1, <1>2, <1>3, <1>5, <1>8, <2>1 DEF LedgerSnapshot
<1>9. CASE CountedIn(deps, p) # {}
  <2>1. PICK rec : rec = Aggregate(p, RowsOf(deps), ts) OBVIOUS
  <2>2. rec = [deposits |-> RowsIn(deps, p), moves |-> MovesIn(ts, p)]
    BY <1>9, <2>1, AggregateRows
  <2>3. rec # NULL
    <3>1. RowsIn(deps, p) \subseteq [id: Ids, row: Rows] BY DEF RowsIn, CountedIn
    <3>2. MovesIn(ts, p) \subseteq [id: Ids, date: Dates, amount: Amounts, by: Reqs]
      BY DEF MovesIn, Moves
    <3>3. rec \in Snapshots BY <2>2, <3>1, <3>2 DEF Snapshots
    <3> QED BY <3>3, LedgerAssumption
  <2>4. LedgerSnapshot(rec) =
          [rows |-> DepositsIn(deps, p),
           purchases |-> [i \in {} |-> NULL], deposits |-> {},
           moves |-> MoveRows(MovesIn(ts, p))]
    <3>1. LedgerSnapshot(rec) = SnapshotWith(deps, p, MovesIn(ts, p))
      BY <2>2, <2>3, SnapshotRows
    <3> QED BY <3>1, Zenon DEF SnapshotWith
  <2>5. Ledger!SnapshotOf(p, SourceRows(deps), NoRows, NoSets, TransactionRows(ts)) =
          [rows |-> [i \in ids |-> SourceRows(deps)[i]], purchases |-> [i \in bought |-> NoRows[i]],
           deposits |-> linked, moves |-> moves]
    BY <1>1, <1>5, <1>9
  <2> QED BY <1>3, <1>4, <1>6, <1>7, <2>1, <2>4, <2>5, Zenon
<1> QED BY <1>8, <1>9

-----------------------------------------------------------------------------
(* The step that ends request s, as a step of the ledger.                  *)
Completes(s) == Save(s) /\ req'[s] = Idle /\ committed' = Stored'

LEMMA LedgerNow ==
    /\ LedgerSources = SourceRows(committed.deposits)
    /\ LedgerTransactions = TransactionRows(committed.txs)
BY DEF LedgerSources, LedgerTransactions, SourceRows, TransactionRows

LEMMA LedgerThen ==
    ASSUME SerialInv, NEW s \in Reqs, Completes(s)
    PROVE  /\ LedgerSources' = SourceRows(deposits)
           /\ LedgerTransactions' = TransactionRows(txs)
           /\ \A p \in Periods : LedgerSnapshots'[p] = LedgerSnapshot(snap'[p])
<1>1. UNCHANGED <<deposits, txs>> BY SaveEnds DEF Completes
<1>2. committed'.deposits = deposits /\ committed'.txs = txs /\ committed'.snap = snap'
  BY <1>1 DEF Completes, Stored
<1>3. LedgerSources' = SourceRows(deposits) BY <1>2 DEF LedgerSources, SourceRows
<1>4. LedgerTransactions' = TransactionRows(txs) BY <1>2 DEF LedgerTransactions, TransactionRows
<1>5. \A p \in Periods : LedgerSnapshots'[p] = LedgerSnapshot(snap'[p])
  BY <1>2 DEF LedgerSnapshots
<1> QED BY <1>3, <1>4, <1>5

(* It saves the snapshots the atomic handler saves.                        *)
LEMMA SyncIs ==
    ASSUME SerialInv, NEW s \in Reqs, Completes(s), NEW days, days = Changed(s)
    PROVE  Ledger!SyncRecords(days)
<1>1. \A p \in Periods : snap'[p] = IF p \in At(days) THEN Aggregate(p, DepositRows, txs)
                                                      ELSE committed.snap[p]
  BY SaveEnds DEF Completes
<1>2. days \subseteq Dates BY SaveEnds, AtWork DEF Completes
<1>3. Shapes BY DEF SerialInv
<1>4. DepositRows = RowsOf(deposits) BY DEF DepositRows, RowsOf
<1>5. ASSUME NEW p \in Periods
      PROVE  LedgerSnapshots'[p] =
               IF DaysOf[p] \cap days # {}
               THEN Ledger!SnapshotOf(p, LedgerSources', NoRows, NoSets, LedgerTransactions')
               ELSE LedgerSnapshots[p]
  <2>1. p \in At(days) <=> DaysOf[p] \cap days # {} BY <1>2, AtIs
  <2>2. LedgerSnapshots'[p] = LedgerSnapshot(snap'[p]) BY LedgerThen
  <2>3. CASE p \in At(days)
    <3>1. snap'[p] = Aggregate(p, RowsOf(deposits), txs) BY <1>1, <1>4, <2>3
    <3>2. LedgerSnapshot(Aggregate(p, RowsOf(deposits), txs))
            = Ledger!SnapshotOf(p, SourceRows(deposits), NoRows, NoSets, TransactionRows(txs))
      BY <1>3, SnapshotIs DEF Shapes
    <3>3. LedgerSources' = SourceRows(deposits) /\ LedgerTransactions' = TransactionRows(txs)
      BY LedgerThen
    <3> QED BY <2>1, <2>2, <2>3, <3>1, <3>2, <3>3
  <2>4. CASE p \notin At(days)
    <3>1. snap'[p] = committed.snap[p] BY <1>1, <2>4
    <3>2. LedgerSnapshots[p] = LedgerSnapshot(committed.snap[p]) BY DEF LedgerSnapshots
    <3> QED BY <2>1, <2>2, <2>4, <3>1, <3>2
  <2> QED BY <2>3, <2>4
<1>6. LedgerSnapshots' = [p \in Periods |-> LedgerSnapshots'[p]]
  <2>1. LedgerSnapshots' = [p \in Periods |-> LedgerSnapshot(committed'.snap[p])]
    BY DEF LedgerSnapshots
  <2> QED BY <2>1
<1> QED BY <1>5, <1>6 DEF Ledger!SyncRecords, NoRows, NoSets

(* It leaves the rows the atomic handler leaves.                           *)
LEMMA RowsStored ==
    ASSUME SerialInv, NEW s \in Reqs, Completes(s), NEW i \in Ids, i = req[s].id
    PROVE  Ledger!Store(i, LedgerDeposit(req[s].row), NULL, {}, TransactionsFor(req[s].row))
<1> DEFINE row == req[s].row
<1>1. req[s] # Idle /\ req[s].pc = "save" BY SaveEnds DEF Completes
<1>2. /\ deposits[i] = row /\ Mirrors(row, TransactionsOf(i))
      /\ \A j \in Ids \ {i} : /\ deposits[j] = committed.deposits[j]
                              /\ TransactionsOf(j) = TransactionsBefore(j)
      /\ row \in Rows \cup {NULL}
  BY <1>1, AtWork DEF RowsAtWork, WritingPCs
<1>3. ASSUME NEW j \in Ids
      PROVE  /\ SourceRows(deposits)[j] = LedgerDeposit(deposits[j])
             /\ SourceRows(committed.deposits)[j] = LedgerDeposit(committed.deposits[j])
             /\ TransactionRows(txs)[j] = {LedgerTransaction(t) : t \in TransactionsOf(j)}
             /\ TransactionRows(committed.txs)[j] = {LedgerTransaction(t) : t \in TransactionsBefore(j)}
  BY DEF SourceRows, TransactionRows, TransactionsOf, TransactionsBefore
<1>4. {LedgerTransaction(t) : t \in TransactionsOf(i)} = TransactionsFor(row)
  BY <1>2, TransactionsAre
<1> HIDE DEF row
<1>5. LedgerSources' = [LedgerSources EXCEPT ![i] = LedgerDeposit(row)]
  <2>1. SourceRows(deposits) = [j \in Ids |-> SourceRows(deposits)[j]]
        /\ SourceRows(committed.deposits) = [j \in Ids |-> SourceRows(committed.deposits)[j]]
    BY DEF SourceRows
  <2>2. \A j \in Ids : SourceRows(deposits)[j] =
                         IF j = i THEN LedgerDeposit(row) ELSE SourceRows(committed.deposits)[j]
    BY <1>2, <1>3
  <2>3. SourceRows(deposits) = [SourceRows(committed.deposits) EXCEPT ![i] = LedgerDeposit(row)]
    BY <2>1, <2>2
  <2> QED BY <2>3, LedgerNow, LedgerThen
<1>6. LedgerTransactions' = [LedgerTransactions EXCEPT ![i] = TransactionsFor(row)]
  <2>1. TransactionRows(txs) = [j \in Ids |-> TransactionRows(txs)[j]]
        /\ TransactionRows(committed.txs) = [j \in Ids |-> TransactionRows(committed.txs)[j]]
    BY DEF TransactionRows
  <2>2. \A j \in Ids : TransactionRows(txs)[j] =
                         IF j = i THEN TransactionsFor(row) ELSE TransactionRows(committed.txs)[j]
    BY <1>2, <1>3, <1>4
  <2>3. TransactionRows(txs) = [TransactionRows(committed.txs) EXCEPT ![i] = TransactionsFor(row)]
    BY <2>1, <2>2
  <2> QED BY <2>3, LedgerNow, LedgerThen
<1> QED BY <1>5, <1>6 DEF Ledger!Store, row

(* The three requests.                                                     *)
LEMMA Creates ==
    ASSUME SerialInv, NEW s \in Reqs, Completes(s), NEW i \in Ids, i = req[s].id,
           NEW row \in Rows, row = req[s].row, committed.deposits[i] = NULL
    PROVE  Ledger!CreateDeposit(i, "deposit", "bank_deposit", row.date, row.amount)
<1>1. LedgerSources[i] = NULL BY DEF LedgerSources, LedgerDeposit
<1>2. LedgerTransactions[i] = {}
  <2>1. TransactionsBefore(i) = {} BY DEF SerialInv, Mirrors
  <2> QED BY <2>1 DEF LedgerTransactions, TransactionsBefore
<1>3. row # NULL /\ row.date \in Dates /\ row.date # NULL BY DepositIs, LedgerAssumption
<1>4. PICK dep : dep = [kind |-> "deposit", type |-> "bank_deposit", date |-> row.date, amount |-> row.amount]
  OBVIOUS
<1>5. dep = LedgerDeposit(row) BY <1>3, <1>4 DEF LedgerDeposit
<1>6. Ledger!Store(i, dep, NULL, {}, Ledger!CashDepositTransactions(dep))
  BY <1>3, <1>5, RowsStored DEF TransactionsFor
<1>7. Ledger!SyncRecords({dep.date})
  <2>1. {dep.date} = Changed(s) BY <1>3, <1>4 DEF Changed, DateOf
  <2> QED BY <2>1, SyncIs
<1>8. dep.date = row.date BY <1>4
<1> QED BY <1>1, <1>2, <1>3, <1>4, <1>6, <1>7 DEF Ledger!CreateDeposit, Ledger!Unused, Ledger!OrToday

LEMMA Updates ==
    ASSUME SerialInv, NEW s \in Reqs, Completes(s), NEW i \in Ids, i = req[s].id,
           NEW row \in Rows, row = req[s].row,
           NEW old \in Rows, old = committed.deposits[i]
    PROVE  Ledger!UpdateCashDeposit(i, "bank_deposit", row.date, row.amount)
<1>1. PICK src : src = LedgerSources[i] OBVIOUS
<1>2. src = LedgerDeposit(old) BY <1>1 DEF LedgerSources
<1>3. src = [kind |-> "deposit", type |-> "bank_deposit", date |-> old.date, amount |-> old.amount]
  BY <1>2, DepositIs DEF LedgerDeposit
<1>4. Ledger!IsDeposit(src) BY <1>2, DepositIs DEF Ledger!IsDeposit
<1>5. PICK dep : dep = [src EXCEPT !.type = "bank_deposit", !.date = row.date, !.amount = row.amount]
  OBVIOUS
<1>6. dep = LedgerDeposit(row)
  <2>1. dep = [kind |-> "deposit", type |-> "bank_deposit", date |-> row.date, amount |-> row.amount]
    BY <1>3, <1>5
  <2>2. row # NULL BY DepositIs
  <2> QED BY <2>1, <2>2 DEF LedgerDeposit
<1>7. Ledger!Store(i, dep, NULL, {}, Ledger!CashDepositTransactions(dep))
  BY <1>6, DepositIs, RowsStored DEF TransactionsFor
<1>8. Ledger!SyncRecords({src.date, row.date})
  <2>1. {src.date, row.date} = Changed(s) BY <1>3, DepositIs DEF Changed, DateOf
  <2> QED BY <2>1, SyncIs
<1> QED BY <1>1, <1>4, <1>5, <1>7, <1>8 DEF Ledger!UpdateCashDeposit

LEMMA Deletes ==
    ASSUME SerialInv, NEW s \in Reqs, Completes(s), NEW i \in Ids, i = req[s].id,
           req[s].row = NULL, NEW old \in Rows, old = committed.deposits[i]
    PROVE  Ledger!DeleteCashDeposit(i)
<1>1. PICK src : src = LedgerSources[i] OBVIOUS
<1>2. src = LedgerDeposit(old) BY <1>1 DEF LedgerSources
<1>3. Ledger!IsDeposit(src) /\ src.date = old.date BY <1>2, DepositIs DEF Ledger!IsDeposit
<1>4. Ledger!Store(i, NULL, NULL, {}, {}) BY RowsStored DEF TransactionsFor, LedgerDeposit
<1>5. Ledger!SyncRecords({src.date})
  <2>1. {src.date} = Changed(s) BY <1>3, DepositIs DEF Changed, DateOf
  <2> QED BY <2>1, SyncIs
<1> QED BY <1>1, <1>3, <1>4, <1>5 DEF Ledger!DeleteCashDeposit

LEMMA EndsAsLedger ==
    ASSUME SerialInv, NEW s \in Reqs, Completes(s)
    PROVE  Ledger!Next
<1>1. req[s] # Idle /\ req[s].pc = "save" BY SaveEnds DEF Completes
<1>2. PICK i \in Ids : i = req[s].id BY <1>1, AtWork
<1>3. PICK row \in Rows \cup {NULL} : row = req[s].row BY <1>1, AtWork
<1>4. PICK old \in Rows \cup {NULL} : old = committed.deposits[i] BY <1>1, <1>2, AtWork
<1>5. row = NULL => old # NULL BY <1>1, <1>2, <1>3, <1>4, AtWork DEF RowsAtWork
<1>6. Ledger!DepositStep(i)
  <2>1. CASE row = NULL
    <3>1. Ledger!DeleteCashDeposit(i) BY <1>2, <1>3, <1>4, <1>5, <2>1, Deletes
    <3> QED BY <3>1 DEF Ledger!DepositStep
  <2>2. CASE row # NULL /\ old = NULL
    <3>1. row \in Rows /\ row.date \in Dates /\ row.amount \in Amounts BY <2>2, DepositIs
    <3>2. Ledger!CreateDeposit(i, "deposit", "bank_deposit", row.date, row.amount)
      BY <1>2, <1>3, <1>4, <2>2, <3>1, Creates
    <3> QED BY <3>1, <3>2 DEF Ledger!DepositStep, Ledger!OptDates
  <2>3. CASE row # NULL /\ old # NULL
    <3>1. row \in Rows /\ row.date \in Dates /\ row.amount \in Amounts BY <2>3, DepositIs
    <3>2. Ledger!UpdateCashDeposit(i, "bank_deposit", row.date, row.amount)
      BY <1>2, <1>3, <1>4, <2>3, <3>1, Updates
    <3> QED BY <3>1, <3>2 DEF Ledger!DepositStep
  <2> QED BY <2>1, <2>2, <2>3
<1> QED BY <1>2, <1>6 DEF Ledger!Next

LEMMA LedgerStarts ==
    ASSUME SInit
    PROVE  Ledger!Init
<1>1. committed.deposits = [i \in Ids |-> NULL] /\ committed.txs = {}
      /\ committed.snap = [p \in Periods |-> NULL]
  BY DEF SInit, Init, Stored
<1>2. LedgerSources = [i \in Ids |-> NULL] BY <1>1 DEF LedgerSources, LedgerDeposit
<1>3. LedgerTransactions = [i \in Ids |-> {}] BY <1>1 DEF LedgerTransactions
<1>4. LedgerSnapshots = [p \in Periods |-> NULL] BY <1>1 DEF LedgerSnapshots, LedgerSnapshot
<1>5. (CHOOSE d \in Dates : TRUE) \in Dates BY LedgerAssumption
<1> QED BY <1>2, <1>3, <1>4, <1>5 DEF Ledger!Init, Ledger!NoItems

LEMMA LedgerWaits ==
    ASSUME committed' = committed
    PROVE  UNCHANGED Ledger!vars
BY DEF Ledger!vars, LedgerSources, LedgerTransactions, LedgerSnapshots

(* Requests on deposits that come one at a time and do not fail do what    *)
(* the atomic handlers of FinanceLedger do: whatever the deposits, dates,  *)
(* periods and requests, the store after each of them is that of the       *)
(* ledger, snapshots included.                                             *)
THEOREM AsIfAtomic == SSpec => ImplementsLedger
<1>1. SInit => Ledger!Init BY LedgerStarts
<1>2. SerialInv /\ [SNext]_svars => [Ledger!Next]_(Ledger!vars)
  <2> SUFFICES ASSUME SerialInv, [SNext]_svars PROVE [Ledger!Next]_(Ledger!vars) OBVIOUS
  <2>1. CASE SNext
    <3>1. committed' = committed \/ \E s \in Reqs : Completes(s) BY <2>1, SerialActs DEF Completes
    <3> QED BY <3>1, LedgerWaits, EndsAsLedger
  <2>2. CASE UNCHANGED svars BY <2>2, LedgerWaits DEF svars
  <2> QED BY <2>1, <2>2
<1> QED BY <1>1, <1>2, SerialHolds, PTL DEF SSpec, ImplementsLedger

=============================================================================
