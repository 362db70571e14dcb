-------------------------- MODULE SubscriptionProofs --------------------------
(***************************************************************************)
(* The shapes of Subscriptions hold for any number of requests at once.    *)
(* A row is created or updated by a request whose look at the history is   *)
(* still true, or by one that SubscriptionHistory names: so there are two  *)
(* current rows, and closed rows change, only where it says so.  User and  *)
(* history show Stripe's latest subscription whenever all its events are   *)
(* answered, unless somebody else, or an event applied late or again, has  *)
(* written since the last synchronisation with the newest news.            *)
(***************************************************************************)
EXTENDS SubscriptionHistory, SequenceTheorems,
        WellFoundedInduction, TLAPS

(* Closing the current rows keeps their shape and number and leaves none   *)
(* current.                                                                *)
LEMMA Closed ==
    ASSUME history \in Seq(Rows), CloseCurrentForUser
    PROVE  /\ history' \in Seq(Rows)
           /\ DOMAIN history' = DOMAIN history
           /\ \A n \in DOMAIN history : ~history'[n].current
           /\ \A n \in DOMAIN history : ~history[n].current => history'[n] = history[n]
<1>1. DOMAIN history = 1 .. Len(history) /\ Len(history) \in Nat
  BY LenProperties
<1>2. history' = [n \in 1 .. Len(history) |-> IF history[n].current THEN Close(history[n]) ELSE history[n]]
  BY <1>1 DEF CloseCurrentForUser
<1>3. \A n \in DOMAIN history : history[n] \in Rows
  BY <1>1, ElementOfSeq
<1>4. \A row \in Rows : Close(row) \in Rows /\ ~Close(row).current
  BY DEF Rows, Close, Statuses
<1>5. \A n \in 1 .. Len(history) : history'[n] \in Rows
  BY <1>1, <1>2, <1>3, <1>4
<1>6. history' \in Seq(Rows)
  BY <1>1, <1>2, <1>5, IsASeq
<1> QED
  BY <1>1, <1>2, <1>3, <1>4, <1>6

(* A row appended to the history comes after all others.                   *)
LEMMA Appended ==
    ASSUME history \in Seq(Rows), NEW row \in Rows, history' = Append(history, row)
    PROVE  /\ history' \in Seq(Rows)
           /\ DOMAIN history' = DOMAIN history \cup {Len(history) + 1}
           /\ \A n \in DOMAIN history : history'[n] = history[n]
           /\ history'[Len(history) + 1] = row
  BY AppendProperties, LenProperties

(* Updating a row keeps the shape and the other rows.                      *)
LEMMA Updated ==
    ASSUME history \in Seq(Rows), NEW n \in DOMAIN history, NEW row \in Rows,
           history' = [history EXCEPT ![n] = row]
    PROVE  /\ history' \in Seq(Rows)
           /\ DOMAIN history' = DOMAIN history
           /\ history'[n] = row
           /\ \A m \in DOMAIN history \ {n} : history'[m] = history[m]
  BY ExceptSeq, LenProperties

-----------------------------------------------------------------------------
(* Prepared, of a local state.                                             *)
PreparedAs(l, rows, events) ==
    /\ l.pc \in Syncing \cup Failing \cup {"retrieve", "stripe_cancel"} => l.sub \in SubIds
    /\ l.pc \in Syncing \cup Selecting \cup {"stripe_cancel"} => l.status \in Statuses
    /\ l.pc \in {"sync_update", "failed_update"} => l.row \in rows
    /\ l.event \in {0} \cup events

(* A step that gives one request the local state l, and removes no row and *)
(* no event, leaves every request prepared if l is.                        *)
LEMMA LocalStep ==
    ASSUME TypeOK, NEW r \in Reqs, NEW l \in Locals,
           req' = [req EXCEPT ![r] = l],
           DOMAIN history \subseteq DOMAIN history', DOMAIN log \subseteq DOMAIN log',
           PreparedAs(l, DOMAIN history', DOMAIN log')
    PROVE  req' \in [Reqs -> Locals] /\ (\A q \in Reqs : Prepared(q)')
<1>1. req \in [Reqs -> Locals]
  BY DEF TypeOK
<1>2. req' \in [Reqs -> Locals]
  BY <1>1
<1>3. ASSUME NEW q \in Reqs PROVE Prepared(q)'
  <2>1. CASE q = r
    <3>1. req'[q] = l
      BY <1>1, <2>1
    <3> QED
      BY <3>1 DEF PreparedAs, Prepared
  <2>2. CASE q # r
    <3>1. req'[q] = req[q]
      BY <1>1, <2>2
    <3>2. Prepared(q)
      BY DEF TypeOK
    <3> QED
      BY <3>1, <3>2 DEF Prepared
  <2> QED
    BY <2>1, <2>2
<1> QED
  BY <1>2, <1>3

(* The same for a step that leaves the requests alone.                     *)
LEMMA NoLocalStep ==
    ASSUME TypeOK, UNCHANGED req,
           DOMAIN history \subseteq DOMAIN history', DOMAIN log \subseteq DOMAIN log'
    PROVE  req' \in [Reqs -> Locals] /\ (\A q \in Reqs : Prepared(q)')
  BY DEF TypeOK, Prepared

LEMMA Idles == Idle \in Locals /\ (\A rows, events : PreparedAs(Idle, rows, events))
  BY DEF Idle, Locals, PCs, Selecting, Syncing, Failing, PreparedAs

(* Finish and Abort make the request idle; Goto keeps its data.            *)
LEMMA Ended ==
    ASSUME TypeOK, NEW r \in Reqs, Finish(r) \/ Abort(r),
           DOMAIN history \subseteq DOMAIN history', DOMAIN log \subseteq DOMAIN log'
    PROVE  req' \in [Reqs -> Locals] /\ (\A q \in Reqs : Prepared(q)')
<1>1. req' = [req EXCEPT ![r] = Idle]
  BY DEF Finish, Abort
<1> QED
  BY <1>1, Idles, LocalStep

LEMMA Went ==
    ASSUME TypeOK, NEW r \in Reqs, NEW pc \in PCs, Goto(r, pc),
           DOMAIN history \subseteq DOMAIN history', DOMAIN log \subseteq DOMAIN log',
           PreparedAs([req[r] EXCEPT !.pc = pc], DOMAIN history', DOMAIN log')
    PROVE  req' \in [Reqs -> Locals] /\ (\A q \in Reqs : Prepared(q)')
<1>1. req[r] \in Locals
  BY DEF TypeOK
<1>2. [req[r] EXCEPT !.pc = pc] \in Locals
  BY <1>1 DEF Locals
<1>3. req' = [req EXCEPT ![r] = [req[r] EXCEPT !.pc = pc]]
  BY DEF Goto
<1> QED
  BY <1>2, <1>3, LocalStep

LEMMA Mapped == \A st : MapStripeStatus(st) \in Statuses
  BY DEF MapStripeStatus, Statuses

(* A non-empty set of indices has a greatest one.                          *)
LEMMA Greatest ==
    ASSUME NEW k \in Nat, NEW T, T \subseteq 1 .. k, T # {}
    PROVE  \E n \in T : \A m \in T : m <= n
<1> DEFINE U == {k - n : n \in T}
           R == OpToRel(<, Nat)
<1>1. U \subseteq Nat /\ U # {}
  <2> HIDE DEF R
  <2>1. \A n \in T : k - n \in Nat
    OBVIOUS
  <2>2. \A n \in T : k - n \in U
    OBVIOUS
  <2>3. U \subseteq Nat
    BY <2>1
  <2>4. U # {}
    <3> HIDE DEF U
    <3> QED
      BY <2>2
  <2> QED
    BY <2>3, <2>4
<1>2. PICK x \in U : \A y \in U : ~(<<y, x>> \in R)
  <2> HIDE DEF U
  <2> QED
    BY <1>1, NatLessThanWellFounded, WFMin
<1>3. \A y \in U : ~(y < x)
  <2>1. \A y \in Nat, z \in Nat : y < z => <<y, z>> \in R
    BY DEF OpToRel
  <2> QED
    BY <1>1, <1>2, <2>1
<1>4. PICK n \in T : x = k - n
  OBVIOUS
<1> QED
  BY <1>3, <1>4, SMTT(30)

(* The current row of a Stripe subscription is one of its current rows, if *)
(* there are any.                                                          *)
LEMMA FoundRow ==
    ASSUME history \in Seq(Rows), NEW s
    PROVE  /\ CurrentRow(s) \in Nat
           /\ CurrentRow(s) # 0 => CurrentRow(s) \in CurrentRows(s)
           /\ CurrentRow(s) = 0 => CurrentRows(s) = {}
           /\ CurrentRows(s) \subseteq DOMAIN history
<1>1. DOMAIN history = 1 .. Len(history) /\ Len(history) \in Nat
  BY LenProperties
<1>2. CurrentRows(s) \subseteq 1 .. Len(history)
  BY <1>1 DEF CurrentRows
<1>3. CASE CurrentRows(s) = {}
  BY <1>1, <1>2, <1>3 DEF CurrentRow
<1>4. CASE CurrentRows(s) # {}
  <2>1. \E n \in CurrentRows(s) : \A m \in CurrentRows(s) : m <= n
    BY <1>1, <1>2, <1>4, Greatest
  <2>2. CurrentRow(s) \in CurrentRows(s)
    BY <1>4, <2>1 DEF CurrentRow
  <2> QED
    BY <1>1, <1>2, <2>2
<1> QED
  BY <1>3, <1>4

LEMMA Started ==
    ASSUME TypeOK, NEW r \in Reqs, NEW pc \in PCs, NEW s \in SubIds \cup {NULL},
           NEW st \in Statuses \cup {NULL}, NEW n \in Nat, Start(r, pc, s, st, n),
           DOMAIN history \subseteq DOMAIN history', DOMAIN log \subseteq DOMAIN log',
           PreparedAs([pc |-> pc, sub |-> s, status |-> st, row |-> 0, event |-> n],
                      DOMAIN history', DOMAIN log')
    PROVE  req' \in [Reqs -> Locals] /\ (\A q \in Reqs : Prepared(q)')
<1>1. [pc |-> pc, sub |-> s, status |-> st, row |-> 0, event |-> n] \in Locals
  BY DEF Locals
<1> QED
  BY <1>1, LocalStep DEF Start

(* The same lemmas for a step of a request that leaves history and log.    *)
LEMMA QuietWent ==
    ASSUME TypeOK, NEW r \in Reqs, NEW pc \in PCs, Goto(r, pc), UNCHANGED <<history, log>>,
           PreparedAs([req[r] EXCEPT !.pc = pc], DOMAIN history, DOMAIN log)
    PROVE  req' \in [Reqs -> Locals] /\ (\A q \in Reqs : Prepared(q)')
  BY Went

-----------------------------------------------------------------------------
(* TypeOK, except for the requests.                                        *)
Data ==
    /\ user \in Users
    /\ history \in Seq(Rows)
    /\ stripe \in [SubIds -> StripeStatuses \cup {NULL}]
    /\ log \in Seq(Events)

LEMMA InitialTypes == Init => TypeOK
<1> SUFFICES ASSUME Init PROVE TypeOK
  OBVIOUS
<1>1. Data
  BY EmptySeq DEF Init, Data, Users
<1>2. req \in [Reqs -> Locals] /\ \A r \in Reqs : Prepared(r)
  <2>1. \A r \in Reqs : req[r] = Idle
    BY DEF Init
  <2>2. req \in [Reqs -> Locals]
    BY Idles DEF Init
  <2> QED
    BY <2>1, <2>2, Idles DEF Prepared, PreparedAs
<1> QED
  BY <1>1, <1>2 DEF TypeOK, Data

(* The requests that begin.                                                *)
LEMMA ArriveTypes ==
    ASSUME TypeOK, NEW r \in Reqs, Arrive(r)
    PROVE  TypeOK'
<1>1. CASE SelectUserPlan(r)
  <2>1. PICK status \in {"active", "trial"} : Start(r, "select_close", NULL, status, 0)
    BY <1>1 DEF SelectUserPlan
  <2>2. UNCHANGED <<history, log>>
    BY <1>1 DEF SelectUserPlan, state, external
  <2>3. req' \in [Reqs -> Locals] /\ (\A q \in Reqs : Prepared(q)')
    BY <2>1, <2>2, Started DEF PreparedAs, PCs, Selecting, Syncing, Failing, Statuses
  <2> QED
    BY <1>1, <2>3 DEF SelectUserPlan, state, external, TypeOK
<1>2. CASE CancelUserSubscription(r)
  <2>1. UNCHANGED <<user, history, stripe, log>>
    BY <1>2 DEF CancelUserSubscription, state, external
  <2>2. CASE user.stripe # NULL /\ Start(r, "stripe_cancel", user.stripe, "canceled", 0)
    <3>1. user.stripe \in SubIds
      BY <2>2 DEF TypeOK, Users
    <3>2. req' \in [Reqs -> Locals] /\ (\A q \in Reqs : Prepared(q)')
      BY <2>1, <2>2, <3>1, Started DEF PreparedAs, PCs, Selecting, Syncing, Failing, Statuses
    <3> QED
      BY <2>1, <3>2 DEF TypeOK
  <2>3. CASE Start(r, "cancel_user", NULL, NULL, 0)
    <3>1. req' \in [Reqs -> Locals] /\ (\A q \in Reqs : Prepared(q)')
      BY <2>1, <2>3, Started DEF PreparedAs, PCs, Selecting, Syncing, Failing
    <3> QED
      BY <2>1, <3>1 DEF TypeOK
  <2> QED
    BY <1>2, <2>2, <2>3 DEF CancelUserSubscription
<1>3. CASE RevenueCat(r)
  <2>1. UNCHANGED <<history, stripe, log, req>>
    BY <1>3 DEF RevenueCat, external
  <2>2. user' \in Users
    BY <1>3 DEF RevenueCat, TypeOK, Users, Statuses
  <2> QED
    BY <2>1, <2>2, NoLocalStep DEF TypeOK
<1>4. CASE AdminUpdateUser(r)
  <2>1. UNCHANGED <<history, stripe, log, req>>
    BY <1>4 DEF AdminUpdateUser, external
  <2>2. user' \in Users
    BY <1>4 DEF AdminUpdateUser, TypeOK, Users
  <2> QED
    BY <2>1, <2>2, NoLocalStep DEF TypeOK
<1>5. CASE ActivateUser(r)
  <2> DEFINE st == IF user.status = "suspended" THEN "active" ELSE user.status
  <2>1. st \in Statuses \cup {NULL}
    BY DEF TypeOK, Users, Statuses
  <2>2. UNCHANGED <<user, history, stripe, log>> /\ Start(r, "activate", NULL, st, 0)
    BY <1>5 DEF ActivateUser, state, external
  <2> HIDE DEF st
  <2>3. req' \in [Reqs -> Locals] /\ (\A q \in Reqs : Prepared(q)')
    BY <2>1, <2>2, Started DEF PreparedAs, PCs, Selecting, Syncing, Failing
  <2> QED
    BY <2>2, <2>3 DEF TypeOK
<1> QED
  BY <1>1, <1>2, <1>3, <1>4, <1>5 DEF Arrive

(* The events that come in.                                                *)
LEMMA ReceiveTypes ==
    ASSUME TypeOK, NEW r \in Reqs, Receive(r)
    PROVE  TypeOK'
<1> DEFINE Coming(n) ==
         CASE log[n].type = "subscription" ->
                Start(r, "sync_user", log[n].sub, MapStripeStatus(log[n].status), n)
           [] log[n].type = "failed" -> Start(r, "failed_find_user", log[n].sub, NULL, n)
           [] OTHER -> Start(r, "retrieve", log[n].sub, NULL, n)
<1>1. UNCHANGED <<user, history, stripe, log>>
  BY DEF Receive, state, external
<1>2. PICK n \in DOMAIN log : Coming(n)
  BY DEF Receive
<1> HIDE DEF Coming
<1>3. log[n].sub \in SubIds /\ n \in Nat
  <2>1. log \in Seq(Events)
    BY DEF TypeOK
  <2>2. n \in 1 .. Len(log) /\ Len(log) \in Nat
    BY <2>1, LenProperties
  <2>3. log[n] \in Events
    BY <2>1, <2>2, ElementOfSeq
  <2> QED
    BY <2>2, <2>3 DEF Events
<1>4. \/ Start(r, "sync_user", log[n].sub, MapStripeStatus(log[n].status), n)
      \/ Start(r, "failed_find_user", log[n].sub, NULL, n)
      \/ Start(r, "retrieve", log[n].sub, NULL, n)
  BY <1>2 DEF Coming
<1>5. req' \in [Reqs -> Locals] /\ (\A q \in Reqs : Prepared(q)')
  <2>1. CASE Start(r, "sync_user", log[n].sub, MapStripeStatus(log[n].status), n)
    BY <1>1, <1>3, <2>1, Mapped, Started DEF PreparedAs, PCs, Selecting, Syncing, Failing
  <2>2. CASE Start(r, "failed_find_user", log[n].sub, NULL, n)
    BY <1>1, <1>3, <2>2, Started DEF PreparedAs, PCs, Selecting, Syncing, Failing
  <2>3. CASE Start(r, "retrieve", log[n].sub, NULL, n)
    BY <1>1, <1>3, <2>3, Started DEF PreparedAs, PCs, Selecting, Syncing, Failing
  <2> QED
    BY <1>4, <2>1, <2>2, <2>3
<1> QED
  BY <1>1, <1>5 DEF TypeOK

(* What a request carries.                                                 *)
LEMMA Carried ==
    ASSUME TypeOK, NEW r \in Reqs
    PROVE  req[r] \in Locals /\ Prepared(r)
  BY DEF TypeOK

LEMMA RowOfStripe ==
    ASSUME TypeOK, NEW r \in Reqs, req[r].pc \in Syncing
    PROVE  StripeRow(r) \in Rows
  BY DEF TypeOK, Prepared, Syncing, StripeRow, Rows

(* Stripe sends some events more.                                          *)
LEMMA Logged ==
    ASSUME log \in Seq(Events), NEW events \in Seq(Events), log' = log \o events
    PROVE  log' \in Seq(Events) /\ DOMAIN log \subseteq DOMAIN log'
<1>1. log' \in Seq(Events) /\ Len(log') = Len(log) + Len(events)
  BY ConcatProperties
<1> QED
  BY <1>1, LenProperties

-----------------------------------------------------------------------------
(* The steps of requests in flight: first those that write no row,         *)
LEMMA QuietStepTypes ==
    ASSUME TypeOK, NEW r \in Reqs,
           \/ SelectUpdateUser(r) \/ CancelUpdateUser(r) \/ Retrieve(r) \/ SyncUpdateUser(r)
           \/ SyncFind(r) \/ FailedFindUser(r) \/ FailedUpdateUser(r) \/ FailedFind(r) \/ Activate(r)
    PROVE  TypeOK'
<1>1. req[r] \in Locals /\ Prepared(r) /\ history \in Seq(Rows)
  BY Carried DEF TypeOK
<1>2. UNCHANGED <<history, stripe, log>>
  BY DEF SelectUpdateUser, CancelUpdateUser, Retrieve, SyncUpdateUser, SyncFind, FailedFindUser,
         FailedUpdateUser, FailedFind, Activate, state, external
<1>3. user' \in Users
  <2>1. CASE SelectUpdateUser(r)
    <3>1. req[r].status \in Statuses
      BY <1>1, <2>1 DEF SelectUpdateUser, At, Prepared, Selecting
    <3> QED
      BY <2>1, <3>1 DEF SelectUpdateUser, TypeOK, Users
  <2>2. CASE SyncUpdateUser(r)
    <3>1. req[r].status \in Statuses /\ req[r].sub \in SubIds
      BY <1>1, <2>2 DEF SyncUpdateUser, At, Prepared, Syncing
    <3> QED
      BY <2>2, <3>1 DEF SyncUpdateUser, Users
  <2>4. CASE CancelUpdateUser(r)
    BY <2>4 DEF CancelUpdateUser, Users, Statuses
  <2>5. CASE FailedUpdateUser(r)
    BY <2>5 DEF FailedUpdateUser, TypeOK, Users, Statuses
  <2>6. CASE Activate(r)
    <3>1. req[r].status \in Statuses \cup {NULL}
      BY <1>1 DEF Locals
    <3> QED
      BY <2>6, <3>1 DEF Activate, TypeOK, Users
  <2>3. CASE Retrieve(r) \/ SyncFind(r) \/ FailedFindUser(r) \/ FailedFind(r)
    BY <2>3 DEF Retrieve, SyncFind, FailedFindUser, FailedFind, state, TypeOK
  <2> QED
    BY <2>1, <2>2, <2>3, <2>4, <2>5, <2>6
<1>4. req' \in [Reqs -> Locals] /\ (\A q \in Reqs : Prepared(q)')
  <2>1. CASE SelectUpdateUser(r)
    BY <1>1, <1>2, <2>1, QuietWent
    DEF SelectUpdateUser, At, Prepared, Locals, PreparedAs, PCs, Selecting, Syncing, Failing
  <2>2. CASE CancelUpdateUser(r)
    BY <1>1, <1>2, <2>2, QuietWent
    DEF CancelUpdateUser, At, Prepared, Locals, PreparedAs, PCs, Selecting, Syncing, Failing
  <2>3. CASE SyncUpdateUser(r)
    BY <1>1, <1>2, <2>3, QuietWent
    DEF SyncUpdateUser, At, Prepared, Locals, PreparedAs, PCs, Selecting, Syncing, Failing
  <2>4. CASE FailedUpdateUser(r)
    BY <1>1, <1>2, <2>4, QuietWent
    DEF FailedUpdateUser, At, Prepared, Locals, PreparedAs, PCs, Selecting, Syncing, Failing
  <2>5. CASE FailedFindUser(r)
    <3>1. PICK pc \in {"failed_user", "failed_find"} : Goto(r, pc)
      BY <2>5 DEF FailedFindUser
    <3> QED
      BY <1>1, <1>2, <2>5, <3>1, QuietWent
      DEF FailedFindUser, At, Prepared, Locals, PreparedAs, PCs, Selecting, Syncing, Failing
  <2>6. CASE Retrieve(r)
    BY <1>1, <1>2, <2>6, Mapped, Started
    DEF Retrieve, At, Prepared, Locals, PreparedAs, PCs, Selecting, Syncing, Failing
  <2>7. CASE SyncFind(r) \/ FailedFind(r)
    <3> DEFINE n == CurrentRow(req[r].sub)
    <3>1. n \in Nat /\ (n # 0 => n \in DOMAIN history)
      BY <1>1, FoundRow
    <3> HIDE DEF n
    <3>2. CASE \E pc \in {"sync_close", "sync_update", "failed_update"} :
                 /\ req' = [req EXCEPT ![r].row = n, ![r].pc = pc]
                 /\ pc # "sync_close" => n # 0
                 /\ req[r].pc \in {"sync_find", "failed_find"}
                 /\ pc # "failed_update" => req[r].pc = "sync_find"
      <4>1. PICK pc \in {"sync_close", "sync_update", "failed_update"} :
                 /\ req' = [req EXCEPT ![r].row = n, ![r].pc = pc]
                 /\ pc # "sync_close" => n # 0
                 /\ req[r].pc \in {"sync_find", "failed_find"}
                 /\ pc # "failed_update" => req[r].pc = "sync_find"
        BY <3>2
      <4> DEFINE l == [req[r] EXCEPT !.row = n, !.pc = pc]
      <4>2. l \in Locals
        BY <1>1, <3>1 DEF Locals, PCs, Syncing, Failing
      <4>3. PreparedAs(l, DOMAIN history, DOMAIN log)
        BY <1>1, <3>1, <4>1 DEF Locals, Prepared, PreparedAs, Selecting, Syncing, Failing
      <4>4. req' = [req EXCEPT ![r] = l]
        BY <4>1
      <4> HIDE DEF l
      <4> QED
        BY <1>2, <4>2, <4>3, <4>4, LocalStep
    <3>3. CASE Finish(r)
      BY <1>2, <3>3, Ended
    <3> QED
      BY <2>7, <3>2, <3>3 DEF SyncFind, FailedFind, At, n
  <2>8. CASE Activate(r)
    BY <1>2, <2>8, Ended DEF Activate
  <2> QED
    BY <2>1, <2>2, <2>3, <2>4, <2>5, <2>6, <2>7, <2>8
<1> QED
  BY <1>2, <1>3, <1>4 DEF TypeOK

(* then those that close, create or update rows,                           *)
LEMMA RowStepTypes ==
    ASSUME TypeOK, NEW r \in Reqs,
           \/ SelectClose(r) \/ SelectCreate(r) \/ CancelClose(r)
           \/ SyncUpdate(r) \/ SyncClose(r) \/ SyncCreate(r) \/ FailedUpdate(r)
    PROVE  TypeOK'
<1>1. req[r] \in Locals /\ Prepared(r) /\ history \in Seq(Rows)
  BY Carried DEF TypeOK
<1>2. UNCHANGED <<user, stripe, log>>
  BY DEF SelectClose, SelectCreate, CancelClose, SyncUpdate, SyncClose, SyncCreate, FailedUpdate,
         external
<1>3. history' \in Seq(Rows) /\ DOMAIN history \subseteq DOMAIN history'
  <2>1. CASE SelectClose(r) \/ CancelClose(r) \/ SyncClose(r)
    BY <1>1, <2>1, Closed DEF SelectClose, CancelClose, SyncClose
  <2>2. CASE SelectCreate(r)
    <3>1. [stripe |-> NULL, status |-> req[r].status, current |-> TRUE] \in Rows
      BY <1>1, <2>2 DEF SelectCreate, At, Prepared, Selecting, Rows
    <3> QED
      BY <1>1, <2>2, <3>1, Appended DEF SelectCreate
  <2>3. CASE SyncCreate(r)
    <3>1. StripeRow(r) \in Rows
      BY <2>3, RowOfStripe DEF SyncCreate, At, Syncing
    <3> QED
      BY <1>1, <2>3, <3>1, Appended DEF SyncCreate
  <2>4. CASE SyncUpdate(r)
    <3>1. StripeRow(r) \in Rows /\ req[r].row \in DOMAIN history
      BY <1>1, <2>4, RowOfStripe DEF SyncUpdate, At, Syncing, Prepared
    <3> QED
      BY <1>1, <2>4, <3>1, Updated DEF SyncUpdate
  <2>5. CASE FailedUpdate(r)
    <3> DEFINE row == [history[req[r].row] EXCEPT !.status = "suspended"]
    <3>1. req[r].row \in DOMAIN history
      BY <1>1, <2>5 DEF FailedUpdate, At, Prepared
    <3>2. history[req[r].row] \in Rows
      BY <1>1, <3>1, LenProperties, ElementOfSeq
    <3>3. row \in Rows
      BY <3>2 DEF Rows, Statuses
    <3>4. history' = [history EXCEPT ![req[r].row] = row]
      BY <2>5 DEF FailedUpdate
    <3> HIDE DEF row
    <3> QED
      BY <1>1, <3>1, <3>3, <3>4, Updated
  <2> QED
    BY <2>1, <2>2, <2>3, <2>4, <2>5
<1>4. req' \in [Reqs -> Locals] /\ (\A q \in Reqs : Prepared(q)')
  <2>1. CASE SelectCreate(r) \/ CancelClose(r) \/ SyncUpdate(r) \/ SyncCreate(r) \/ FailedUpdate(r)
    <3>1. Finish(r)
      BY <2>1 DEF SelectCreate, CancelClose, SyncUpdate, SyncCreate, FailedUpdate
    <3> QED
      BY <1>2, <1>3, <3>1, Ended
  <2>2. CASE SelectClose(r)
    <3>1. PreparedAs([req[r] EXCEPT !.pc = "select_user"], DOMAIN history', DOMAIN log')
      BY <1>1, <1>2, <2>2
      DEF SelectClose, At, Prepared, Locals, PreparedAs, Selecting, Syncing, Failing
    <3> QED
      BY <1>2, <1>3, <2>2, <3>1, Went DEF SelectClose, PCs, Selecting
  <2>3. CASE SyncClose(r)
    <3>1. PreparedAs([req[r] EXCEPT !.pc = "sync_create"], DOMAIN history', DOMAIN log')
      BY <1>1, <1>2, <2>3
      DEF SyncClose, At, Prepared, Locals, PreparedAs, Selecting, Syncing, Failing
    <3> QED
      BY <1>2, <1>3, <2>3, <3>1, Went DEF SyncClose, PCs, Syncing
  <2> QED
    BY <2>1, <2>2, <2>3
<1> QED
  BY <1>2, <1>3, <1>4 DEF TypeOK

(* and the one that asks Stripe.                                           *)
LEMMA StripeCancelTypes ==
    ASSUME TypeOK, NEW r \in Reqs, StripeCancel(r)
    PROVE  TypeOK'
<1>1. req[r] \in Locals /\ Prepared(r)
  BY Carried
<1>2. req[r].sub \in SubIds /\ req[r].status \in Statuses
  BY <1>1 DEF StripeCancel, At, Prepared
<1>3. UNCHANGED <<user, history>>
  BY DEF StripeCancel, state
<1>4. CASE Abort(r) /\ UNCHANGED external
  <2>1. UNCHANGED <<stripe, log>>
    BY <1>4 DEF external
  <2> QED
    BY <1>3, <1>4, <2>1, Ended DEF TypeOK
<1>5. CASE ~(Abort(r) /\ UNCHANGED external)
  <2> DEFINE event == [type |-> "subscription", sub |-> req[r].sub, status |-> "canceled"]
  <2>1. /\ stripe' = [stripe EXCEPT ![req[r].sub] = "canceled"]
        /\ log' = Append(log, event)
        /\ Goto(r, "sync_user")
    BY <1>5 DEF StripeCancel
  <2>2. stripe' \in [SubIds -> StripeStatuses \cup {NULL}]
    BY <2>1 DEF TypeOK, StripeStatuses
  <2>3. event \in Events
    BY <1>2 DEF Events, EventTypes, StripeStatuses
  <2> HIDE DEF event
  <2>4. log' \in Seq(Events) /\ DOMAIN log \subseteq DOMAIN log'
    BY <2>1, <2>3, AppendProperties, LenProperties DEF TypeOK
  <2>5. PreparedAs([req[r] EXCEPT !.pc = "sync_user"], DOMAIN history', DOMAIN log')
    BY <1>1, <1>2, <1>3, <2>4
    DEF Prepared, Locals, PreparedAs, Selecting, Syncing, Failing
  <2>6. req' \in [Reqs -> Locals] /\ (\A q \in Reqs : Prepared(q)')
    BY <1>3, <2>1, <2>4, <2>5, Went DEF PCs, Syncing
  <2> QED
    BY <1>3, <2>2, <2>4, <2>6 DEF TypeOK
<1> QED
  BY <1>4, <1>5

(* Stripe's own steps.                                                     *)
LEMMA StripeTypes ==
    ASSUME TypeOK, NEW s \in SubIds, Stripe(s)
    PROVE  TypeOK'
<1>1. \A type \in EventTypes, st \in StripeStatuses : Event(type, s, st) \in Events
  BY DEF Event, Events
<1>2. stripe \in [SubIds -> StripeStatuses \cup {NULL}] /\ log \in Seq(Events)
  BY DEF TypeOK
<1>3. \E events \in Seq(Events), st \in StripeStatuses :
         stripe' = [stripe EXCEPT ![s] = st] /\ Send(events)
  <2>1. CASE Subscribe(s)
    <3>1. PICK st \in {"trialing", "active"} :
             /\ stripe' = [stripe EXCEPT ![s] = st]
             /\ Send(<<Event("checkout", s, st), Event("subscription", s, st)>>)
      BY <2>1 DEF Subscribe
    <3>2. <<Event("checkout", s, st), Event("subscription", s, st)>> \in Seq(Events)
      BY <1>1 DEF EventTypes, StripeStatuses
    <3> QED
      BY <3>1, <3>2 DEF StripeStatuses
  <2>2. CASE Renew(s) \/ Recover(s)
    <3>1. <<Event("subscription", s, "active"), Event("paid", s, "active")>> \in Seq(Events)
      BY <1>1 DEF EventTypes, StripeStatuses
    <3> QED
      BY <2>2, <3>1 DEF Renew, Recover, StripeStatuses
  <2>3. CASE PaymentFails(s)
    <3>1. <<Event("subscription", s, "past_due"), Event("failed", s, "past_due")>> \in Seq(Events)
      BY <1>1 DEF EventTypes, StripeStatuses
    <3> QED
      BY <2>3, <3>1 DEF PaymentFails, StripeStatuses
  <2>4. CASE End(s)
    <3>1. <<Event("subscription", s, "canceled")>> \in Seq(Events)
      BY <1>1 DEF EventTypes, StripeStatuses
    <3> QED
      BY <2>4, <3>1 DEF End, StripeStatuses
  <2> QED
    BY <2>1, <2>2, <2>3, <2>4 DEF Stripe
<1>4. PICK events \in Seq(Events), st \in StripeStatuses :
         stripe' = [stripe EXCEPT ![s] = st] /\ Send(events)
  BY <1>3
<1>5. UNCHANGED <<user, history, req>> /\ log' = log \o events
  BY <1>4 DEF Send, state
<1>6. log' \in Seq(Events) /\ DOMAIN log \subseteq DOMAIN log'
  BY <1>2, <1>5, Logged
<1>7. stripe' \in [SubIds -> StripeStatuses \cup {NULL}]
  BY <1>2, <1>4
<1> QED
  BY <1>5, <1>6, <1>7, NoLocalStep DEF TypeOK

LEMMA TypeNext == TypeOK /\ [Next]_vars => TypeOK'
<1> SUFFICES ASSUME TypeOK, [Next]_vars PROVE TypeOK'
  OBVIOUS
<1>1. CASE \E r \in Reqs : Arrive(r) \/ Receive(r) \/ Step(r) \/ Fail(r)
  <2>1. PICK r \in Reqs : Arrive(r) \/ Receive(r) \/ Step(r) \/ Fail(r)
    BY <1>1
  <2>2. CASE Fail(r)
    <3>1. Abort(r) /\ UNCHANGED <<user, history, stripe, log>>
      BY <2>2 DEF Fail, state, external
    <3> QED
      BY <3>1, Ended DEF TypeOK
  <2>3. CASE Step(r)
    BY <2>3, QuietStepTypes, RowStepTypes, StripeCancelTypes DEF Step
  <2> QED
    BY <2>1, <2>2, <2>3, ArriveTypes, ReceiveTypes
<1>2. CASE \E s \in SubIds : Stripe(s)
  BY <1>2, StripeTypes
<1>3. CASE UNCHANGED vars
  <2>1. UNCHANGED <<user, history, stripe, log, req>>
    BY <1>3 DEF vars
  <2> QED
    BY <2>1, NoLocalStep DEF TypeOK
<1> QED
  BY <1>1, <1>2, <1>3 DEF Next

(* Every user, row, event and request has its shape, and a handler that    *)
(* updates a row has found one, for any number of requests at once.        *)
THEOREM TypeCorrect == Spec => []TypeOK
  BY InitialTypes, TypeNext, PTL DEF Spec

-----------------------------------------------------------------------------
(* A row is created only after the current ones were closed, and the row   *)
(* that is to be updated is still current, unless the history has changed. *)
Cleared(r) == req[r].pc \in {"select_user", "select_create", "sync_create"} => Current = {}
Held(r) == req[r].pc \in {"sync_update", "failed_update"} => history[req[r].row].current

Single == \A m, n \in Current : m = n

HistoryInv == TypeOK /\ (spoilt \/ Single) /\ \A r \in Reqs \ outdated : Cleared(r) /\ Held(r)

(* What a step does with closed rows.                                      *)
ClosedStayNow ==
    \A n \in DOMAIN history :
       ~history[n].current =>
          /\ n \in DOMAIN history'
          /\ \/ history'[n] = history[n]
             \/ \E r \in outdated : req[r].row = n /\ (SyncUpdate(r) \/ FailedUpdate(r))

(* What HNext remembers of the history.                                    *)
Remembers ==
    /\ outdated' = Behind(outdated, Relying, history' # history)
    /\ spoilt' = (/\ Current' # {}
                  /\ \/ spoilt
                     \/ \E r \in outdated : SelectCreate(r) \/ Synchronised(r))

Acts(r) == Arrive(r) \/ Receive(r) \/ Step(r) \/ Fail(r)

LEMMA HistoryInit == HInit => HistoryInv
<1> SUFFICES ASSUME HInit PROVE HistoryInv
  OBVIOUS
<1>1. TypeOK
  BY InitialTypes DEF HInit
<1>2. Current = {}
  BY DEF HInit, Init, Current
<1>3. \A r \in Reqs : req[r].pc = "idle"
  BY DEF HInit, Init, Idle
<1> QED
  BY <1>1, <1>2, <1>3 DEF HistoryInv, Single, Cleared, Held

(* A request leaves the others alone.                                      *)
LEMMA Others ==
    ASSUME TypeOK, NEW r \in Reqs, Acts(r), NEW q \in Reqs, q # r
    PROVE  req'[q] = req[q]
<1>1. req \in [Reqs -> Locals]
  BY DEF TypeOK
<1>2. /\ Finish(r) \/ Abort(r) => req'[q] = req[q]
      /\ \A pc : Goto(r, pc) => req'[q] = req[q]
      /\ \A pc, sub, status, n : Start(r, pc, sub, status, n) => req'[q] = req[q]
      /\ \A pc, n : req' = [req EXCEPT ![r].row = n, ![r].pc = pc] => req'[q] = req[q]
  BY <1>1 DEF Finish, Abort, Goto, Start
<1>3. CASE Arrive(r)
  BY <1>2, <1>3 DEF Arrive, SelectUserPlan, CancelUserSubscription, RevenueCat, AdminUpdateUser,
                    ActivateUser
<1>4. CASE Receive(r)
  <2>1. \E pc, sub, status, n : Start(r, pc, sub, status, n)
    BY <1>4 DEF Receive
  <2> QED
    BY <1>2, <2>1
<1>5. CASE \/ SelectClose(r) \/ SelectUpdateUser(r) \/ SelectCreate(r)
           \/ CancelUpdateUser(r) \/ CancelClose(r) \/ Retrieve(r) \/ Activate(r) \/ Fail(r)
  BY <1>2, <1>5 DEF SelectClose, SelectUpdateUser, SelectCreate, CancelUpdateUser, CancelClose,
                    Retrieve, Activate, Fail
<1>6. CASE \/ SyncUpdateUser(r) \/ SyncUpdate(r) \/ SyncClose(r) \/ SyncCreate(r)
           \/ FailedFindUser(r) \/ FailedUpdateUser(r) \/ FailedUpdate(r)
  BY <1>2, <1>6 DEF SyncUpdateUser, SyncUpdate, SyncClose, SyncCreate,
                    FailedFindUser, FailedUpdateUser, FailedUpdate
<1>7. CASE StripeCancel(r) \/ SyncFind(r) \/ FailedFind(r)
  BY <1>2, <1>7 DEF StripeCancel, SyncFind, FailedFind
<1> QED
  BY <1>3, <1>4, <1>5, <1>6, <1>7 DEF Acts, Step

(* What they rely on is there if the history has not changed.              *)
LEMMA Relied ==
    ASSUME HistoryInv, Remembers, NEW q \in Reqs \ outdated', req'[q] = req[q]
    PROVE  Cleared(q)' /\ Held(q)'
<1>1. CASE req[q].pc \in Relying
  <2>1. q \notin outdated /\ history' = history
    BY <1>1 DEF Remembers, Behind
  <2>2. Current' = Current
    BY <2>1 DEF Current
  <2> QED
    BY <2>1, <2>2 DEF HistoryInv, Cleared, Held
<1>2. CASE req[q].pc \notin Relying
  BY <1>2 DEF Relying, Cleared, Held
<1> QED
  BY <1>1, <1>2

LEMMA ActedOn ==
    ASSUME HistoryInv, Remembers, TypeOK', NEW r \in Reqs, Acts(r),
           spoilt' \/ Single', r \in outdated' \/ (Cleared(r)' /\ Held(r)')
    PROVE  HistoryInv'
<1>1. ASSUME NEW q \in Reqs \ outdated' PROVE Cleared(q)' /\ Held(q)'
  <2>1. CASE q = r
    BY <2>1
  <2>2. CASE q # r
    <3>1. req'[q] = req[q]
      BY <2>2, Others DEF HistoryInv
    <3> QED
      BY <3>1, Relied
  <2> QED
    BY <2>1, <2>2
<1> QED
  BY <1>1 DEF HistoryInv

LEMMA Spared ==
    ASSUME HistoryInv, Remembers, Single => Single'
    PROVE  spoilt' \/ Single'
<1>1. CASE Current' = {}
  BY <1>1 DEF Single
<1>2. CASE Current' # {} /\ spoilt
  BY <1>2 DEF Remembers
<1>3. CASE ~spoilt
  BY <1>3 DEF HistoryInv
<1> QED
  BY <1>1, <1>2, <1>3

LEMMA HistoryStays ==
    ASSUME UNCHANGED history
    PROVE  ClosedStayNow /\ Current' = Current /\ (Single => Single')
  BY DEF ClosedStayNow, Current, Single

LEMMA HistoryCloses ==
    ASSUME TypeOK, CloseCurrentForUser
    PROVE  ClosedStayNow /\ Current' = {} /\ Single'
<1>1. history \in Seq(Rows)
  BY DEF TypeOK
<1>2. Current' = {}
  BY <1>1, Closed DEF Current
<1> QED
  BY <1>1, <1>2, Closed DEF ClosedStayNow, Single

LEMMA HistoryGrows ==
    ASSUME TypeOK, NEW row \in Rows, history' = Append(history, row)
    PROVE  ClosedStayNow /\ (Current = {} => Single')
<1>1. history \in Seq(Rows)
  BY DEF TypeOK
<1>2. \A n \in DOMAIN history : n \in DOMAIN history' /\ history'[n] = history[n]
  BY <1>1, Appended
<1>3. DOMAIN history' = DOMAIN history \cup {Len(history) + 1}
  BY <1>1, Appended
<1>4. ASSUME Current = {}, NEW n \in Current' PROVE n = Len(history) + 1
  BY <1>2, <1>3, <1>4 DEF Current
<1> QED
  BY <1>2, <1>4 DEF ClosedStayNow, Single

LEMMA HistoryUpdates ==
    ASSUME TypeOK, NEW n \in DOMAIN history,
           history[n].current \/ \E r \in outdated : req[r].row = n /\ (SyncUpdate(r) \/ FailedUpdate(r)),
           NEW row \in Rows, history' = [history EXCEPT ![n] = row]
    PROVE  /\ ClosedStayNow
           /\ history[n].current \/ ~row.current => Current' \subseteq Current
<1>1. history \in Seq(Rows)
  BY DEF TypeOK
<1>2. /\ DOMAIN history' = DOMAIN history /\ history'[n] = row
      /\ \A m \in DOMAIN history \ {n} : history'[m] = history[m]
  BY <1>1, Updated
<1>3. ClosedStayNow
  BY <1>2 DEF ClosedStayNow
<1>4. history[n].current \/ ~row.current => Current' \subseteq Current
  BY <1>2 DEF Current
<1> QED
  BY <1>3, <1>4

LEMMA PcAfter ==
    ASSUME TypeOK, NEW r \in Reqs
    PROVE  /\ Finish(r) \/ Abort(r) => req'[r].pc = "idle"
           /\ \A pc : Goto(r, pc) => req'[r].pc = pc
           /\ \A pc, sub, status, n : Start(r, pc, sub, status, n) => req'[r].pc = pc
  BY DEF TypeOK, Locals, Finish, Abort, Goto, Start, Idle

(* A step of a request: r either relies on nothing then, or on what it has *)
(* made so or just seen.                                                   *)
LEMMA HistoryStep ==
    ASSUME HistoryInv, Remembers, TypeOK', NEW r \in Reqs, Acts(r)
    PROVE  HistoryInv' /\ ClosedStayNow
<1>0. TypeOK /\ (r \notin outdated => Cleared(r) /\ Held(r))
  BY DEF HistoryInv
<1>1. CASE \/ Receive(r) \/ Fail(r) \/ SelectUserPlan(r) \/ CancelUserSubscription(r)
           \/ ActivateUser(r) \/ StripeCancel(r) \/ CancelUpdateUser(r) \/ Retrieve(r)
           \/ SyncUpdateUser(r) \/ FailedFindUser(r) \/ FailedUpdateUser(r) \/ Activate(r)
  <2>1. UNCHANGED history
    BY <1>1
    DEF Receive, Fail, SelectUserPlan, CancelUserSubscription, ActivateUser, StripeCancel,
        CancelUpdateUser, Retrieve, SyncUpdateUser, FailedFindUser, FailedUpdateUser, Activate, state
  <2>2. req'[r].pc \notin Relying
    <3>1. CASE Receive(r)
      BY <1>0, <3>1, PcAfter DEF Receive, Relying
    <3>2. CASE Fail(r) \/ Activate(r)
      BY <1>0, <3>2, PcAfter DEF Fail, Activate, Relying
    <3>3. CASE SelectUserPlan(r) \/ CancelUserSubscription(r) \/ ActivateUser(r) \/ Retrieve(r)
      BY <1>0, <3>3, PcAfter DEF SelectUserPlan, CancelUserSubscription, ActivateUser, Retrieve, Relying
    <3>4. CASE StripeCancel(r)
      BY <1>0, <3>4, PcAfter DEF StripeCancel, Relying
    <3>5. CASE CancelUpdateUser(r) \/ SyncUpdateUser(r) \/ FailedUpdateUser(r)
      BY <1>0, <3>5, PcAfter DEF CancelUpdateUser, SyncUpdateUser, FailedUpdateUser, Relying
    <3>6. CASE FailedFindUser(r)
      BY <1>0, <3>6, PcAfter DEF FailedFindUser, Relying
    <3> QED
      BY <1>1, <3>1, <3>2, <3>3, <3>4, <3>5, <3>6
  <2>3. Cleared(r)' /\ Held(r)'
    BY <2>2 DEF Cleared, Held, Relying
  <2> QED
    BY <2>1, <2>3, HistoryStays, Spared, ActedOn
<1>2. CASE RevenueCat(r) \/ AdminUpdateUser(r)
  <2>1. UNCHANGED <<history, req>>
    BY <1>2 DEF RevenueCat, AdminUpdateUser
  <2>2. r \in outdated' \/ (Cleared(r)' /\ Held(r)')
    BY <2>1, Relied
  <2> QED
    BY <2>1, <2>2, HistoryStays, Spared, ActedOn
<1>3. CASE SelectClose(r) \/ SyncClose(r) \/ CancelClose(r)
  <2>1. req'[r].pc \in {"select_user", "sync_create", "idle"}
    BY <1>0, <1>3, PcAfter DEF SelectClose, SyncClose, CancelClose
  <2>2. Current' = {} /\ ClosedStayNow /\ Single'
    BY <1>0, <1>3, HistoryCloses DEF SelectClose, SyncClose, CancelClose
  <2>3. Cleared(r)' /\ Held(r)'
    BY <2>1, <2>2 DEF Cleared, Held
  <2> QED
    BY <2>2, <2>3, ActedOn
<1>4. CASE SelectUpdateUser(r)
  <2>1. UNCHANGED history /\ req[r].pc = "select_user" /\ req'[r].pc = "select_create"
    BY <1>0, <1>4, PcAfter DEF SelectUpdateUser, At
  <2>2. r \in outdated => r \in outdated'
    BY <2>1 DEF Remembers, Behind, Relying
  <2>3. r \in outdated' \/ (Cleared(r)' /\ Held(r)')
    BY <1>0, <2>1, <2>2, HistoryStays DEF Cleared, Held
  <2> QED
    BY <2>1, <2>3, HistoryStays, Spared, ActedOn
<1>5. CASE SelectCreate(r) \/ SyncCreate(r)
  <2>1. req[r].pc \in {"select_create", "sync_create"} /\ req'[r].pc = "idle"
    BY <1>0, <1>5, PcAfter DEF SelectCreate, SyncCreate, At
  <2>2. PICK row \in Rows : history' = Append(history, row)
    <3>1. CASE SelectCreate(r)
      <4>1. req[r].status \in Statuses
        BY <1>0, <3>1, Carried DEF SelectCreate, At, Prepared, Selecting
      <4> QED
        BY <3>1, <4>1 DEF SelectCreate, Rows
    <3>2. CASE SyncCreate(r)
      BY <1>0, <3>2, RowOfStripe DEF SyncCreate, At, Syncing
    <3> QED
      BY <1>5, <3>1, <3>2
  <2>3. ClosedStayNow /\ (Current = {} => Single')
    BY <1>0, <2>2, HistoryGrows
  <2>4. spoilt' \/ Single'
    <3>1. CASE r \in outdated
      BY <1>5, <3>1 DEF Remembers, Synchronised, Single
    <3>2. CASE r \notin outdated
      BY <1>0, <2>1, <2>3, <3>2 DEF Cleared
    <3> QED
      BY <3>1, <3>2
  <2>5. Cleared(r)' /\ Held(r)'
    BY <2>1 DEF Cleared, Held
  <2> QED
    BY <2>3, <2>4, <2>5, ActedOn
<1>6. CASE SyncUpdate(r) \/ FailedUpdate(r)
  <2>1. /\ req'[r].pc = "idle" /\ req[r].row \in DOMAIN history
        /\ history[req[r].row].current \/ r \in outdated
    BY <1>0, <1>6, PcAfter, Carried DEF SyncUpdate, FailedUpdate, At, Held, Prepared
  <2>2. PICK row \in Rows : /\ history' = [history EXCEPT ![req[r].row] = row]
                            /\ FailedUpdate(r) => row.current = history[req[r].row].current
    <3>1. CASE SyncUpdate(r)
      <4>1. ~FailedUpdate(r)
        BY <3>1 DEF SyncUpdate, FailedUpdate, At
      <4> QED
        BY <1>0, <3>1, <4>1, RowOfStripe DEF SyncUpdate, At, Syncing
    <3>2. CASE FailedUpdate(r)
      <4> DEFINE row == [history[req[r].row] EXCEPT !.status = "suspended"]
      <4>1. history[req[r].row] \in Rows
        BY <1>0, <2>1, LenProperties, ElementOfSeq DEF TypeOK
      <4>2. row \in Rows /\ row.current = history[req[r].row].current
        BY <4>1 DEF Rows, Statuses
      <4>3. history' = [history EXCEPT ![req[r].row] = row]
        BY <3>2 DEF FailedUpdate
      <4> HIDE DEF row
      <4> QED
        BY <4>2, <4>3
    <3> QED
      BY <1>6, <3>1, <3>2
  <2>3. /\ history[req[r].row].current \/ ~row.current => Current' \subseteq Current
        /\ ClosedStayNow
    BY <1>0, <1>6, <2>1, <2>2, HistoryUpdates
  <2>4. spoilt' \/ Single'
    <3>1. CASE Current' \subseteq Current
      BY <3>1, Spared DEF Single
    <3>2. CASE ~(Current' \subseteq Current)
      <4>1. r \in outdated /\ SyncUpdate(r)
        BY <1>6, <2>1, <2>2, <2>3, <3>2
      <4> QED
        BY <3>2, <4>1 DEF Remembers, Synchronised
    <3> QED
      BY <3>1, <3>2
  <2>5. Cleared(r)' /\ Held(r)'
    BY <2>1 DEF Cleared, Held
  <2> QED
    BY <2>3, <2>4, <2>5, ActedOn
<1>7. CASE SyncFind(r) \/ FailedFind(r)
  <2> DEFINE n == CurrentRow(req[r].sub)
  <2>1. UNCHANGED history /\ history \in Seq(Rows)
    BY <1>0, <1>7 DEF SyncFind, FailedFind, state, TypeOK
  <2>2. n # 0 => history[n].current
    BY <2>1, FoundRow DEF CurrentRows
  <2>3. req[r] \in Locals
    BY <1>0, Carried
  <2>4. \/ req'[r].pc \notin Relying
        \/ req'[r].pc \in {"sync_update", "failed_update"} /\ req'[r].row = n /\ n # 0
    <3> HIDE DEF n
    <3>1. CASE SyncFind(r)
      BY <1>0, <2>3, <3>1 DEF SyncFind, TypeOK, Locals, n, Relying
    <3>2. CASE FailedFind(r)
      BY <1>0, <2>3, <3>2, PcAfter DEF FailedFind, TypeOK, Locals, n, Relying
    <3> QED
      BY <1>7, <3>1, <3>2
  <2> HIDE DEF n
  <2>5. Cleared(r)' /\ Held(r)'
    BY <2>1, <2>2, <2>4 DEF Cleared, Held, Relying
  <2> QED
    BY <2>1, <2>5, HistoryStays, Spared, ActedOn
<1> QED
  BY <1>1, <1>2, <1>3, <1>4, <1>5, <1>6, <1>7 DEF Acts, Arrive, Step

LEMMA HistoryNext ==
    ASSUME HistoryInv, [HNext]_hvars
    PROVE  HistoryInv' /\ ClosedStayNow
<1>1. TypeOK'
  BY TypeNext DEF HistoryInv, HNext, hvars
<1>2. CASE UNCHANGED hvars
  <2>1. UNCHANGED <<history, req, outdated, spoilt>>
    BY <1>2 DEF hvars, vars
  <2> QED
    BY <1>1, <2>1, HistoryStays DEF HistoryInv, Single, Cleared, Held
<1>3. CASE HNext
  <2>1. Remembers
    BY <1>3 DEF HNext, Remembers
  <2>2. CASE \E r \in Reqs : Acts(r)
    BY <1>1, <2>1, <2>2, HistoryStep
  <2>3. CASE \E s \in SubIds : Stripe(s)
    <3>1. UNCHANGED <<history, req>>
      BY <2>3 DEF Stripe, Subscribe, Renew, PaymentFails, Recover, End, Send, state
    <3>2. spoilt' \/ Single'
      BY <2>1, <3>1, HistoryStays, Spared
    <3> QED
      BY <1>1, <2>1, <3>1, <3>2, HistoryStays, Relied DEF HistoryInv
  <2> QED
    BY <1>3, <2>2, <2>3 DEF HNext, Next, Acts
<1> QED
  BY <1>2, <1>3

(* A user has at most one current row, unless a request wrote one after    *)
(* the history had changed behind its back, and no later one has closed    *)
(* the current rows since.  That is so for any number of requests at once, *)
(* in whatever order and however often events come in, and wherever a      *)
(* request fails.                                                          *)
THEOREM OneCurrent == HSpec => []AtMostOneCurrent
<1>1. HistoryInv /\ [HNext]_hvars => HistoryInv'
  BY HistoryNext
<1>2. HistoryInv => AtMostOneCurrent
  BY DEF HistoryInv, Single, AtMostOneCurrent
<1> QED
  BY HistoryInit, <1>1, <1>2, PTL DEF HSpec

(* And a closed row is never written again, but by a request that had      *)
(* found it while it was current.                                          *)
THEOREM ClosedStay == HSpec => ClosedRowsStay
<1>1. HistoryInv /\ [HNext]_hvars => HistoryInv'
  BY HistoryNext
<1>2. HistoryInv /\ [HNext]_hvars
        => [\A n \in DOMAIN history :
              ~history[n].current =>
                 /\ n \in DOMAIN history'
                 /\ \/ history'[n] = history[n]
                    \/ \E r \in outdated : req[r].row = n /\ (SyncUpdate(r) \/ FailedUpdate(r))]_hvars
  BY HistoryNext DEF ClosedStayNow
<1> QED
  BY HistoryInit, <1>1, <1>2, PTL DEF HSpec, ClosedRowsStay

-----------------------------------------------------------------------------
(* What Stripe says, and who knows it.                                     *)
Latest(s) == stripe[s] # NULL /\ \A t \in SubIds : t > s => stripe[t] = NULL

(* The last event, or the one before a failed payment, says how the latest *)
(* subscription stands.                                                    *)
Says(n, s) == log[n].type = "subscription" /\ log[n].sub = s /\ log[n].status = stripe[s]

LogEnd(s) ==
    LET N == Len(log)
    IN  /\ N >= 1 /\ log[N].sub = s
        /\ \/ Says(N, s)
           \/ N >= 2 /\ log[N].type \in {"paid", "failed"} /\ Says(N - 1, s)
        /\ log[N].type = "failed" => stripe[s] = "past_due"

(* Whether event n settles that: one of a failed payment tells no more     *)
(* than the one before.  And whether one that does is answered.            *)
Tells(n) ==
    LET N == Len(log)
    IN  IF log[N].type = "failed" THEN n = N - 1 ELSE n = N
Told == \E n \in answered : Tells(n)

StripeInv ==
    /\ \A s, t \in SubIds : t < s /\ stripe[s] # NULL => stripe[t] = "canceled"
    /\ \A s \in SubIds : Latest(s) => LogEnd(s)
    /\ \A n \in DOMAIN log : stripe[log[n].sub] # NULL
    /\ \A r \in Reqs : req[r].sub # NULL => stripe[req[r].sub] # NULL
    /\ user.stripe # NULL => stripe[user.stripe] # NULL

(* What r is about to write is what its event says, or what Stripe has     *)
(* answered since.                                                         *)
Asking == {"retrieve"} \cup Failing

Knows(r) ==
    /\ req[r].pc \notin Asking \cup Syncing => req[r].event = 0 /\ own[r] = 0
    /\ req[r].pc = "stripe_cancel" => req[r].status = "canceled"
    /\ req[r].pc \in Asking =>
          /\ req[r].event # 0 /\ req[r].sub = log[req[r].event].sub
          /\ IF req[r].pc = "retrieve" THEN log[req[r].event].type \notin {"subscription", "failed"}
             ELSE log[req[r].event].type = "failed"
    /\ req[r].pc \in Syncing =>
          /\ News(r) \in DOMAIN log /\ log[News(r)].type # "failed"
          /\ Tells(News(r)) =>
                \A s \in SubIds :
                   Latest(s) => req[r].sub = s /\ req[r].status = MapStripeStatus(stripe[s])

(* The user is as r wrote it, and the history as r found it, if no other   *)
(* has written.                                                            *)
Wrote(r) ==
    /\ req[r].pc \in HalfDone /\ r \notin mixed =>
          user = [plan |-> TRUE, status |-> req[r].status, stripe |-> req[r].sub]
    /\ req[r].pc \in {"sync_update", "sync_create"} /\ r \in outdated => r \in mixed

FollowInv ==
    /\ HistoryInv /\ StripeInv
    /\ answered \subseteq DOMAIN log
    /\ \A r \in Reqs : Knows(r) /\ Wrote(r)
    /\ Told => FollowsLatest \/ drifted

LEMMA LogShape ==
    ASSUME TypeOK
    PROVE  /\ Len(log) \in Nat /\ DOMAIN log = 1 .. Len(log)
           /\ \A n \in DOMAIN log : log[n] \in Events
<1>1. log \in Seq(Events)
  BY DEF TypeOK
<1>2. Len(log) \in Nat /\ DOMAIN log = 1 .. Len(log)
  BY <1>1, LenProperties
<1> QED
  BY <1>1, <1>2, ElementOfSeq

LEMMA MapIs ==
    /\ \A st \in StripeStatuses : MapStripeStatus(st) = "canceled" <=> st = "canceled"
    /\ MapStripeStatus("past_due") = "suspended"
  BY DEF MapStripeStatus, StripeStatuses

(* Where Stripe and the log stay, so does what the log says.               *)
LEMMA LogStays ==
    ASSUME UNCHANGED <<stripe, log>>
    PROVE  /\ \A s : Latest(s)' <=> Latest(s)
           /\ \A s : LogEnd(s)' <=> LogEnd(s)
           /\ \A n : Tells(n)' <=> Tells(n)
           /\ answered' = answered => (Told' <=> Told)
<1>1. \A s : Latest(s)' <=> Latest(s)
  BY DEF Latest
<1>2. \A s : LogEnd(s)' <=> LogEnd(s)
  BY DEF LogEnd, Says
<1>3. \A n : Tells(n)' <=> Tells(n)
  BY DEF Tells
<1> QED
  BY <1>1, <1>2, <1>3 DEF Told

LEMMA StripeStays ==
    ASSUME StripeInv, UNCHANGED <<stripe, log>>,
           \A r \in Reqs : req'[r].sub # NULL => stripe[req'[r].sub] # NULL,
           user'.stripe # NULL => stripe[user'.stripe] # NULL
    PROVE  StripeInv'
<1>1. \A s \in SubIds : Latest(s)' => LogEnd(s)'
  BY LogStays DEF StripeInv
<1> QED
  BY <1>1 DEF StripeInv

LEMMA Becomes ==
    ASSUME TypeOK, NEW r \in Reqs
    PROVE  /\ Finish(r) \/ Abort(r) => req'[r] = Idle
           /\ \A pc : Goto(r, pc) => /\ req'[r].pc = pc /\ req'[r].sub = req[r].sub
                                     /\ req'[r].status = req[r].status
                                     /\ req'[r].event = req[r].event
           /\ \A pc, s, st, n : Start(r, pc, s, st, n) =>
                 /\ req'[r].pc = pc /\ req'[r].sub = s /\ req'[r].status = st
                 /\ req'[r].event = n
  BY DEF TypeOK, Locals, Finish, Abort, Goto, Start

(* What HNext remembers besides.                                           *)
Traces ==
    /\ own' = [r \in Reqs |-> IF At(r, "stripe_cancel") /\ At(r, "sync_user")' THEN Len(log')
                              ELSE IF At(r, "idle")' THEN 0 ELSE own[r]]
    /\ mixed' = Behind(mixed, HalfDone, state' # state)
    /\ drifted' = IF \E r \in Reqs : Synchronised(r)
                  THEN spoilt \/ \E r \in Reqs : Synchronised(r) /\ (Late(r) \/ r \in mixed)
                  ELSE drifted \/ Drifts

LEMMA IdleKnows ==
    ASSUME Traces, NEW r \in Reqs, req'[r] = Idle
    PROVE  Knows(r)' /\ Wrote(r)' /\ req'[r].sub = NULL
<1>1. req'[r].pc = "idle" /\ req'[r].event = 0 /\ req'[r].sub = NULL
  BY DEF Idle
<1>2. own'[r] = 0
  BY <1>1 DEF Traces, At
<1> QED
  BY <1>1, <1>2 DEF Knows, Wrote, Asking, Syncing, Failing, HalfDone

(* A request that does nothing still knows what it knew, unless Stripe has *)
(* sent events, none of those before settles anything then.                *)
Newer ==
    /\ DOMAIN log \subseteq DOMAIN log'
    /\ \A n \in DOMAIN log : log'[n] = log[n] /\ ~Tells(n)'

LEMMA Waiting ==
    ASSUME TypeOK, Remembers, Traces, NEW q \in Reqs, Knows(q), Wrote(q), req'[q] = req[q],
           UNCHANGED <<stripe, log>> \/ Newer
    PROVE  Knows(q)' /\ Wrote(q)'
<1>1. req[q].event \in {0} \cup DOMAIN log
  BY DEF TypeOK, Prepared
<1>2. req[q].pc \in Syncing => own'[q] = own[q]
  BY DEF Traces, At, Syncing
<1>3. req[q].pc \notin Asking \cup Syncing => (own[q] = 0 => own'[q] = 0)
  <2>1. ~(At(q, "stripe_cancel") /\ At(q, "sync_user")')
    BY DEF At
  <2> QED
    BY <2>1 DEF Traces
<1>4. Knows(q)'
  <2>1. req[q].pc \notin Asking \cup Syncing => req[q].event = 0 /\ own'[q] = 0
    BY <1>3 DEF Knows
  <2>2. CASE UNCHANGED <<stripe, log>>
    BY <1>2, <2>1, <2>2, LogStays DEF Knows, News
  <2>3. CASE Newer
    <3>1. req[q].pc \in Asking => log'[req[q].event] = log[req[q].event]
      BY <1>1, <2>3 DEF Knows, Newer
    <3>2. req[q].pc \in Syncing => News(q)' = News(q) /\ News(q) \in DOMAIN log
      BY <1>2 DEF Knows, News
    <3>3. req[q].pc \in Syncing =>
            /\ News(q)' \in DOMAIN log' /\ log'[News(q)'].type # "failed" /\ ~Tells(News(q))'
      BY <2>3, <3>2 DEF Knows, Newer
    <3> QED
      BY <2>1, <3>1, <3>3 DEF Knows
  <2> QED
    BY <2>2, <2>3
<1>5. Wrote(q)'
  <2>1. CASE req[q].pc \in HalfDone
    <3>1. q \notin mixed' => q \notin mixed /\ UNCHANGED state
      BY <2>1 DEF Traces, Behind
    <3>2. q \in outdated' => (q \in outdated /\ req[q].pc \in Relying) \/ history' # history
      BY DEF Remembers, Behind
    <3> QED
      BY <3>1, <3>2 DEF Wrote, state
  <2>2. CASE req[q].pc \notin HalfDone
    BY <2>2 DEF Wrote, HalfDone
  <2> QED
    BY <2>1, <2>2
<1> QED
  BY <1>4, <1>5

(* A write that is not overtaken comes before anything is told.            *)
LEMMA Untold ==
    ASSUME FollowInv, NEW r \in Reqs, ~Overtaken(r), req[r].pc \notin Asking
    PROVE  ~Told
<1> SUFFICES ASSUME NEW n \in answered, Tells(n) PROVE FALSE
  BY DEF Told
<1>1. Len(log) \in Nat /\ n \in 1 .. Len(log)
  BY LogShape DEF FollowInv, HistoryInv
<1>2. ~(n >= News(r)) /\ Knows(r)
  BY DEF Overtaken, FollowInv
<1>3. CASE req[r].pc \in Syncing
  <2>1. News(r) \in 1 .. Len(log) /\ log[News(r)].type # "failed"
    BY <1>2, <1>3, LogShape DEF Knows, FollowInv, HistoryInv
  <2>2. n < News(r)
    BY <1>1, <1>2, <2>1
  <2>3. n = Len(log) - 1 /\ log[Len(log)].type = "failed"
    BY <1>1, <2>1, <2>2 DEF Tells
  <2> QED
    BY <1>1, <2>1, <2>2, <2>3
<1>4. CASE req[r].pc \notin Syncing
  <2>1. News(r) = 0
    BY <1>2, <1>4 DEF Knows, News
  <2> QED
    BY <1>1, <1>2, <2>1
<1> QED
  BY <1>3, <1>4

(* Only r synchronises while r acts, and if nothing drifts where the user  *)
(* or the history changes, r has written what was not overtaken.           *)
LEMMA Alone ==
    ASSUME TypeOK, Traces, NEW r \in Reqs, Acts(r), ~Synchronised(r)
    PROVE  /\ drifted' = (drifted \/ Drifts)
           /\ state' # state /\ ~drifted' => ~Overtaken(r)
<1>1. ASSUME NEW q \in Reqs, Synchronised(q) PROVE FALSE
  <2>1. q # r /\ req'[q] = req[q]
    BY <1>1, Others
  <2>2. req[q].pc \in {"sync_update", "sync_create"} /\ req'[q].pc = "idle"
    BY <1>1, PcAfter DEF Synchronised, SyncUpdate, SyncCreate, At
  <2> QED
    BY <2>1, <2>2
<1>2. drifted' = (drifted \/ Drifts)
  BY <1>1 DEF Traces
<1>3. ASSUME state' # state, ~drifted' PROVE ~Overtaken(r)
  <2>1. PICK q \in Reqs : req'[q] # req[q] /\ ~Overtaken(q)
    BY <1>2, <1>3 DEF Drifts
  <2>2. q = r
    BY <2>1, Others
  <2> QED
    BY <2>1, <2>2
<1> QED
  BY <1>2, <1>3

LEMMA SameFollows ==
    ASSUME UNCHANGED <<user, history, stripe>>
    PROVE  FollowsLatest => FollowsLatest'
  BY DEF FollowsLatest, Follows, Current

LEMMA FollowStep ==
    ASSUME FollowInv, HistoryInv', Remembers, Traces, NEW r \in Reqs, Acts(r),
           StripeInv', answered' \subseteq DOMAIN log', UNCHANGED <<stripe, log>> \/ Newer,
           Knows(r)', Wrote(r)', Told' => FollowsLatest' \/ drifted'
    PROVE  FollowInv'
<1>1. ASSUME NEW q \in Reqs PROVE Knows(q)' /\ Wrote(q)'
  <2>1. CASE q = r
    BY <2>1
  <2>2. CASE q # r
    BY <2>2, Others, Waiting DEF FollowInv, HistoryInv
  <2> QED
    BY <2>1, <2>2
<1> QED
  BY <1>1 DEF FollowInv

LEMMA StripeKeeps ==
    ASSUME FollowInv, NEW r \in Reqs, Acts(r), UNCHANGED <<stripe, log>>,
           req'[r].sub # NULL => stripe[req'[r].sub] # NULL,
           user'.stripe # NULL => stripe[user'.stripe] # NULL
    PROVE  StripeInv'
<1>1. ASSUME NEW q \in Reqs, req'[q].sub # NULL PROVE stripe[req'[q].sub] # NULL
  <2>1. CASE q = r
    BY <1>1, <2>1
  <2>2. CASE q # r
    BY <1>1, <2>2, Others DEF FollowInv, HistoryInv, StripeInv
  <2> QED
    BY <2>1, <2>2
<1> QED
  BY <1>1, StripeStays DEF FollowInv

(* A step that answers nothing: what it writes was not told, or drifts.    *)
LEMMA PlainStep ==
    ASSUME FollowInv, HistoryInv', Remembers, Traces, NEW r \in Reqs, Acts(r), ~Synchronised(r),
           UNCHANGED <<stripe, log, answered>>, UNCHANGED state \/ req[r].pc \notin Asking,
           req'[r].sub # NULL => stripe[req'[r].sub] # NULL,
           user'.stripe # NULL => stripe[user'.stripe] # NULL,
           Knows(r)', Wrote(r)'
    PROVE  FollowInv'
<1>1. TypeOK /\ (Told => FollowsLatest \/ drifted)
  BY DEF FollowInv, HistoryInv
<1>2. drifted' = (drifted \/ Drifts) /\ (state' # state /\ ~drifted' => ~Overtaken(r))
  BY <1>1, Alone
<1>3. ASSUME Told', ~drifted' PROVE FollowsLatest'
  <2>1. Told
    BY <1>3, LogStays
  <2>2. UNCHANGED state
    BY <1>2, <1>3, <2>1, Untold
  <2> QED
    BY <1>1, <1>2, <1>3, <2>1, <2>2, SameFollows DEF state
<1>4. StripeInv'
  BY StripeKeeps
<1> QED
  BY <1>3, <1>4, FollowStep DEF FollowInv

-----------------------------------------------------------------------------
(* The requests that begin, go on without an answer, or fail.              *)
LEMMA ReceiveFollows ==
    ASSUME FollowInv, HistoryInv', Remembers, Traces, NEW r \in Reqs, Receive(r)
    PROVE  FollowInv'
<1> DEFINE Coming(n) ==
         CASE log[n].type = "subscription" ->
                Start(r, "sync_user", log[n].sub, MapStripeStatus(log[n].status), n)
           [] log[n].type = "failed" -> Start(r, "failed_find_user", log[n].sub, NULL, n)
           [] OTHER -> Start(r, "retrieve", log[n].sub, NULL, n)
<1>1. UNCHANGED <<user, history, stripe, log, answered>> /\ At(r, "idle")
  BY DEF Receive, state, external
<1>2. PICK n \in DOMAIN log : Coming(n)
  BY DEF Receive
<1>3. \/ /\ log[n].type = "subscription"
         /\ Start(r, "sync_user", log[n].sub, MapStripeStatus(log[n].status), n)
      \/ log[n].type = "failed" /\ Start(r, "failed_find_user", log[n].sub, NULL, n)
      \/ log[n].type \notin {"subscription", "failed"} /\ Start(r, "retrieve", log[n].sub, NULL, n)
  BY <1>2
<1> HIDE DEF Coming
<1>4. TypeOK /\ StripeInv
  BY DEF FollowInv, HistoryInv
<1>5. Len(log) \in Nat /\ n \in 1 .. Len(log) /\ n # 0 /\ log[n] \in Events
  BY <1>4, LogShape
<1>6. /\ req'[r].sub = log[n].sub /\ req'[r].event = n
      /\ \/ /\ log[n].type = "subscription" /\ req'[r].pc = "sync_user"
            /\ req'[r].status = MapStripeStatus(log[n].status)
         \/ log[n].type = "failed" /\ req'[r].pc = "failed_find_user"
         \/ log[n].type \notin {"subscription", "failed"} /\ req'[r].pc = "retrieve"
  BY <1>3, <1>4, Becomes
<1>7. News(r)' = n
  BY <1>5, <1>6 DEF News
<1>8. ASSUME req'[r].pc \in Syncing, Tells(n), NEW s \in SubIds, Latest(s)
      PROVE  req'[r].sub = s /\ req'[r].status = MapStripeStatus(stripe[s])
  <2>1. log[n].type = "subscription" /\ req'[r].status = MapStripeStatus(log[n].status)
    BY <1>6, <1>8 DEF Syncing
  <2>2. LogEnd(s)
    BY <1>4, <1>8 DEF StripeInv
  <2>3. Says(n, s)
    BY <1>5, <1>8, <2>1, <2>2 DEF Tells, LogEnd, Says
  <2> QED
    BY <1>6, <2>1, <2>3 DEF Says
<1>9. Knows(r)'
  BY <1>1, <1>5, <1>6, <1>7, <1>8, LogShape, LogStays DEF Knows, Asking, Syncing, Failing
<1>10. Wrote(r)'
  BY <1>6 DEF Wrote, HalfDone
<1>11. stripe[req'[r].sub] # NULL
  BY <1>4, <1>6 DEF StripeInv
<1>12. ~Synchronised(r)
  BY <1>1 DEF Synchronised, SyncUpdate, SyncCreate, At
<1> QED
  BY <1>1, <1>4, <1>9, <1>10, <1>11, <1>12, PlainStep DEF Acts, state, StripeInv

(* Stripe answers with how the subscription stands now.                    *)
LEMMA RetrieveFollows ==
    ASSUME FollowInv, HistoryInv', Remembers, Traces, NEW r \in Reqs, Retrieve(r)
    PROVE  FollowInv'
<1>1. /\ UNCHANGED <<user, history, stripe, log, answered>> /\ req[r].pc = "retrieve"
      /\ Start(r, "sync_user", req[r].sub, MapStripeStatus(stripe[req[r].sub]), req[r].event)
  BY DEF Retrieve, state, external, At
<1>2. TypeOK /\ StripeInv /\ Knows(r) /\ Prepared(r)
  BY DEF FollowInv, HistoryInv, TypeOK
<1>3. /\ req'[r].pc = "sync_user" /\ req'[r].sub = req[r].sub /\ req'[r].event = req[r].event
      /\ req'[r].status = MapStripeStatus(stripe[req[r].sub])
  BY <1>1, <1>2, Becomes
<1>4. PICK n \in DOMAIN log : /\ n = req[r].event /\ n # 0 /\ req[r].sub = log[n].sub
                              /\ log[n].type \notin {"subscription", "failed"}
  BY <1>1, <1>2 DEF Knows, Asking, Prepared
<1>5. Len(log) \in Nat /\ n \in 1 .. Len(log) /\ News(r)' = n
  BY <1>2, <1>3, <1>4, LogShape DEF News
<1>6. ASSUME Tells(n), NEW s \in SubIds, Latest(s)
      PROVE  req'[r].sub = s /\ req'[r].status = MapStripeStatus(stripe[s])
  <2>1. LogEnd(s)
    BY <1>2, <1>6 DEF StripeInv
  <2>2. n = Len(log)
    BY <1>4, <1>5, <1>6, <2>1 DEF Tells, LogEnd, Says
  <2> QED
    BY <1>3, <1>4, <2>1, <2>2 DEF LogEnd
<1>7. Knows(r)' /\ Wrote(r)'
  BY <1>1, <1>3, <1>4, <1>5, <1>6, LogStays DEF Knows, Wrote, Asking, Syncing, Failing, HalfDone
<1>8. req'[r].sub # NULL => stripe[req'[r].sub] # NULL
  BY <1>2, <1>3 DEF StripeInv
<1>9. ~Synchronised(r)
  BY <1>1 DEF Synchronised, SyncUpdate, SyncCreate, At
<1> QED
  BY <1>1, <1>2, <1>7, <1>8, <1>9, PlainStep DEF Acts, Step, state, StripeInv

(* The steps that Stripe has no part in.                                   *)
LEMMA LocalFollows ==
    ASSUME FollowInv, HistoryInv', Remembers, Traces, NEW r \in Reqs,
           \/ Arrive(r) \/ Activate(r)
           \/ SelectClose(r) \/ SelectUpdateUser(r) \/ SelectCreate(r)
           \/ CancelUpdateUser(r) \/ CancelClose(r)
    PROVE  FollowInv'
<1>1. TypeOK /\ StripeInv /\ Knows(r) /\ Wrote(r)
  BY DEF FollowInv, HistoryInv
<1>2. UNCHANGED <<stripe, log>>
  BY DEF Arrive, SelectUserPlan, CancelUserSubscription, RevenueCat, AdminUpdateUser, ActivateUser,
         Activate, SelectClose, SelectUpdateUser, SelectCreate, CancelUpdateUser, CancelClose,
         state, external
<1>3. req[r].pc \notin Asking \cup Syncing \cup {"stripe_cancel"}
  BY DEF Arrive, SelectUserPlan, CancelUserSubscription, RevenueCat, AdminUpdateUser,
         ActivateUser, MayStart, Activate, SelectClose, SelectUpdateUser, SelectCreate,
         CancelUpdateUser, CancelClose, At, Asking, Syncing, Failing
<1>4. ~Synchronised(r)
  BY <1>3 DEF Synchronised, SyncUpdate, SyncCreate, At, Syncing
<1>5. req[r].event = 0 /\ own[r] = 0 /\ own'[r] = 0
  BY <1>1, <1>3 DEF Knows, Traces, At
<1>6. UNCHANGED answered
  BY <1>5 DEF Arrive, SelectUserPlan, CancelUserSubscription, RevenueCat, AdminUpdateUser,
         ActivateUser, MayStart, Activate, SelectClose, SelectUpdateUser, SelectCreate,
         CancelUpdateUser, CancelClose, Finish
<1>7. /\ req'[r].pc \notin Asking \cup Syncing /\ req'[r].event = 0
      /\ req'[r].sub \in {NULL, req[r].sub, user.stripe}
      /\ req'[r].pc = "stripe_cancel" => req'[r].status = "canceled"
  <2>1. CASE SelectUserPlan(r)
    BY <1>1, <2>1, Becomes DEF SelectUserPlan, Asking, Syncing, Failing
  <2>2. CASE CancelUserSubscription(r)
    BY <1>1, <2>2, Becomes DEF CancelUserSubscription, Asking, Syncing, Failing
  <2>3. CASE ActivateUser(r)
    BY <1>1, <2>3, Becomes DEF ActivateUser, Asking, Syncing, Failing
  <2>4. CASE RevenueCat(r) \/ AdminUpdateUser(r)
    BY <1>3, <1>5, <2>4 DEF RevenueCat, AdminUpdateUser
  <2>5. CASE SelectClose(r) \/ SelectUpdateUser(r) \/ CancelUpdateUser(r)
    BY <1>1, <1>5, <2>5, Becomes
    DEF SelectClose, SelectUpdateUser, CancelUpdateUser, Asking, Syncing, Failing
  <2>6. CASE SelectCreate(r) \/ CancelClose(r) \/ Activate(r)
    <3>1. req'[r] = Idle
      BY <1>1, <2>6, Becomes DEF SelectCreate, CancelClose, Activate
    <3> QED
      BY <3>1 DEF Idle, Asking, Syncing, Failing
  <2> QED
    BY <2>1, <2>2, <2>3, <2>4, <2>5, <2>6 DEF Arrive
<1>8. user'.stripe \in {NULL, user.stripe}
  <2>1. user \in Users
    BY <1>1 DEF TypeOK
  <2>2. CASE UNCHANGED user
    BY <2>2
  <2>3. CASE RevenueCat(r) \/ AdminUpdateUser(r) \/ Activate(r) \/ SelectUpdateUser(r)
    BY <2>1, <2>3 DEF RevenueCat, AdminUpdateUser, Activate, SelectUpdateUser, Users
  <2>4. CASE CancelUpdateUser(r)
    BY <2>4 DEF CancelUpdateUser
  <2>5. \/ UNCHANGED user \/ CancelUpdateUser(r)
        \/ RevenueCat(r) \/ AdminUpdateUser(r) \/ Activate(r) \/ SelectUpdateUser(r)
    BY DEF Arrive, SelectUserPlan, CancelUserSubscription, ActivateUser, SelectClose, SelectCreate,
           CancelClose, state
  <2> QED
    BY <2>2, <2>3, <2>4, <2>5
<1>9. Knows(r)' /\ Wrote(r)'
  BY <1>5, <1>7 DEF Knows, Wrote, Asking, Syncing, HalfDone
<1>10. Acts(r)
  BY DEF Acts, Step
<1> QED
  BY <1>1, <1>2, <1>3, <1>4, <1>6, <1>7, <1>8, <1>9, <1>10, PlainStep DEF StripeInv

LEMMA FailFollows ==
    ASSUME FollowInv, HistoryInv', Remembers, Traces, NEW r \in Reqs,
           ~Synchronised(r), Abort(r), UNCHANGED <<state, external>>, Acts(r)
    PROVE  FollowInv'
<1>1. TypeOK /\ StripeInv /\ UNCHANGED <<stripe, log, answered, user>>
  BY DEF FollowInv, HistoryInv, external, state, Abort
<1>2. req'[r] = Idle
  BY <1>1, Becomes
<1> QED
  BY <1>1, <1>2, IdleKnows, PlainStep DEF StripeInv

(* The steps of a synchronisation but the last.                            *)
LEMMA SyncingFollows ==
    ASSUME FollowInv, HistoryInv', Remembers, Traces, NEW r \in Reqs,
           SyncUpdateUser(r) \/ SyncFind(r) \/ SyncClose(r)
    PROVE  FollowInv'
<1>1. UNCHANGED <<stripe, log, answered>>
  BY DEF SyncUpdateUser, SyncFind, SyncClose, external
<1>2. TypeOK /\ StripeInv /\ Knows(r) /\ Wrote(r) /\ Prepared(r)
  BY DEF FollowInv, HistoryInv, TypeOK
<1>3. /\ req[r].pc \in {"sync_user", "sync_find", "sync_close"}
      /\ req'[r].pc \in HalfDone
      /\ req'[r].pc \in {"sync_update", "sync_create"} => req[r].pc \notin Relying
      /\ req'[r].sub = req[r].sub /\ req'[r].status = req[r].status /\ req'[r].event = req[r].event
  <2>1. CASE SyncUpdateUser(r) \/ SyncClose(r)
    BY <1>2, <2>1, Becomes DEF SyncUpdateUser, SyncClose, At, HalfDone, Relying
  <2>2. CASE SyncFind(r)
    BY <1>2, <2>2 DEF SyncFind, At, HalfDone, Relying, TypeOK, Locals
  <2> QED
    BY <2>1, <2>2
<1>4. req[r].sub \in SubIds /\ req[r].sub # NULL /\ stripe[req[r].sub] # NULL
  BY <1>2, <1>3, NullAssumption DEF Prepared, StripeInv, Syncing
<1>5. req[r].pc = "sync_user" => user' = [plan |-> TRUE, status |-> req[r].status, stripe |-> req[r].sub]
  BY DEF SyncUpdateUser, SyncFind, SyncClose, At
<1>6. req[r].pc # "sync_user" => user' = user
  BY DEF SyncUpdateUser, SyncFind, SyncClose, At, state
<1>7. own'[r] = own[r]
  BY <1>3 DEF Traces, At, HalfDone
<1>8. Knows(r)'
  BY <1>1, <1>2, <1>3, <1>7, LogStays DEF Knows, News, Asking, Syncing, Failing, HalfDone
<1>9. Wrote(r)'
  <2>1. r \notin outdated' \/ req'[r].pc \notin {"sync_update", "sync_create"}
    BY <1>3 DEF Remembers, Behind
  <2>2. r \notin mixed' => req[r].pc = "sync_user" \/ r \notin mixed
    BY <1>3 DEF Traces, Behind, HalfDone
  <2> QED
    BY <1>2, <1>3, <1>5, <1>6, <2>1, <2>2 DEF Wrote, HalfDone
<1>10. ~Synchronised(r) /\ Acts(r)
  BY <1>3 DEF Synchronised, SyncUpdate, SyncCreate, At, Acts, Step
<1>11. user'.stripe # NULL => stripe[user'.stripe] # NULL
  BY <1>2, <1>3, <1>4, <1>5, <1>6 DEF StripeInv
<1>12. req[r].pc \notin Asking
  BY <1>3 DEF Asking, Failing
<1> QED
  BY <1>1, <1>3, <1>4, <1>8, <1>9, <1>10, <1>11, <1>12, PlainStep

-----------------------------------------------------------------------------
(* When a synchronisation ends that nobody disturbed, the history shows    *)
(* the subscription it was about, as the user does.                        *)
LEMMA RowShows ==
    ASSUME HistoryInv, NEW r \in Reqs, Synchronised(r), r \notin outdated, ~spoilt
    PROVE  \E n \in DOMAIN history' :
              /\ history'[n] = StripeRow(r)
              /\ \A m \in DOMAIN history' \ {n} : ~history'[m].current
<1>1. /\ TypeOK /\ Single /\ Cleared(r) /\ Held(r) /\ Prepared(r)
      /\ req[r].pc \in {"sync_update", "sync_create"}
  BY DEF HistoryInv, TypeOK, Synchronised, SyncUpdate, SyncCreate, At
<1>2. history \in Seq(Rows) /\ StripeRow(r) \in Rows
  BY <1>1, RowOfStripe DEF TypeOK, Syncing
<1>3. CASE SyncUpdate(r)
  <2>1. req[r].row \in DOMAIN history /\ history[req[r].row].current
    BY <1>1, <1>3 DEF SyncUpdate, At, Prepared, Held
  <2>2. \A m \in DOMAIN history \ {req[r].row} : ~history[m].current
    BY <1>1, <2>1 DEF Single, Current
  <2>3. /\ DOMAIN history' = DOMAIN history /\ history'[req[r].row] = StripeRow(r)
        /\ \A m \in DOMAIN history \ {req[r].row} : history'[m] = history[m]
    BY <1>2, <1>3, <2>1, Updated DEF SyncUpdate
  <2> QED
    BY <2>1, <2>2, <2>3
<1>4. CASE SyncCreate(r)
  <2>1. \A m \in DOMAIN history : ~history[m].current
    BY <1>1, <1>4 DEF SyncCreate, At, Cleared, Current
  <2>2. /\ DOMAIN history' = DOMAIN history \cup {Len(history) + 1}
        /\ \A m \in DOMAIN history : history'[m] = history[m]
        /\ history'[Len(history) + 1] = StripeRow(r)
    BY <1>2, <1>4, Appended DEF SyncCreate
  <2> QED
    BY <2>1, <2>2
<1> QED
  BY <1>3, <1>4 DEF Synchronised

LEMMA SyncedFollows ==
    ASSUME FollowInv, HistoryInv', Remembers, Traces, NEW r \in Reqs, Synchronised(r)
    PROVE  FollowInv'
<1>1. UNCHANGED <<user, stripe, log>> /\ Finish(r) /\ req[r].pc \in {"sync_update", "sync_create"}
  BY DEF Synchronised, SyncUpdate, SyncCreate, external, At
<1>2. TypeOK /\ StripeInv /\ Knows(r) /\ Wrote(r) /\ Prepared(r)
  BY DEF FollowInv, HistoryInv, TypeOK
<1>3. req'[r] = Idle /\ answered' = answered \cup ({req[r].event} \ {0})
  BY <1>1, <1>2, Becomes DEF Finish
<1>4. Acts(r)
  BY DEF Synchronised, Acts, Step
<1>5. StripeInv'
  BY <1>1, <1>2, <1>3, <1>4, IdleKnows, StripeKeeps DEF StripeInv
<1>6. answered' \subseteq DOMAIN log'
  BY <1>1, <1>2, <1>3 DEF FollowInv, Prepared
<1>7. ASSUME ~drifted', Told', NEW s \in SubIds, Latest(s) PROVE Follows(s)'
  <2>1. ~spoilt /\ ~Late(r) /\ r \notin mixed
    BY <1>7 DEF Traces
  <2>2. r \notin outdated
    BY <1>1, <1>2, <2>1 DEF Wrote
  <2>3. user = [plan |-> TRUE, status |-> req[r].status, stripe |-> req[r].sub]
    BY <1>1, <1>2, <2>1 DEF Wrote, HalfDone
  <2>4. Len(log) \in Nat /\ News(r) \in 1 .. Len(log) /\ log[News(r)].type # "failed"
    BY <1>1, <1>2, LogShape DEF Knows, Syncing
  <2>5. Tells(News(r))
    <3>1. PICK n \in answered' : Tells(n)
      BY <1>1, <1>7, LogStays DEF Told
    <3>2. n \in 1 .. Len(log)
      BY <1>1, <1>2, <1>6, LogShape
    <3>3. n <= News(r)
      <4>1. CASE n \in answered
        BY <2>1, <2>4, <3>2, <4>1 DEF Late
      <4>2. CASE n \notin answered
        BY <1>3, <2>4, <3>1, <4>2 DEF News
      <4> QED
        BY <4>1, <4>2
    <3>4. CASE n = News(r)
      BY <3>1, <3>4
    <3>5. CASE n < News(r)
      <4>1. n = Len(log) - 1 /\ log[Len(log)].type = "failed"
        BY <2>4, <3>1, <3>2, <3>5 DEF Tells
      <4> QED
        BY <2>4, <3>2, <3>5, <4>1
    <3> QED
      BY <2>4, <3>2, <3>3, <3>4, <3>5
  <2>6. req[r].sub = s /\ req[r].status = MapStripeStatus(stripe[s])
    BY <1>1, <1>2, <1>7, <2>5 DEF Knows, Syncing
  <2>7. PICK n \in DOMAIN history' : /\ history'[n] = StripeRow(r)
                                     /\ \A m \in DOMAIN history' \ {n} : ~history'[m].current
    BY <2>1, <2>2, RowShows DEF FollowInv
  <2>8. /\ StripeRow(r).stripe = s /\ StripeRow(r).status = req[r].status
        /\ StripeRow(r).current <=> stripe[s] # "canceled"
    <3>1. stripe[s] \in StripeStatuses
      BY <1>2, <1>7 DEF TypeOK, Latest
    <3> QED
      BY <2>6, <3>1, MapIs DEF StripeRow
  <2>9. CASE stripe[s] = "canceled"
    <3>1. Current' = {}
      BY <2>7, <2>8, <2>9 DEF Current
    <3> QED
      BY <1>1, <2>3, <2>6, <2>9, <3>1 DEF Follows
  <2>10. CASE stripe[s] # "canceled"
    <3>1. Current' = {n} /\ n \in Current'
      BY <2>7, <2>8, <2>10 DEF Current
    <3> QED
      BY <1>1, <2>3, <2>6, <2>7, <2>8, <2>10, <3>1 DEF Follows
  <2> QED
    BY <2>9, <2>10
<1>8. Told' => FollowsLatest' \/ drifted'
  BY <1>1, <1>7, LogStays DEF FollowsLatest, Latest
<1> QED
  BY <1>1, <1>3, <1>4, <1>5, <1>6, <1>8, IdleKnows, FollowStep

-----------------------------------------------------------------------------
(* A failed payment that is not overtaken tells what is known already.     *)
LEMMA FailingKnows ==
    ASSUME FollowInv, NEW r \in Reqs, req[r].pc \in Failing, ~Overtaken(r), Told, ~drifted,
           NEW s \in SubIds, Latest(s)
    PROVE  Follows(s) /\ stripe[s] = "past_due" /\ req[r].sub = s /\ user.status = "suspended"
<1>1. TypeOK /\ LogEnd(s) /\ Knows(r) /\ Prepared(r)
  BY DEF FollowInv, HistoryInv, StripeInv, TypeOK
<1>2. PICK e \in DOMAIN log :
         e = req[r].event /\ e = News(r) /\ log[e].type = "failed" /\ req[r].sub = log[e].sub
  BY <1>1 DEF Knows, Asking, Failing, Prepared, News
<1>3. Len(log) \in Nat /\ e \in 1 .. Len(log) /\ \A m \in answered : m \in 1 .. Len(log)
  BY <1>1, <1>2, LogShape DEF FollowInv
<1>4. PICK m \in answered : Tells(m)
  BY DEF Told
<1>5. m < e
  BY <1>2, <1>3 DEF Overtaken
<1>6. e = Len(log)
  BY <1>3, <1>4, <1>5 DEF Tells
<1>7. req[r].sub = s /\ stripe[s] = "past_due"
  BY <1>1, <1>2, <1>6 DEF LogEnd
<1>8. Follows(s)
  BY DEF FollowInv, FollowsLatest, Latest
<1> QED
  BY <1>7, <1>8, MapIs DEF Follows

LEMMA FailingFollows ==
    ASSUME FollowInv, HistoryInv', Remembers, Traces, NEW r \in Reqs,
           FailedFindUser(r) \/ FailedUpdateUser(r) \/ FailedFind(r) \/ FailedUpdate(r)
    PROVE  FollowInv'
<1>1. UNCHANGED <<stripe, log>> /\ req[r].pc \in Failing
  BY DEF FailedFindUser, FailedUpdateUser, FailedFind, FailedUpdate, external, state, At, Failing
<1>2. TypeOK /\ StripeInv /\ Knows(r) /\ Prepared(r) /\ Acts(r)
  BY DEF FollowInv, HistoryInv, TypeOK, Acts, Step
<1>3. \/ Finish(r) /\ req'[r] = Idle
      \/ /\ UNCHANGED answered /\ req'[r].pc \in {"failed_user", "failed_find", "failed_update"}
         /\ req'[r].sub = req[r].sub /\ req'[r].event = req[r].event
  <2>1. CASE FailedFindUser(r) \/ FailedUpdateUser(r)
    BY <1>2, <2>1, Becomes DEF FailedFindUser, FailedUpdateUser
  <2>2. CASE FailedFind(r)
    BY <1>2, <2>2, Becomes DEF FailedFind, TypeOK, Locals
  <2>3. CASE FailedUpdate(r)
    BY <1>2, <2>3, Becomes DEF FailedUpdate
  <2> QED
    BY <2>1, <2>2, <2>3
<1>4. Knows(r)' /\ Wrote(r)' /\ (req'[r].sub # NULL => stripe[req'[r].sub] # NULL)
  <2>1. CASE req'[r] = Idle
    BY <2>1, IdleKnows
  <2>2. CASE /\ UNCHANGED answered /\ req'[r].pc \in {"failed_user", "failed_find", "failed_update"}
             /\ req'[r].sub = req[r].sub /\ req'[r].event = req[r].event
    BY <1>1, <1>2, <2>2 DEF Knows, Wrote, Asking, Syncing, Failing, HalfDone, StripeInv
  <2> QED
    BY <1>3, <2>1, <2>2
<1>5. user'.plan = user.plan /\ user'.stripe = user.stripe /\ user'.status \in {user.status, "suspended"}
  BY <1>2 DEF FailedFindUser, FailedUpdateUser, FailedFind, FailedUpdate, state, TypeOK, Users
<1>6. StripeInv'
  BY <1>1, <1>2, <1>4, <1>5, StripeKeeps DEF StripeInv
<1>7. answered' \subseteq DOMAIN log'
  BY <1>1, <1>2, <1>3 DEF FollowInv, Finish, Prepared
<1>8. ~Synchronised(r)
  BY <1>1 DEF Synchronised, SyncUpdate, SyncCreate, At, Failing
<1>9. ASSUME Told', NEW s \in SubIds, Latest(s) PROVE Told
  <2>1. PICK n \in answered' : Tells(n)
    BY <1>1, <1>9, LogStays DEF Told
  <2>2. n # req[r].event
    <3>1. req[r].event \in 1 .. Len(log) /\ log[req[r].event].type = "failed" /\ Len(log) \in Nat
      BY <1>1, <1>2, LogShape DEF Knows, Asking, Failing, Prepared
    <3>2. LogEnd(s)
      BY <1>2, <1>9 DEF StripeInv
    <3> QED
      BY <2>1, <3>1, <3>2 DEF Tells, LogEnd, Says
  <2>3. n \in answered
    BY <1>3, <2>1, <2>2 DEF Finish
  <2> QED
    BY <2>1, <2>3 DEF Told
<1>10. ASSUME Told', ~drifted', NEW s \in SubIds, Latest(s) PROVE Follows(s)'
  <2>1. ~drifted /\ (UNCHANGED state \/ ~Overtaken(r)) /\ Told
    BY <1>2, <1>8, <1>9, <1>10, Alone
  <2>2. CASE UNCHANGED state
    <3>1. Follows(s)
      BY <1>10, <2>1 DEF FollowInv, FollowsLatest, Latest
    <3> QED
      BY <1>1, <2>2, <3>1 DEF Follows, Current, state
  <2>3. CASE ~Overtaken(r)
    <3>1. Follows(s) /\ stripe[s] = "past_due" /\ user.status = "suspended"
      BY <1>1, <1>10, <2>1, <2>3, FailingKnows
    <3>2. PICK n : n \in DOMAIN history /\ Current = {n} /\ history[n].stripe = s
                   /\ history[n].status = "suspended"
      BY <3>1 DEF Follows, Current
    <3>3. Current' = Current /\ history'[n].stripe = s /\ history'[n].status = "suspended"
      <4>1. CASE FailedUpdate(r)
        <5> DEFINE row == [history[req[r].row] EXCEPT !.status = "suspended"]
        <5>1. history \in Seq(Rows) /\ req[r].row \in DOMAIN history
          BY <1>2, <4>1 DEF TypeOK, FailedUpdate, At, Prepared
        <5>2. history[req[r].row] \in Rows
          BY <5>1, LenProperties, ElementOfSeq
        <5>3. /\ row \in Rows /\ row.current = history[req[r].row].current
              /\ row.stripe = history[req[r].row].stripe /\ row.status = "suspended"
          BY <5>2 DEF Rows, Statuses
        <5>4. history' = [history EXCEPT ![req[r].row] = row]
          BY <4>1 DEF FailedUpdate
        <5> HIDE DEF row
        <5>5. /\ DOMAIN history' = DOMAIN history /\ history'[req[r].row] = row
              /\ \A m \in DOMAIN history \ {req[r].row} : history'[m] = history[m]
          BY <5>1, <5>3, <5>4, Updated
        <5>6. Current' = Current
          BY <5>1, <5>3, <5>5 DEF Current
        <5> QED
          BY <3>2, <5>3, <5>5, <5>6
      <4>2. CASE FailedFindUser(r) \/ FailedUpdateUser(r) \/ FailedFind(r)
        <5>1. history' = history
          BY <4>2 DEF FailedFindUser, FailedUpdateUser, FailedFind, state
        <5> QED
          BY <3>2, <5>1 DEF Current
      <4> QED
        BY <4>1, <4>2
    <3>4. user'.status = user.status
      BY <1>5, <3>1
    <3>5. n \in Current'
      BY <3>2, <3>3
    <3> QED
      BY <1>1, <1>5, <3>1, <3>2, <3>3, <3>4, <3>5, NullAssumption DEF Follows
  <2> QED
    BY <2>1, <2>2, <2>3
<1>11. Told' => FollowsLatest' \/ drifted'
  BY <1>1, <1>10 DEF FollowsLatest, Latest
<1> QED
  BY <1>1, <1>2, <1>4, <1>6, <1>7, <1>11, FollowStep

-----------------------------------------------------------------------------
(* A change at Stripe is reported by events that come after all others.    *)
Reported(s) ==
    /\ \E st \in StripeStatuses : stripe' = [stripe EXCEPT ![s] = st]
    /\ \A t \in SubIds : (t < s => stripe[t] = "canceled") /\ (t > s => stripe[t] = NULL)
    /\ Len(log') > Len(log)
    /\ \A n \in DOMAIN log : log'[n] = log[n]
    /\ \A n \in DOMAIN log' \ DOMAIN log : log'[n].sub = s
    /\ log'[Len(log')].type = "failed" => Len(log') > Len(log) + 1
    /\ LogEnd(s)'
    /\ UNCHANGED <<user, history, answered>>

LEMMA ReportedFollows ==
    ASSUME FollowInv, TypeOK', NEW s \in SubIds, Reported(s)
    PROVE  /\ answered' \subseteq DOMAIN log' /\ ~Told' /\ Newer
           /\ (\A r \in Reqs : req'[r].sub = req[r].sub) => StripeInv'
<1>1. TypeOK /\ StripeInv /\ answered \subseteq DOMAIN log
  BY DEF FollowInv, HistoryInv
<1>2. /\ Len(log) \in Nat /\ DOMAIN log = 1 .. Len(log)
      /\ Len(log') \in Nat /\ DOMAIN log' = 1 .. Len(log')
  <2>1. log' \in Seq(Events)
    BY DEF TypeOK
  <2> QED
    BY <1>1, <2>1, LogShape, LenProperties
<1>3. answered' \subseteq DOMAIN log'
  BY <1>1, <1>2 DEF Reported
<1>4. \A n \in DOMAIN log : ~Tells(n)'
  BY <1>2 DEF Tells, Reported
<1>5. ~Told'
  BY <1>1, <1>4 DEF Told, Reported
<1>6. Newer
  BY <1>2, <1>4 DEF Newer, Reported
<1>7. PICK st \in StripeStatuses : stripe' = [stripe EXCEPT ![s] = st]
  BY DEF Reported
<1>8. st # NULL /\ DOMAIN stripe = SubIds
  BY <1>1, NullAssumption DEF TypeOK
<1>9. stripe'[s] = st /\ \A t \in SubIds \ {s} : stripe'[t] = stripe[t]
  BY <1>7, <1>8
<1>10. \A t \in SubIds : stripe[t] # NULL => stripe'[t] # NULL
  BY <1>8, <1>9
<1>11. ASSUME \A r \in Reqs : req'[r].sub = req[r].sub PROVE StripeInv'
  <2>1. \A t \in SubIds : (t < s => stripe[t] = "canceled") /\ (t > s => stripe[t] = NULL)
    BY DEF Reported
  <2>2. ASSUME NEW t \in SubIds, NEW u \in SubIds, u < t, stripe'[t] # NULL
        PROVE  stripe'[u] = "canceled"
    <3>1. u < s /\ u # s
      BY <1>9, <2>1, <2>2, SubIdsAssumption
    <3> QED
      BY <1>9, <2>1, <3>1
  <2>3. ASSUME NEW t \in SubIds, Latest(t)' PROVE LogEnd(t)'
    <3>1. t = s
      <4>1. t < s \/ t = s \/ t > s
        BY SubIdsAssumption
      <4>2. ~(t < s)
        BY <1>8, <1>9, <2>3 DEF Latest
      <4>3. ~(t > s)
        BY <1>9, <2>1, <2>3, SubIdsAssumption DEF Latest
      <4> QED
        BY <4>1, <4>2, <4>3
    <3> QED
      BY <3>1 DEF Reported
  <2>4. \A n \in DOMAIN log' : stripe'[log'[n].sub] # NULL
    <3>1. \A n \in DOMAIN log : stripe'[log[n].sub] # NULL
      BY <1>1, <1>10, LogShape DEF StripeInv, Events
    <3> QED
      BY <1>8, <1>9, <3>1 DEF Reported
  <2>5. \A r \in Reqs : req'[r].sub # NULL => stripe'[req'[r].sub] # NULL
    BY <1>1, <1>10, <1>11 DEF StripeInv, TypeOK, Locals
  <2>6. user'.stripe # NULL => stripe'[user'.stripe] # NULL
    BY <1>1, <1>10 DEF StripeInv, Reported, TypeOK, Users
  <2> QED
    BY <2>2, <2>3, <2>4, <2>5, <2>6 DEF StripeInv
<1> QED
  BY <1>3, <1>5, <1>6, <1>11

(* The events of a change, behind those the log has.                       *)
LEMMA Reports ==
    ASSUME TypeOK, NEW s \in SubIds, NEW st \in StripeStatuses,
           stripe' = [stripe EXCEPT ![s] = st],
           \A t \in SubIds : (t < s => stripe[t] = "canceled") /\ (t > s => stripe[t] = NULL),
           UNCHANGED <<user, history, answered>>,
           \/ log' = Append(log, Event("subscription", s, st))
           \/ log' = log \o <<Event("subscription", s, st)>>
           \/ log' = log \o <<Event("checkout", s, st), Event("subscription", s, st)>>
           \/ log' = log \o <<Event("subscription", s, st), Event("paid", s, st)>>
           \/ /\ log' = log \o <<Event("subscription", s, st), Event("failed", s, st)>>
              /\ st = "past_due"
    PROVE  Reported(s)
<1>1. log \in Seq(Events) /\ Len(log) \in Nat /\ DOMAIN log = 1 .. Len(log)
  BY LogShape DEF TypeOK
<1>2. \A type \in EventTypes : Event(type, s, st) \in Events
  BY DEF Event, Events
<1>3. PICK a, b, c, d \in Events :
         /\ a = Event("subscription", s, st) /\ b = Event("checkout", s, st)
         /\ c = Event("paid", s, st) /\ d = Event("failed", s, st)
  BY <1>2 DEF EventTypes
<1>4. stripe'[s] = st
  BY DEF TypeOK
<1>5. /\ a.type = "subscription" /\ a.sub = s /\ a.status = st
      /\ b.type = "checkout" /\ b.sub = s /\ c.type = "paid" /\ c.sub = s
      /\ d.type = "failed" /\ d.sub = s
  BY <1>3 DEF Event
<1>6. CASE \/ log' = Append(log, Event("subscription", s, st))
           \/ log' = log \o <<Event("subscription", s, st)>>
  <2>1. log' = Append(log, a)
    BY <1>1, <1>3, <1>6, AppendIsConcat
  <2>2. /\ Len(log') = Len(log) + 1 /\ log'[Len(log) + 1] = a
        /\ \A n \in DOMAIN log : log'[n] = log[n]
    BY <1>1, <2>1, AppendProperties
  <2>3. DOMAIN log' = 1 .. Len(log')
    BY <1>1, <2>1, AppendProperties, LenProperties
  <2>4. LogEnd(s)'
    BY <1>1, <1>4, <1>5, <2>2 DEF LogEnd, Says
  <2>5. \A n \in DOMAIN log' \ DOMAIN log : log'[n].sub = s
    BY <1>1, <1>5, <2>2, <2>3
  <2>6. Len(log') > Len(log) /\ log'[Len(log')].type # "failed"
    BY <1>1, <1>5, <2>2
  <2> QED
    BY <2>2, <2>4, <2>5, <2>6 DEF Reported
<1>7. ASSUME NEW e \in Events, NEW f \in Events, log' = log \o <<e, f>>
      PROVE  /\ Len(log') = Len(log) + 2 /\ DOMAIN log' = 1 .. Len(log')
             /\ log'[Len(log) + 1] = e /\ log'[Len(log) + 2] = f
             /\ \A n \in DOMAIN log : log'[n] = log[n]
  <2>1. PICK two \in Seq(Events) : two = <<e, f>> /\ Len(two) = 2 /\ two[1] = e /\ two[2] = f
    <3>1. <<e, f>> \in Seq(Events)
      OBVIOUS
    <3>2. Len(<<e, f>>) = 2 /\ <<e, f>>[1] = e /\ <<e, f>>[2] = f
      OBVIOUS
    <3> QED
      BY <3>1, <3>2, Zenon
  <2>2. log' \in Seq(Events) /\ Len(log') = Len(log) + 2
    BY <1>1, <1>7, <2>1, ConcatProperties
  <2>3. \A n \in 1 .. Len(log) + 2 : log'[n] = IF n <= Len(log) THEN log[n] ELSE two[n - Len(log)]
    BY <1>1, <1>7, <2>1, ConcatProperties
  <2>4. log'[Len(log) + 1] = e /\ log'[Len(log) + 2] = f
    <3>1. /\ Len(log) + 1 \in 1 .. Len(log) + 2 /\ ~(Len(log) + 1 <= Len(log))
          /\ Len(log) + 2 \in 1 .. Len(log) + 2 /\ ~(Len(log) + 2 <= Len(log))
      BY <1>1
    <3>2. (Len(log) + 1) - Len(log) = 1 /\ (Len(log) + 2) - Len(log) = 2
      BY <1>1
    <3> QED
      BY <2>1, <2>3, <3>1, <3>2, Zenon
  <2> QED
    BY <1>1, <2>2, <2>3, <2>4, LenProperties
<1>8. CASE log' = log \o <<b, a>>
  <2>1. /\ Len(log') = Len(log) + 2 /\ DOMAIN log' = 1 .. Len(log')
        /\ log'[Len(log) + 1] = b /\ log'[Len(log) + 2] = a
        /\ \A n \in DOMAIN log : log'[n] = log[n]
    BY <1>7, <1>8
  <2>2. log'[Len(log')] = a /\ Len(log') >= 1 /\ Len(log') > Len(log)
    BY <1>1, <2>1
  <2>3. LogEnd(s)'
    BY <1>4, <1>5, <2>2 DEF LogEnd, Says
  <2>4. \A n \in DOMAIN log' \ DOMAIN log : log'[n].sub = s
    BY <1>1, <1>5, <2>1
  <2> QED
    BY <1>5, <2>1, <2>2, <2>3, <2>4 DEF Reported
<1>9. CASE \/ log' = log \o <<a, c>>
           \/ log' = log \o <<a, d>> /\ st = "past_due"
  <2>1. PICK f \in Events : /\ log' = log \o <<a, f>> /\ f.type \in {"paid", "failed"} /\ f.sub = s
                            /\ f.type = "failed" => st = "past_due"
    BY <1>5, <1>9
  <2>2. /\ Len(log') = Len(log) + 2 /\ DOMAIN log' = 1 .. Len(log')
        /\ log'[Len(log) + 1] = a /\ log'[Len(log) + 2] = f
        /\ \A n \in DOMAIN log : log'[n] = log[n]
    BY <1>7, <2>1
  <2>3. /\ log'[Len(log') - 1] = a /\ log'[Len(log')] = f
        /\ Len(log') >= 2 /\ Len(log') > Len(log) + 1
    BY <1>1, <2>2
  <2>4. LogEnd(s)'
    BY <1>4, <1>5, <2>1, <2>3 DEF LogEnd, Says
  <2>5. \A n \in DOMAIN log' \ DOMAIN log : log'[n].sub = s
    BY <1>1, <1>5, <2>1, <2>2
  <2>6. Len(log') > Len(log)
    BY <1>1, <2>2
  <2> QED
    BY <2>2, <2>3, <2>4, <2>5, <2>6 DEF Reported
<1> QED
  BY <1>3, <1>6, <1>8, <1>9

(* A subscription that lives comes after the canceled ones.                *)
LEMMA Ladder ==
    ASSUME FollowInv, NEW s \in SubIds, stripe[s] \notin {NULL, "canceled"}
    PROVE  \A t \in SubIds : (t < s => stripe[t] = "canceled") /\ (t > s => stripe[t] = NULL)
<1>1. \A t, u \in SubIds : u < t /\ stripe[t] # NULL => stripe[u] = "canceled"
  BY DEF FollowInv, StripeInv
<1>2. \A t \in SubIds : t > s => s < t
  BY SubIdsAssumption
<1> QED
  BY <1>1, <1>2

LEMMA StripeFollows ==
    ASSUME FollowInv, HistoryInv', Remembers, Traces, NEW s \in SubIds, Stripe(s)
    PROVE  FollowInv'
<1>1. TypeOK /\ TypeOK' /\ \A r \in Reqs : Knows(r) /\ Wrote(r)
  BY DEF FollowInv, HistoryInv
<1>2. UNCHANGED <<user, history, answered, req>>
  BY DEF Stripe, Subscribe, Renew, PaymentFails, Recover, End, Send, state
<1>3. Reported(s)
  <2>1. CASE Subscribe(s)
    <3>1. \A t \in SubIds : (t < s => stripe[t] = "canceled") /\ (t > s => stripe[t] = NULL)
      BY <2>1, SubIdsAssumption DEF Subscribe
    <3>2. PICK st \in {"trialing", "active"} :
             /\ stripe' = [stripe EXCEPT ![s] = st]
             /\ log' = log \o <<Event("checkout", s, st), Event("subscription", s, st)>>
      BY <2>1 DEF Subscribe, Send
    <3> QED
      BY <1>1, <1>2, <3>1, <3>2, Reports DEF StripeStatuses
  <2>2. CASE Renew(s) \/ PaymentFails(s) \/ Recover(s) \/ End(s)
    <3>1. stripe[s] \notin {NULL, "canceled"}
      BY <2>2, NullAssumption DEF Renew, PaymentFails, Recover, End, StripeStatuses
    <3>2. \A t \in SubIds : (t < s => stripe[t] = "canceled") /\ (t > s => stripe[t] = NULL)
      BY <3>1, Ladder
    <3>3. CASE Renew(s) \/ Recover(s)
      BY <1>1, <1>2, <3>2, <3>3, Reports DEF Renew, Recover, Send, StripeStatuses
    <3>4. CASE PaymentFails(s)
      BY <1>1, <1>2, <3>2, <3>4, Reports DEF PaymentFails, Send, StripeStatuses
    <3>5. CASE End(s)
      BY <1>1, <1>2, <3>2, <3>5, Reports DEF End, Send, StripeStatuses
    <3> QED
      BY <2>2, <3>3, <3>4, <3>5
  <2> QED
    BY <2>1, <2>2 DEF Stripe
<1>4. /\ answered' \subseteq DOMAIN log' /\ ~Told' /\ Newer
      /\ (\A r \in Reqs : req'[r].sub = req[r].sub) => StripeInv'
  BY <1>1, <1>3, ReportedFollows
<1>5. \A r \in Reqs : Knows(r)' /\ Wrote(r)'
  BY <1>1, <1>2, <1>4, Waiting
<1> QED
  BY <1>2, <1>4, <1>5 DEF FollowInv

(* A cancellation is a change at Stripe that the request knows of itself.  *)
LEMMA StripeCancelFollows ==
    ASSUME FollowInv, HistoryInv', Remembers, Traces, NEW r \in Reqs, StripeCancel(r)
    PROVE  FollowInv'
<1>1. TypeOK /\ TypeOK' /\ StripeInv /\ Knows(r) /\ Prepared(r)
  BY DEF FollowInv, HistoryInv, TypeOK
<1>2. req[r].pc = "stripe_cancel" /\ Acts(r) /\ ~Synchronised(r)
  BY DEF StripeCancel, At, Acts, Step, Synchronised, SyncUpdate, SyncCreate
<1>3. PICK s \in SubIds : req[r].sub = s /\ req[r].event = 0
  BY <1>1, <1>2 DEF Prepared, Knows, Asking, Syncing, Failing
<1>4. stripe[s] # NULL
  BY <1>1, <1>3, NullAssumption DEF StripeInv
<1>5. UNCHANGED <<user, history, state>>
  BY DEF StripeCancel, state
<1>6. CASE stripe[s] = "canceled"
  <2>1. Abort(r) /\ UNCHANGED external
    BY <1>3, <1>6 DEF StripeCancel
  <2> QED
    BY <1>2, <1>5, <2>1, FailFollows
<1>7. CASE stripe[s] # "canceled"
  <2>1. /\ stripe' = [stripe EXCEPT ![s] = "canceled"]
        /\ log' = Append(log, Event("subscription", s, "canceled"))
        /\ Goto(r, "sync_user") /\ UNCHANGED answered
    BY <1>3, <1>7 DEF StripeCancel, Event
  <2>2. \A t \in SubIds : (t < s => stripe[t] = "canceled") /\ (t > s => stripe[t] = NULL)
    BY <1>4, <1>7, Ladder
  <2>3. Reported(s)
    BY <1>1, <1>5, <2>1, <2>2, Reports DEF StripeStatuses
  <2>4. req'[r].pc = "sync_user" /\ req'[r].sub = s /\ req'[r].event = 0 /\ req'[r].status = req[r].status
    BY <1>1, <1>3, <2>1, Becomes
  <2>5. \A q \in Reqs : req'[q].sub = req[q].sub
    BY <1>1, <1>2, <1>3, <2>4, Others
  <2>6. answered' \subseteq DOMAIN log' /\ ~Told' /\ Newer /\ StripeInv'
    BY <1>1, <2>3, <2>5, ReportedFollows
  <2>7. own'[r] = Len(log')
    BY <1>2, <2>4 DEF Traces, At
  <2>8. Len(log) \in Nat /\ Len(log') = Len(log) + 1 /\ log'[Len(log')] = Event("subscription", s, "canceled")
    <3>1. Event("subscription", s, "canceled") \in Events /\ log \in Seq(Events)
      BY <1>1 DEF TypeOK, Event, Events, EventTypes, StripeStatuses
    <3> QED
      BY <2>1, <3>1, AppendProperties, LenProperties
  <2>9. News(r)' = Len(log') /\ Len(log') \in DOMAIN log' /\ log'[Len(log')].type # "failed"
    <3>1. log' \in Seq(Events)
      BY <1>1 DEF TypeOK
    <3> QED
      BY <2>4, <2>7, <2>8, <3>1, LenProperties DEF News, Event
  <2>10. ASSUME NEW t \in SubIds, Latest(t)'
         PROVE  req'[r].sub = t /\ req'[r].status = MapStripeStatus(stripe'[t])
    <3>1. log'[Len(log')].sub = t
      BY <2>6, <2>10 DEF StripeInv, LogEnd
    <3>2. t = s
      BY <2>8, <3>1 DEF Event
    <3>3. stripe'[s] = "canceled" /\ req[r].status = "canceled"
      BY <1>1, <1>2, <2>1 DEF TypeOK, Knows
    <3> QED
      BY <2>4, <3>2, <3>3, MapIs DEF StripeStatuses
  <2>12. Knows(r)'
    BY <2>4, <2>9, <2>10 DEF Knows, Asking, Syncing, Failing
  <2>11. Wrote(r)'
    BY <2>4 DEF Wrote, HalfDone
  <2> QED
    BY <1>2, <2>6, <2>11, <2>12, FollowStep
<1> QED
  BY <1>6, <1>7

LEMMA StepFollows ==
    ASSUME FollowInv, HistoryInv', Remembers, Traces, NEW r \in Reqs, Acts(r)
    PROVE  FollowInv'
<1>1. CASE Synchronised(r)
  BY <1>1, SyncedFollows
<1>2. CASE Fail(r) /\ ~Synchronised(r)
  BY <1>2, FailFollows DEF Fail
<1>3. CASE Arrive(r) \/ Receive(r)
  BY <1>3, LocalFollows, ReceiveFollows
<1>4. CASE Step(r) /\ ~Synchronised(r)
  BY <1>4, StripeCancelFollows, RetrieveFollows, SyncingFollows, FailingFollows, LocalFollows
  DEF Step, Synchronised
<1> QED
  BY <1>1, <1>2, <1>3, <1>4 DEF Acts

LEMMA FollowNext ==
    ASSUME FollowInv, [HNext]_hvars
    PROVE  FollowInv'
<1>1. HistoryInv'
  BY HistoryNext DEF FollowInv
<1>2. CASE UNCHANGED hvars
  <2>1. UNCHANGED <<user, history, stripe, log, answered, req, outdated, own, mixed, drifted>>
    BY <1>2 DEF hvars, vars
  <2>2. StripeInv'
    BY <2>1, StripeStays DEF FollowInv, StripeInv
  <2>3. \A r \in Reqs : Knows(r)' /\ Wrote(r)'
    BY <2>1, LogStays DEF FollowInv, Knows, Wrote, News
  <2>4. answered' \subseteq DOMAIN log'
    BY <2>1 DEF FollowInv
  <2> QED
    BY <1>1, <2>1, <2>2, <2>3, <2>4, LogStays, SameFollows DEF FollowInv
<1>3. CASE HNext
  <2>1. Remembers /\ Traces
    BY <1>3 DEF HNext, Remembers, Traces
  <2> QED
    BY <1>1, <1>3, <2>1, StepFollows, StripeFollows DEF HNext, Next, Acts
<1> QED
  BY <1>2, <1>3

LEMMA FollowInit == HInit => FollowInv
<1> SUFFICES ASSUME HInit PROVE FollowInv
  OBVIOUS
<1>1. HistoryInv
  BY HistoryInit
<1>2. /\ answered = {} /\ \A s \in SubIds : stripe[s] = NULL
      /\ user.stripe = NULL
      /\ \A r \in Reqs : req[r] = Idle /\ own[r] = 0
  BY DEF HInit, Init
<1>3. DOMAIN log = {}
  BY DEF HInit, Init
<1>4. StripeInv
  <2>1. Idle.sub = NULL
    BY DEF Idle
  <2> QED
    BY <1>2, <1>3, <2>1 DEF StripeInv, Latest
<1>5. \A r \in Reqs : req[r].pc = "idle" /\ req[r].event = 0
  <2>1. Idle.pc = "idle" /\ Idle.event = 0
    BY DEF Idle
  <2> QED
    BY <1>2, <2>1
<1>6. \A r \in Reqs : Knows(r) /\ Wrote(r)
  BY <1>2, <1>5 DEF Knows, Wrote, Asking, Syncing, Failing, HalfDone
<1> QED
  BY <1>1, <1>2, <1>4, <1>6 DEF FollowInv, Told

(* Whatever requests run at once, in whatever order and however often      *)
(* Stripe's events come in, and wherever requests fail: when all events    *)
(* are answered and no request is open, user and history show what Stripe  *)
(* says of the latest subscription, unless since the last synchronisation  *)
(* that brought the newest news, undisturbed, somebody else has written or *)
(* an event was applied after it or one sent later had been.               *)
THEOREM SettledFollows == HSpec => []FollowsUnlessDrifted
<1>1. FollowInv /\ [HNext]_hvars => FollowInv'
  BY FollowNext
<1>2. FollowInv => FollowsUnlessDrifted
  <2> SUFFICES ASSUME FollowInv, Settled, ~drifted, NEW s \in SubIds, Latest(s) PROVE Follows(s)
    BY DEF FollowsUnlessDrifted, FollowsLatest, Latest
  <2>1. LogEnd(s) /\ Len(log) \in Nat /\ answered = 1 .. Len(log)
    BY LogShape DEF FollowInv, HistoryInv, StripeInv, Settled
  <2>2. Told
    BY <2>1 DEF Told, Tells, LogEnd, Says
  <2> QED
    BY <2>2 DEF FollowInv, FollowsLatest, Latest
<1> QED
  BY FollowInit, <1>1, <1>2, PTL DEF HSpec
=============================================================================
