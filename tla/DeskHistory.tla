----------------------------- MODULE DeskHistory -----------------------------
(***************************************************************************)
(* What was asked of the desk, and the properties.  Nothing in the code    *)
(* keeps two requests from working on the same thing at once, nor undoes   *)
(* what a request has done that does not end: the properties say what such *)
(* requests can spoil, and that nothing else does.                         *)
(***************************************************************************)
EXTENDS Desk, FiniteSetsExt, Functions

VARIABLES
    due,        \* of each item, [stock, history, cost] had its requests run one by one
    asked,      \* the user's record had its requests run one by one
    ordered,    \* what the administrators want: [best, general, legal], and of each ticket its [replies]
    mixed,      \* what two requests have worked on at once
    stopped,    \* what a request that did not end has worked on
    met,        \* the requests that have not run alone
    outdated    \* the requests older than the user's record

historyVars == <<due, asked, ordered, mixed, stopped, met, outdated>>
vars == <<deskVars, historyVars>>

(* A request that works on something does not work on nothing.            *)
ASSUME NothingAssumption ==
    NULL \notin ({"item", "insight", "customer", "message", "plans"} \X Nat) \cup ({"settings"} \X {"created", "legal"})
                 \cup ({"user"} \X {"push_devices", "notification_settings"})

TheMessage(m) == <<"message", m>>

(* What request r works on: its writes follow from what it read of it.     *)
Working(r) ==
    LET local == req[r] IN
    CASE "id" \in DOMAIN local /\ local.pc \notin {"push_item", "push_low_stock"} -> <<"item", local.id>>
      [] local.pc = "write_devices"  -> <<"user", "push_devices">>
      [] local.pc = "write_settings" -> <<"user", "notification_settings">>
      [] local.pc \in {"edit_message", "read_context", "reply"} -> TheMessage(local.message)
      [] "newest" \in DOMAIN local   -> <<"insight", 0>>
      [] local.pc \in {"read_best", "clear_plan", "insert_plan", "write_plan"} -> <<"plans", 0>>
      [] local.pc \in {"create_customer", "write_customer"} -> <<"customer", 0>>
      [] local.pc = "create_settings" -> <<"settings", "created">>
      [] local.pc \in {"upgrade_settings", "write_legal"} -> <<"settings", "legal">>
      [] OTHER -> NULL

InWork == {Working(r) : r \in Reqs} \ {NULL}
SharedWork == {w \in InWork : Cardinality({r \in Reqs : Working(r) = w}) > 1}
Quiet(thing) == thing \notin InWork
TheItem(i) == <<"item", i>>

DueOf(form) ==
    [stock |-> form.stock_quantity, history |-> Entries(form.stock_quantity, 0), cost |-> form.stock_quantity]
DueAfterEdit(d, updates) ==
    LET stock == With([stock_quantity |-> d.stock], updates).stock_quantity IN
    [d EXCEPT !.stock = stock, !.cost = stock]

DueAfterStock(d, payload) ==
    [d EXCEPT !.stock = @ + payload.add_stock - payload.remove_stock,
              !.history = @ \o Entries(payload.add_stock, payload.remove_stock)]

(* Request r is past its write of an item.                                 *)
Writes(r) ==
    \/ At(r, "write_stock") /\ items' # items /\ req'[r] # req[r]
    \/ At(r, "write_item") /\ req'[r] \notin {req[r], Idle}

(* A write is as if its request had come and gone at that moment.          *)
DueNext ==
    due' = IF Len(items') > Len(items) THEN Append(due, DueOf(Last(items')))
           ELSE [i \in DOMAIN due |->
                   LET by == {r \in Reqs : Working(r) = TheItem(i) /\ Writes(r)}
                       r == CHOOSE q \in by : TRUE IN
                   IF by = {} THEN due[i]
                   ELSE IF At(r, "write_stock") THEN DueAfterStock(due[i], req[r].payload)
                   ELSE DueAfterEdit(due[i], req[r].payload)]

AskedNext ==
    LET by == {r \in Reqs : req[r].pc \in {"write_devices", "write_settings"} /\ req'[r] # req[r]}
        r == CHOOSE q \in by : TRUE IN
    asked' = IF by = {} \/ user' = user THEN asked
             ELSE IF At(r, "write_settings")
             THEN [asked EXCEPT !.notification_settings[req[r].field] = req[r].on]
             ELSE [asked EXCEPT !.push_devices = IF req[r].on THEN Registered(@, req[r].device)
                                                 ELSE Unregistered(@, req[r].device)]

(* What the writes of the administrators ask for.                          *)
BestAfter(r) ==
    CASE At(r, "insert_plan") /\ req[r].form.best -> {Len(plans')}
      [] At(r, "write_plan") /\ "best" \in DOMAIN req[r].form ->
            IF req[r].form.best THEN {req[r].plan} ELSE ordered.best \ {req[r].plan}
      [] At(r, "write_default") -> (ordered.best \ {1}) \cup {i \in {1} : DefaultPlan.best}
      [] OTHER -> ordered.best

OrderedNext ==
    LET by == {r \in Reqs : req'[r] # req[r] /\ officeVars' # officeVars}
        r == CHOOSE q \in by : TRUE IN
    ordered' = IF by = {} THEN ordered
               ELSE [best    |-> IF plans' = plans THEN ordered.best ELSE BestAfter(r),
                     general |-> IF At(r, "write_general") THEN req[r].edit.content ELSE ordered.general,
                     legal   |-> IF At(r, "write_legal") THEN [ordered.legal EXCEPT ![req[r].edit.key] = req[r].edit.content]
                                 ELSE ordered.legal,
                     replies |-> IF At(r, "add_message") THEN [ordered.replies EXCEPT ![req[r].ticket] = @ + 1]
                                 ELSE ordered.replies \o [t \in 1 .. Len(tickets') - Len(tickets) |-> 0]]

(* A request that does not get past these steps leaves its work half done. *)
(* One whose last write of a plan changes nothing looks the same.          *)
HalfDone == {"find_name", "insert_name", "find_expense", "insert_expense", "update_expense",
             "delete_item", "read_context", "reply", "clear_plan", "insert_plan", "write_plan", "write_customer"}
GivesUp(r) ==
    /\ req[r].pc \in HalfDone
    /\ req'[r] = Idle
    /\ At(r, "delete_item") => items' = items
    /\ req[r].pc \in {"insert_plan", "write_plan"} => plans' = plans

(* The newest reply to message m answers the text it has now.              *)
Answers(n, m) == chat[n].role = "assistant" /\ chat[n].reply_to = m
Fits(m) ==
    \E n \in DOMAIN chat :
       /\ Answers(n, m) /\ chat[n].version = chat[m].version
       /\ \A l \in n + 1 .. Len(chat) : ~Answers(l, m)

(* Some reply to it does, be it the newest or not.                         *)
HasReply(m) == \E n \in DOMAIN chat : Answers(n, m) /\ chat[n].version = chat[m].version

HInit ==
    /\ DeskInit
    /\ due = <<>>
    /\ asked = user
    /\ ordered = [best |-> Flagged, replies |-> <<>>,
                  general |-> IF settings = <<>> THEN "default" ELSE settings[1].general,
                  legal |-> [k \in LegalDocuments |-> IF settings = <<>> THEN "default" ELSE settings[1].legal[k]]]
    /\ mixed = {}
    /\ stopped = {TheMessage(m) : m \in {n \in DOMAIN chat : chat[n].role = "user" /\ ~Fits(n)}}
    /\ met = {} /\ outdated = {}

HNext ==
    /\ DeskNext
    /\ DueNext
    /\ AskedNext
    /\ OrderedNext
    /\ mixed' = mixed \cup SharedWork'
    /\ stopped' = stopped \cup ({Working(r) : r \in {r \in Reqs : GivesUp(r)}} \ {NULL})
    /\ met' = IF Cardinality(InFlight') > 1 THEN InFlight' ELSE met \cap InFlight'
    /\ outdated' = (IF user' # user THEN InFlight ELSE outdated) \cap InFlight'

(* asyncio resumes some handler whose await is over, and each await ends:  *)
(* the database and Expo time out, and so does the model.                  *)
Progress == (\E r \in Reqs : Step(r)) \/ (\E k \in Keys : ModelAnswers(k))
Fairness == WF_deskVars(Progress)

HSpec == HInit /\ [][HNext]_vars /\ Fairness

-----------------------------------------------------------------------------
(* Type invariant.  Stock is never negative, whoever removes it at once.   *)
TypeOK ==
    /\ \A i \in Kept :
          /\ items[i].stock_quantity \in 0 .. MaxStock
          /\ items[i].stock_status \in StockStatuses
    /\ DOMAIN expenses = DOMAIN items
    /\ user.notification_settings \in Settings
    /\ notifications \subseteq Titles
    /\ shown \in 0 .. Len(chat)
    /\ memory \subseteq DOMAIN chat
    /\ Cardinality({i \in DOMAIN plans : plans[i].singleton_key = NULL}) <= 1
    /\ DOMAIN tickets \subseteq 1 .. arrived

(* Stock and history, of which usage is summed up, are as if the requests  *)
(* on an item had come one by one, if they did: whatever became of those   *)
(* that did not end.                                                       *)
StockAsIfAtomic ==
    \A i \in Kept : TheItem(i) \notin mixed =>
       /\ items[i].stock_quantity = due[i].stock
       /\ items[i].history = due[i].history

(* The status on which low stock is pushed and listed fits the stock and   *)
(* the threshold, whichever of the two was changed.                        *)
StatusFitsStock ==
    \A i \in Kept : TheItem(i) \notin mixed =>
       items[i].stock_status = StockStatus(items[i].stock_quantity, items[i].alert_threshold)

(* An item has one expense, of what its stock was when the item was last   *)
(* edited, and once it is deleted it has none.  Using stock up changes no  *)
(* expense, but the next edit of the item, whatever it edits, does.        *)
ExpenseFollowsItem ==
    \A i \in DOMAIN items :
       (Quiet(TheItem(i)) /\ TheItem(i) \notin mixed \cup stopped) =>
          expenses[i] = IF items[i] = NULL THEN <<>> ELSE <<due[i].cost>>

(* An item, with its status and expense, is as if its requests had come    *)
(* one by one, unless two did work on it at once.                          *)
ItemsAsIfAtomic == StockAsIfAtomic /\ StatusFitsStock /\ ExpenseFollowsItem

(* The category and supplier of an item can be chosen from the lists, even *)
(* if requests have written the item or the lists at once.                 *)
NamesOfItemsListed ==
    \A i \in Kept :
       (Quiet(TheItem(i)) /\ TheItem(i) \notin stopped) =>
          /\ Listed("categories", items[i].category)
          /\ items[i].supplier_name # NULL => Listed("suppliers", items[i].supplier_name)

(* No deposit is listed under two bank accounts.                           *)
DepositsShownOnce ==
    \A i, j \in Open : i = j \/ ListedDeposits(i) \cap ListedDeposits(j) = {}

(* A name looked up and written later is there once, and not missing where *)
(* it is used.                                                             *)
NamesServe == NamesOfItemsListed /\ DepositsShownOnce

(* A phone is in the list of a user once, and a token goes to one phone,   *)
(* however registrations interleave: a push shows once on a phone.         *)
OnePhoneOnePush ==
    LET list == user.push_devices IN
    \A i, j \in DOMAIN list :
       (list[i].device_id = list[j].device_id \/ list[i].token = list[j].token) => i = j

(* Requests on phones and requests on settings do not undo each other;     *)
(* only two of the same kind can.                                          *)
UserAsAsked ==
    \A field \in DOMAIN user : <<"user", field>> \notin mixed => user[field] = asked[field]

(* However many screens are open, an alert is pushed once.                 *)
AlertsPushedOnce ==
    \A i, j \in DOMAIN posted :
       (posted[i].subject = posted[j].subject /\ posted[i].subject \in Titles) => i = j

(* The text a message has now is answered, also when it was edited while a *)
(* reply was on its way: only a request that does not end leaves it        *)
(* without.  The answer is the newest reply too, unless two requests       *)
(* worked on the message at once: then a reply to an old text may follow.  *)
NewestReplyFits ==
    \A m \in DOMAIN chat :
       (chat[m].role = "user" /\ Quiet(TheMessage(m)) /\ TheMessage(m) \notin stopped) =>
          /\ HasReply(m)
          /\ TheMessage(m) \notin mixed => Fits(m)

(* There is one insight, if the first requests for it did not overlap.     *)
OneInsight == <<"insight", 0>> \notin mixed => Len(insights) <= 1

(* A text is generated once at a time, for all who want it.                *)
OneGenerationAtATime ==
    \A k \in Keys : Cardinality({r \in Awaiters(k) : req[r].leader = r}) <= 1

(* A generation stays on the table only while its leader is there to take  *)
(* it off, however it ends: one left there would answer for ever.          *)
NoOrphanGeneration ==
    \A k \in Keys : inflight[k] # NULL =>
       LET l == req[inflight[k].leader] IN l.pc \in {"await_text", "wake"} /\ l.key = k

(* Requests share a generation while it runs and not after it, and what    *)
(* they store of it is there once.                                         *)
GenerationsShared == OneInsight /\ OneGenerationAtATime /\ NoOrphanGeneration

(* A push reflects the phones and settings of the user, unless they have   *)
(* changed since its request arrived.                                      *)
PushOnlyWhenWanted ==
    posted' # posted =>
       \E r \in InFlight :
          /\ req'[r] # req[r]
          /\ r \in outdated \/ ( /\ Wanted(user, Last(posted').subject = "low_stock")
                                 /\ Last(posted').to = user.push_devices)

(* What is pushed, and to which phones, is what the user last asked for,   *)
(* however requests on phones, settings and alerts interleave.             *)
PushesAsAsked ==
    [][PushOnlyWhenWanted /\ AlertsPushedOnce' /\ OnePhoneOnePush' /\ UserAsAsked']_vars

(* An app that is told of the chat shows all of it, unless other requests  *)
(* ran meanwhile: then it may go back to an earlier state.                 *)
ShownIsCurrent ==
    shown' # shown => \E r \in Reqs : At(r, "broadcast") /\ (r \in met \/ shown' = Len(chat))

(* What the memory covers it keeps, unless two messages were answered at   *)
(* once.                                                                   *)
MemoryIsKept == memory \subseteq memory' \/ \E r \in met : At(r, "write_memory")

(* What the apps show of the chat and what the assistant remembers of it   *)
(* goes back only when requests overlap.                                   *)
ChatMovesOn == [][ShownIsCurrent /\ MemoryIsKept]_vars

(* Every request ends: nobody awaits a generation that nobody finishes.    *)
EveryRequestEnds == \A r \in Reqs : ~At(r, "idle") ~> At(r, "idle")

(* The context of a reply, its "recent" messages, holds the newest message *)
(* there was.                                                              *)
RecentIsRecent ==
    [][\A r \in Reqs : (At(r, "read_context") /\ At(r, "reply")') => Len(chat) \in req'[r].recent]_vars
=============================================================================
