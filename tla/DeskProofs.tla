----------------------------- MODULE DeskProofs -----------------------------
(***************************************************************************)
(* Promises of the desk for any number of requests at once, whatever they  *)
(* are: requests share the generation of a text while it runs and not      *)
(* after it, a checkout is sound, and of the chat that what is shown and   *)
(* remembered of it goes on and that the newest reply to a message fits;   *)
(* and of the administrators' side that plans, settings, legal documents   *)
(* and tickets are as the administrators asked.                            *)
(*                                                                         *)
(* Most handlers have no part in any of it.  What they must not do is      *)
(* resume in the middle of another one: Ready says where a handler can go  *)
(* on, whichever continuation it carries, Ordinary and Silent that it      *)
(* stays out.  A promise of the office follows from what the one request   *)
(* that is at work on a thing, alone, knows of it (BestInv, NamesInv,      *)
(* LegalInv, PageInv): the others stay aside (Aside), and what two do at   *)
(* once or one leaves half done is in the history.                         *)
(***************************************************************************)
EXTENDS OfficeProps, FiniteSetTheorems, SequenceTheorems, WellFoundedInduction, TLAPS

(* Where a request sleeps until a generation ends, and where it has to do  *)
(* with one at all.                                                        *)
Slept == {"await_text", "wake"}
Generating == {"ask"} \cup Slept
InsightNexts == {"ask_translated", "write_insight"}
AlertNexts == {"ask_other", "find_alert"}
OtherNexts == AlertNexts \cup {"write_translation"}

GenerationReady(l) ==
    /\ l.pc \in Generating \cup {"ask_translated", "ask_other", "write_translation"} =>
          {"key", "next", "text", "leader"} \subseteq DOMAIN l
    /\ l.pc \in Generating =>
          l.key \in Keys /\ l.next \in (IF "newest" \in DOMAIN l THEN InsightNexts ELSE OtherNexts)
    /\ l.pc \in InsightNexts => "newest" \in DOMAIN l
    /\ "newest" \in DOMAIN l => l.pc \in Generating \cup InsightNexts /\ "id" \notin DOMAIN l

(* The continuations of the other handlers.                                *)
Spends(l) == "after" \in DOMAIN l /\ l.after \in {"answer", "push_item"}
NamesReady(l) ==
    /\ l.pc \in {"find_name", "insert_name"} =>
          "next" \in DOMAIN l /\ (l.next \in {"answer", "insert_item"} \/ (l.next = "find_expense" /\ Spends(l)))
    /\ l.pc \in {"find_expense", "insert_expense", "update_expense"} => Spends(l)

PlansReady(l) ==
    /\ l.pc \in {"read_best", "clear_plan"} =>
          /\ {"next", "form"} \subseteq DOMAIN l
          /\ \/ l.next = "insert_plan" /\ l.form \in PlanForms
             \/ l.next = "write_plan" /\ l.form \in PlanEdits
    /\ l.pc = "insert_plan" => l.form \in PlanForms
    /\ l.pc = "write_plan" => l.form \in PlanEdits

SettingsReady(l) ==
    l.pc \in {"get_settings", "create_settings", "upgrade_settings"} =>
       "then" \in DOMAIN l /\ l.then \in {"answer", "write_general", "write_legal"}

(* The requests about coupons and of the checkout.                         *)
CouponPcs == {"insert_coupon", "write_coupon", "delete_coupon", "mark_expired", "read_coupon", "quote"}
CheckoutPcs == {"create_customer", "write_customer", "create_session"}

Priced(l) == "price" \in DOMAIN l /\ l.price \in Nat
CouponReady(l) ==
    /\ l.pc = "insert_coupon" => l.coupon \in CouponForms
    /\ l.pc = "write_coupon" => Editing(l.updates)
    /\ l.pc = "mark_expired" =>
          "then" \in DOMAIN l /\ (l.then = "answer" \/ (l.then = "read_coupon" /\ Priced(l)))
    /\ l.pc = "read_coupon" => Priced(l)
    /\ l.pc = "quote" => l.quote.final \in 0 .. l.quote.original

CheckoutReady(l) ==
    /\ l.pc \in CheckoutPcs => "id" \notin DOMAIN l /\ "for" \in DOMAIN l

(* The requests of the chat: those about a message, those that have listed *)
(* the chat, and, generating, those that translate it.                     *)
Answering == {"read_context", "reply"}
MessagePcs == {"edit_message"} \cup Answering
ListedPcs == {"read_memory", "write_memory", "broadcast", "write_translation"}
ChatPcs == MessagePcs \cup ListedPcs \cup {"list_chat", "answered"}

Chatting(l) == "message" \in DOMAIN l \/ "upto" \in DOMAIN l
ChatReady(l) ==
    /\ l.pc \in ChatPcs => Chatting(l)
    /\ Chatting(l) => l.pc \in Generating \cup ChatPcs /\ "newest" \notin DOMAIN l /\ "id" \notin DOMAIN l
    /\ l.pc \in MessagePcs =>
          /\ {"message", "version", "live", "replies"} \subseteq DOMAIN l /\ "upto" \notin DOMAIN l
          /\ l.replies \subseteq {"assistant", "insight"}
    /\ l.pc \in {"edit_message", "read_context"} => "assistant" \in l.replies
    /\ l.pc = "list_chat" => "upto" \notin DOMAIN l
    /\ l.pc \in ListedPcs => "upto" \in DOMAIN l
    /\ l.pc = "write_memory" => "memory" \in DOMAIN l
    /\ l.pc \in Generating => ((l.next = "write_translation") <=> Chatting(l))
    /\ l.pc \in Generating /\ Chatting(l) => "upto" \in DOMAIN l

Ready(l) ==
    /\ "pc" \in DOMAIN l
    /\ GenerationReady(l) /\ NamesReady(l) /\ PlansReady(l) /\ SettingsReady(l)
    /\ CouponReady(l) /\ CheckoutReady(l) /\ ChatReady(l)

LocalsReady == DOMAIN req = Reqs /\ \A r \in Reqs : Ready(req[r])

(* The steps at which nothing is asked of the local state.                 *)
Particular ==
    Generating \cup InsightNexts \cup CouponPcs \cup CheckoutPcs \cup ChatPcs
      \cup {"ask_other", "find_name", "insert_name",
            "find_expense", "insert_expense", "update_expense",
            "read_best", "clear_plan", "insert_plan", "write_plan",
            "get_settings", "create_settings", "upgrade_settings"}

(* The local state of no insight and no chat.                              *)
Plain(l) == "newest" \notin DOMAIN l /\ "message" \notin DOMAIN l /\ "upto" \notin DOMAIN l

LEMMA PlainReady ==
    ASSUME NEW l, "pc" \in DOMAIN l, Plain(l), l.pc \notin Particular
    PROVE  Ready(l)
  BY DEF Ready, GenerationReady, NamesReady, PlansReady, SettingsReady, CouponReady, CheckoutReady, ChatReady,
         Particular, CouponPcs, CheckoutPcs, Generating, InsightNexts, Plain, Chatting, ChatPcs,
         MessagePcs, Answering, ListedPcs

(* A request moves on, alone, and neither comes from a generation, an      *)
(* insight, a coupon or a checkout nor gets there; Silent, from the chat   *)
(* neither.                                                                *)
Special == Slept \cup CouponPcs \cup CheckoutPcs

Moves(r, l) == Ready(l) /\ l.pc \notin Slept /\ req[r].pc \notin Slept /\ req' = [req EXCEPT ![r] = l]
Outside(l) == l.pc \notin Special /\ "newest" \notin DOMAIN l
Ordinary(r) == Outside(req[r]) /\ \E l : Moves(r, l) /\ Outside(l)
Away(l) == l.pc \notin Special /\ Plain(l)
Silent(r) == Away(req[r]) /\ \E l : Moves(r, l) /\ Away(l)

LEMMA SilentOrdinary ==
    ASSUME NEW r, Silent(r)
    PROVE  Ordinary(r)
  BY DEF Silent, Ordinary, Away, Plain, Outside

LEMMA Idles == "pc" \in DOMAIN Idle /\ Plain(Idle) /\ Idle.pc = "idle"
  BY DEF Idle, Plain

LEMMA IdleReady == Ready(Idle) /\ Away(Idle) /\ Idle.pc \notin Slept
  BY Idles, PlainReady DEF Particular, Generating, InsightNexts, CouponPcs, CheckoutPcs, Slept,
     Away, Special, ChatPcs, MessagePcs, Answering, ListedPcs

(* From a step at which no insight is made, and from outside the chat.     *)
LEMMA OutsideFrom ==
    ASSUME NEW l, Ready(l), l.pc \notin Special \cup Generating \cup InsightNexts
    PROVE  Outside(l) /\ l.pc \notin Slept
  BY DEF Ready, GenerationReady, Outside, Special

LEMMA AwayFrom ==
    ASSUME NEW l, Ready(l), l.pc \notin Special \cup Generating \cup InsightNexts \cup ChatPcs
    PROVE  Away(l) /\ l.pc \notin Slept
  BY DEF Ready, GenerationReady, ChatReady, Chatting, Away, Plain, Special

LEMMA EndsSo ==
    ASSUME LocalsReady, NEW r \in Reqs, Done(r), Away(req[r])
    PROVE  Silent(r)
  BY IdleReady DEF Done, Silent, Moves, Away, Special

LEMMA KeptSo ==
    ASSUME LocalsReady, NEW r \in Reqs, NEW l, Keep(r, l), Away(req[r]), Ready(l), Away(l)
    PROVE  Silent(r)
  BY DEF Keep, Silent, Moves, Away, Special

LEMMA BegunSo ==
    ASSUME LocalsReady, NEW r \in Reqs, NEW l, Begin(r, l), Ready(l), Away(l)
    PROVE  Silent(r)
<1>1. req[r].pc = "idle" /\ req' = [req EXCEPT ![r] = l]
  BY DEF Begin, At
<1>2. Away(req[r])
  BY <1>1, AwayFrom DEF LocalsReady, Special, Slept, CouponPcs, CheckoutPcs, Generating, InsightNexts,
     ChatPcs, MessagePcs, Answering, ListedPcs
<1> QED
  BY <1>1, <1>2 DEF Silent, Moves, Away, Special

LEMMA BegunAt ==
    ASSUME LocalsReady, NEW r \in Reqs, NEW l, Begin(r, l), Ready(l), Outside(l)
    PROVE  Ordinary(r)
<1>1. req[r].pc = "idle" /\ req' = [req EXCEPT ![r] = l]
  BY DEF Begin, At
<1>2. Outside(req[r])
  BY <1>1, OutsideFrom DEF LocalsReady, Special, Slept, CouponPcs, CheckoutPcs, Generating, InsightNexts
<1> QED
  BY <1>1, <1>2 DEF Ordinary, Moves, Outside, Special

LEMMA Changed ==
    ASSUME NEW l, NEW p, "pc" \in DOMAIN l
    PROVE  LET m == [l EXCEPT !.pc = p]
           IN  m.pc = p /\ DOMAIN m = DOMAIN l /\ \A f \in DOMAIN l \ {"pc"} : m[f] = l[f]
  OBVIOUS

LEMMA GoneSo ==
    ASSUME LocalsReady, NEW r \in Reqs, NEW p, Goto(r, p), Away(req[r]), p \notin Particular
    PROVE  Silent(r)
<1>1. PICK m : m = [req[r] EXCEPT !.pc = p]
  OBVIOUS
<1>2. m.pc = p /\ DOMAIN m = DOMAIN req[r] /\ "pc" \in DOMAIN req[r]
  BY <1>1, Changed DEF LocalsReady, Ready
<1>3. req' = [req EXCEPT ![r] = m]
  BY <1>1 DEF Goto
<1>4. Ready(m) /\ Away(m)
  BY <1>2, PlainReady DEF Away, Plain, Special, Particular, Generating
<1> QED
  BY <1>3, <1>4 DEF Silent, Moves, Away, Special

(* Where the steps of an ordinary request begin.                           *)
LEMMA From ==
    ASSUME LocalsReady, NEW r \in Reqs, NEW p, At(r, p),
           p \notin Special \cup Generating \cup InsightNexts \cup ChatPcs
    PROVE  Away(req[r])
  BY AwayFrom DEF LocalsReady, At

LEMMA PlainOutside ==
    ASSUME NEW l, "pc" \in DOMAIN l, Plain(l), l.pc \notin Particular
    PROVE  Ready(l) /\ Away(l)
  BY PlainReady DEF Away, Special, Particular, Generating

-----------------------------------------------------------------------------
(* The names, item by item.                                                *)
LEMMA NamesArriveSo ==
    ASSUME LocalsReady, NEW r \in Reqs, NamesArrive(r)
    PROVE  Silent(r)
<1> USE DEF Particular, Generating, Slept, InsightNexts, CouponPcs, CheckoutPcs, ChatPcs, MessagePcs,
           Answering, ListedPcs, Chatting, Plain
<1>1. CASE \E n \in Typed : BeginCreateAccount(r, n)
  <2>1. PICK l : Begin(r, l) /\ l.pc = "insert_account" /\ DOMAIN l = {"pc", "name"}
    BY <1>1 DEF BeginCreateAccount
  <2> QED
    BY <2>1, BegunSo, PlainOutside
<1>2. CASE \E i \in Open, n \in Typed : BeginRenameAccount(r, i, n)
  <2>1. PICK l : Begin(r, l) /\ l.pc = "rename_account" /\ DOMAIN l = {"pc", "name", "account"}
    BY <1>2 DEF BeginRenameAccount
  <2> QED
    BY <2>1, BegunSo, PlainOutside
<1>3. CASE \E i \in Open : BeginDeleteAccount(r, i)
  <2>1. PICK l : Begin(r, l) /\ l.pc = "delete_account" /\ DOMAIN l = {"pc", "account"}
    BY <1>3 DEF BeginDeleteAccount
  <2> QED
    BY <2>1, BegunSo, PlainOutside
<1>4. CASE \E c \in Collections, n \in Typed : CreateName(r, c, n)
  <2>1. PICK l : /\ Begin(r, l) /\ l.pc = "find_name" /\ DOMAIN l = {"pc", "todo", "next"}
                 /\ l.next = "answer"
    BY <1>4 DEF CreateName
  <2>2. Ready(l) /\ Away(l)
    BY <2>1 DEF Ready, GenerationReady, NamesReady, PlansReady, SettingsReady, CouponReady,
                CheckoutReady, ChatReady, Away, Special
  <2> QED
    BY <2>1, <2>2, BegunSo
<1> QED
  BY <1>1, <1>2, <1>3, <1>4 DEF NamesArrive

LEMMA AfterNamesSo ==
    ASSUME LocalsReady, NEW r \in Reqs, req[r].pc \in {"find_name", "insert_name"}, AfterNames(r)
    PROVE  Silent(r)
<1> USE DEF Particular, Generating, Slept, InsightNexts, CouponPcs, CheckoutPcs, ChatPcs, MessagePcs,
           Answering, ListedPcs, Chatting, Plain
<1>1. PICK rest : req' = [req EXCEPT ![r] = [req[r] EXCEPT !.todo = rest,
                             !.pc = IF rest = <<>> THEN req[r].next ELSE "find_name"]]
  BY DEF AfterNames, Keep
<1>2. PICK m : m = [req[r] EXCEPT !.todo = rest, !.pc = IF rest = <<>> THEN req[r].next ELSE "find_name"]
  OBVIOUS
<1>3. Ready(req[r])
  BY DEF LocalsReady
<1>4. /\ DOMAIN m = DOMAIN req[r] /\ m.pc \in {req[r].next, "find_name"}
      /\ \A f \in DOMAIN m \ {"pc", "todo"} : m[f] = req[r][f]
  BY <1>2, <1>3 DEF Ready
<1>5. Away(req[r])
  BY <1>3, AwayFrom DEF Special
<1>6. Plain(m) /\ "pc" \in DOMAIN m
  BY <1>3, <1>4, <1>5 DEF Away, Ready
<1>7. NamesReady(m) /\ m.pc \in {"find_name", "answer", "insert_item", "find_expense"}
  BY <1>3, <1>4 DEF Ready, NamesReady, Spends
<1>8. Ready(m) /\ Away(m)
  BY <1>6, <1>7 DEF Ready, GenerationReady, PlansReady, SettingsReady, CouponReady,
                CheckoutReady, ChatReady, Away, Special
<1> QED
  BY <1>1, <1>2, <1>5, <1>8 DEF Silent, Moves, Away, Special

LEMMA NamesStepSo ==
    ASSUME LocalsReady, NEW r \in Reqs, NamesStep(r)
    PROVE  Silent(r)
<1> USE DEF Particular, Generating, Slept, InsightNexts, CouponPcs, CheckoutPcs, ChatPcs, MessagePcs,
           Answering, ListedPcs, Chatting, Plain
<1>1. CASE InsertAccount(r) \/ RenameAccount(r) \/ DeleteAccount(r) \/ Answer(r)
  <2>1. Done(r) /\ req[r].pc \in {"insert_account", "rename_account", "delete_account", "answer"}
    BY <1>1 DEF InsertAccount, RenameAccount, DeleteAccount, Answer, At
  <2> QED
    BY <2>1, EndsSo, From DEF Special, At
<1>2. CASE FindName(r) \/ InsertName(r)
  <2>1. req[r].pc \in {"find_name", "insert_name"}
    BY <1>2 DEF FindName, InsertName, At
  <2>2. Away(req[r])
    BY <2>1, From DEF Special, At
  <2>3. AfterNames(r) \/ (Goto(r, "insert_name") /\ req[r].pc = "find_name") \/ Done(r)
    BY <1>2 DEF FindName, InsertName, Raised, At
  <2>4. CASE Goto(r, "insert_name") /\ req[r].pc = "find_name"
    <3>1. PICK m : m = [req[r] EXCEPT !.pc = "insert_name"]
      OBVIOUS
    <3>2. Ready(req[r])
      BY DEF LocalsReady
    <3>3. /\ m.pc = "insert_name" /\ DOMAIN m = DOMAIN req[r]
          /\ \A f \in DOMAIN m \ {"pc"} : m[f] = req[r][f]
      BY <3>1, <3>2, Changed DEF Ready
    <3>4. NamesReady(m) /\ Plain(m) /\ "pc" \in DOMAIN m
      BY <2>2, <2>4, <3>2, <3>3 DEF Ready, NamesReady, Spends, Away
    <3>5. Ready(m) /\ Away(m)
      BY <3>3, <3>4 DEF Ready, GenerationReady, PlansReady, SettingsReady, CouponReady,
                CheckoutReady, ChatReady, Away, Special
    <3>6. Keep(r, m)
      BY <2>4, <3>1 DEF Goto, Keep
    <3> QED
      BY <2>2, <3>5, <3>6, KeptSo
  <2> QED
    BY <2>1, <2>2, <2>3, <2>4, AfterNamesSo, EndsSo
<1> QED
  BY <1>1, <1>2 DEF NamesStep

LEMMA GoneTo ==
    ASSUME LocalsReady, NEW r \in Reqs, NEW p, Goto(r, p)
    PROVE  \E m : /\ Keep(r, m) /\ m.pc = p /\ DOMAIN m = DOMAIN req[r] /\ "pc" \in DOMAIN m
                  /\ \A f \in DOMAIN m \ {"pc"} : m[f] = req[r][f]
<1>1. PICK m : m = [req[r] EXCEPT !.pc = p]
  OBVIOUS
<1>2. "pc" \in DOMAIN req[r]
  BY DEF LocalsReady, Ready
<1>3. Keep(r, m)
  BY <1>1 DEF Goto, Keep
<1> QED
  BY <1>1, <1>2, <1>3, Changed

-----------------------------------------------------------------------------
(* The inventory, item by item.                                            *)
LEMMA InventoryArriveSo ==
    ASSUME LocalsReady, NEW r \in Reqs, InventoryArrive(r)
    PROVE  Silent(r)
<1> USE DEF Particular, Generating, Slept, InsightNexts, CouponPcs, CheckoutPcs, ChatPcs, MessagePcs,
           Answering, ListedPcs, Chatting, Plain
<1>1. CASE \E form \in Forms : BeginCreateItem(r, form)
  <2>1. PICK l : /\ Begin(r, l) /\ l.pc = "find_name" /\ DOMAIN l = {"pc", "todo", "next", "form", "user"}
                 /\ l.next = "insert_item"
    BY <1>1 DEF BeginCreateItem
  <2>2. Ready(l) /\ Away(l)
    BY <2>1 DEF Ready, GenerationReady, NamesReady, PlansReady, SettingsReady, CouponReady,
                CheckoutReady, ChatReady, Away, Special
  <2> QED
    BY <2>1, <2>2, BegunSo
<1>2. CASE \E i \in Kept, a, m \in Quantities : BeginUpdateStock(r, i, a, m)
  <2>1. PICK l : Begin(r, l) /\ l.pc = "write_stock" /\ DOMAIN l = {"pc", "id", "user", "payload", "updates"}
    BY <1>2 DEF BeginUpdateStock
  <2> QED
    BY <2>1, BegunSo, PlainOutside
<1>3. CASE \E i \in Kept, edit \in Edits : BeginUpdateItem(r, i, edit)
  <2>1. PICK l : Begin(r, l) /\ l.pc = "write_item" /\ DOMAIN l = {"pc", "id", "payload", "updates"}
    BY <1>3 DEF BeginUpdateItem
  <2> QED
    BY <2>1, BegunSo, PlainOutside
<1>4. CASE \E i \in Kept : BeginDeleteItem(r, i)
  <2>1. PICK l : Begin(r, l) /\ l.pc = "delete_expense" /\ DOMAIN l = {"pc", "id"}
    BY <1>4 DEF BeginDeleteItem
  <2> QED
    BY <2>1, BegunSo, PlainOutside
<1> QED
  BY <1>1, <1>2, <1>3, <1>4 DEF InventoryArrive

LEMMA InventoryStepSo ==
    ASSUME LocalsReady, NEW r \in Reqs, InventoryStep(r) \/ InventoryPush(r)
    PROVE  Silent(r)
<1> USE DEF Particular, Generating, Slept, InsightNexts, CouponPcs, CheckoutPcs, ChatPcs, MessagePcs,
           Answering, ListedPcs, Chatting, Plain
<1>1. req[r].pc \in {"insert_item", "find_expense", "insert_expense", "update_expense", "write_stock",
                     "write_item", "delete_expense", "delete_item", "push_item", "push_low_stock"}
  BY DEF InventoryStep, InventoryPush, InsertItem, FindExpense, InsertExpense, UpdateExpense,
         WriteStock, WriteItem, DeleteExpense, DeleteItem, PushItem, PushLowStock, At
<1>2. Away(req[r]) /\ Ready(req[r])
  BY <1>1, From DEF Special, At, LocalsReady
<1>3. CASE \/ Done(r)
           \/ Goto(r, "push_low_stock") \/ Goto(r, "delete_item")
  BY <1>2, <1>3, EndsSo, GoneSo
<1>4. CASE InsertItem(r)
  <2>1. PICK l : /\ Keep(r, l) /\ l.pc = "find_expense" /\ l.after = "push_item"
                 /\ DOMAIN l = {"pc", "id", "amount", "after", "status", "user"}
    BY <1>4 DEF InsertItem
  <2>2. Ready(l) /\ Away(l)
    BY <2>1 DEF Ready, GenerationReady, NamesReady, Spends, PlansReady, SettingsReady, CouponReady,
                CheckoutReady, ChatReady, Away, Special
  <2> QED
    BY <1>2, <2>1, <2>2, KeptSo
<1>5. CASE FindExpense(r)
  <2>1. PICK p \in {"insert_expense", "update_expense"} : Goto(r, p) /\ req[r].pc = "find_expense"
    BY <1>5 DEF FindExpense, At
  <2>2. PICK m : /\ Keep(r, m) /\ m.pc = p /\ DOMAIN m = DOMAIN req[r] /\ "pc" \in DOMAIN m
                 /\ \A f \in DOMAIN m \ {"pc"} : m[f] = req[r][f]
    BY <2>1, GoneTo
  <2>3. NamesReady(m) /\ Plain(m)
    BY <1>2, <2>1, <2>2 DEF Ready, NamesReady, Spends, Away
  <2>4. Ready(m) /\ Away(m)
    BY <2>1, <2>2, <2>3 DEF Ready, GenerationReady, PlansReady, SettingsReady, CouponReady,
                CheckoutReady, ChatReady, Away, Special
  <2> QED
    BY <1>2, <2>2, <2>4, KeptSo
<1>6. CASE Goto(r, req[r].after) /\ (InsertExpense(r) \/ UpdateExpense(r))
  <2>1. req[r].after \in {"answer", "push_item"}
    BY <1>2, <1>6 DEF InsertExpense, UpdateExpense, At, Ready, NamesReady, Spends
  <2> QED
    BY <1>2, <1>6, <2>1, GoneSo
<1>7. CASE WriteItem(r) /\ ~Done(r)
  <2>1. PICK l : /\ Keep(r, l) /\ l.pc = "find_name" /\ l.next = "find_expense" /\ l.after = "answer"
                 /\ DOMAIN l = {"pc", "todo", "next", "id", "amount", "after"}
    BY <1>7 DEF WriteItem, Raised
  <2>2. Ready(l) /\ Away(l)
    BY <2>1 DEF Ready, GenerationReady, NamesReady, Spends, PlansReady, SettingsReady, CouponReady,
                CheckoutReady, ChatReady, Away, Special
  <2> QED
    BY <1>2, <2>1, <2>2, KeptSo
<1>8. CASE InventoryStep(r)
  BY <1>3, <1>4, <1>5, <1>6, <1>7, <1>8 DEF InventoryStep, InsertExpense, UpdateExpense, WriteStock,
     DeleteExpense, DeleteItem, Raised
<1>9. CASE InventoryPush(r)
  BY <1>3, <1>9 DEF InventoryPush, PushItem, PushLowStock
<1> QED
  BY <1>8, <1>9

-----------------------------------------------------------------------------
(* Phones, settings and alerts.                                            *)
LEMMA DevicesArriveSo ==
    ASSUME LocalsReady, NEW r \in Reqs, DevicesArrive(r) \/ BeginAnalytics(r)
    PROVE  Silent(r)
<1> USE DEF Particular, Generating, Slept, InsightNexts, CouponPcs, CheckoutPcs, ChatPcs, MessagePcs,
           Answering, ListedPcs, Chatting, Plain
<1>1. CASE DevicesArrive(r)
  <2>1. \E l : /\ Begin(r, l) /\ l.pc \in {"write_devices", "write_settings"}
                /\ "pc" \in DOMAIN l /\ Plain(l)
    <3>1. ASSUME NEW d, BeginRegister(r, d)
          PROVE  \E l : Begin(r, l) /\ l.pc = "write_devices" /\ DOMAIN l = {"pc", "on", "device", "list"}
      BY <3>1 DEF BeginRegister
    <3>2. ASSUME NEW id, BeginUnregister(r, id)
          PROVE  \E l : Begin(r, l) /\ l.pc = "write_devices" /\ DOMAIN l = {"pc", "on", "device", "list"}
      BY <3>2 DEF BeginUnregister
    <3>3. ASSUME NEW field, NEW on, BeginSettings(r, field, on)
          PROVE  \E l : Begin(r, l) /\ l.pc = "write_settings" /\ DOMAIN l = {"pc", "field", "on", "user"}
      BY <3>3 DEF BeginSettings
    <3> QED
      BY <1>1, <3>1, <3>2, <3>3 DEF DevicesArrive
  <2> QED
    BY <2>1, BegunSo, PlainOutside
<1>2. CASE BeginAnalytics(r)
  <2>1. PICK l : /\ Begin(r, l) /\ l.pc = "ask" /\ l.key = Languages[1] /\ l.next = "ask_other"
                 /\ DOMAIN l = {"pc", "key", "next", "text", "leader", "alerts", "user"}
    BY <1>2 DEF BeginAnalytics
  <2>2. Ready(l) /\ Away(l)
    BY <2>1, LanguagesAssumption DEF Ready, GenerationReady, NamesReady, PlansReady, SettingsReady,
       CouponReady, CheckoutReady, ChatReady, Away, Special, OtherNexts, AlertNexts
  <2> QED
    BY <2>1, <2>2, BegunSo
<1> QED
  BY <1>1, <1>2

(* A text is asked for: from outside, for what a generation goes on to.    *)
LEMMA AsksSo ==
    ASSUME NEW l, "pc" \in DOMAIN l, {"key", "next", "text", "leader"} \subseteq DOMAIN l,
           Plain(l), NEW k \in Keys, NEW next \in AlertNexts
    PROVE  Ready(Asking(l, k, next)) /\ Away(Asking(l, k, next))
<1> USE DEF Particular, Generating, Slept, InsightNexts, CouponPcs, CheckoutPcs, ChatPcs, MessagePcs,
           Answering, ListedPcs, Chatting, Plain
<1>1. PICK m : m = Asking(l, k, next)
  OBVIOUS
<1>2. m.pc = "ask" /\ m.key = k /\ m.next = next /\ DOMAIN m = DOMAIN l
  BY <1>1 DEF Asking
<1>3. Ready(m) /\ Away(m)
  BY <1>2 DEF Ready, GenerationReady, NamesReady, PlansReady, SettingsReady, CouponReady,
     CheckoutReady, ChatReady, Away, Special, OtherNexts, AlertNexts
<1> QED
  BY <1>1, <1>3

LEMMA AlertsStepSo ==
    ASSUME LocalsReady, NEW r \in Reqs, DevicesStep(r) \/ AlertsStep(r)
    PROVE  Silent(r)
<1> USE DEF Particular, Generating, Slept, InsightNexts, CouponPcs, CheckoutPcs, ChatPcs, MessagePcs,
           Answering, ListedPcs, Chatting, Plain
<1>1. req[r].pc \in {"write_devices", "write_settings", "ask_other", "find_alert", "insert_alert", "push_alert"}
  BY DEF DevicesStep, AlertsStep, WriteDevices, WriteSettings, AskOther, FindAlert, InsertAlert, PushAlert, At
<1>2. Away(req[r]) /\ Ready(req[r])
  BY <1>1, From DEF Special, At, LocalsReady
<1>3. CASE Done(r) \/ Goto(r, "insert_alert") \/ Goto(r, "push_alert")
  BY <1>2, <1>3, EndsSo, GoneSo
<1>4. CASE NextAlert(r)
  <2>1. PICK rest : req' = [req EXCEPT ![r] = IF rest = <<>> THEN Idle
                              ELSE [req[r] EXCEPT !.pc = "find_alert", !.alerts = rest]]
    BY <1>4 DEF NextAlert, Keep
  <2>2. CASE rest = <<>>
    BY <1>2, <2>1, <2>2, EndsSo DEF Done
  <2>3. CASE rest # <<>>
    <3>1. PICK m : m = [req[r] EXCEPT !.pc = "find_alert", !.alerts = rest]
      OBVIOUS
    <3>2. m.pc = "find_alert" /\ DOMAIN m = DOMAIN req[r] /\ "pc" \in DOMAIN m
      BY <1>2, <3>1 DEF Ready
    <3>3. Ready(m) /\ Away(m)
      BY <1>2, <3>2, PlainOutside DEF Away
    <3>4. Keep(r, m)
      BY <2>1, <2>3, <3>1 DEF Keep
    <3> QED
      BY <1>2, <3>3, <3>4, KeptSo
  <2> QED
    BY <2>2, <2>3
<1>5. CASE AskOther(r)
  <2>1. PICK l : l = [req[r] EXCEPT !.alerts = req[r].text]
    OBVIOUS
  <2>2. DOMAIN l = DOMAIN req[r] /\ Keep(r, Asking(l, Languages[2], "find_alert"))
    BY <1>5, <2>1 DEF AskOther
  <2>3. {"pc", "key", "next", "text", "leader"} \subseteq DOMAIN l /\ Plain(l)
    BY <1>2, <1>5, <2>2 DEF AskOther, At, Ready, GenerationReady, Away
  <2>4. Ready(Asking(l, Languages[2], "find_alert")) /\ Away(Asking(l, Languages[2], "find_alert"))
    BY <2>3, AsksSo, LanguagesAssumption DEF AlertNexts
  <2> QED
    BY <1>2, <2>2, <2>4, KeptSo
<1> QED
  BY <1>3, <1>4, <1>5 DEF DevicesStep, AlertsStep, WriteDevices, WriteSettings, FindAlert, InsertAlert,
     PushAlert, Raised

-----------------------------------------------------------------------------
(* The chat.                                                               *)
LEMMA ChatLocal ==
    ASSUME NEW l, "pc" \in DOMAIN l, "newest" \notin DOMAIN l, ChatReady(l),
           l.pc \in ChatPcs \ {"write_translation"}
    PROVE  Ready(l) /\ Outside(l)
<1>1. /\ l.pc \notin Generating \cup InsightNexts \cup CouponPcs \cup CheckoutPcs
      /\ l.pc \notin {"ask_other", "find_name", "insert_name", "find_expense", "insert_expense",
                      "update_expense", "read_best", "clear_plan", "insert_plan", "write_plan",
                      "get_settings", "create_settings", "upgrade_settings"}
  BY DEF ChatPcs, MessagePcs, Answering, ListedPcs, Generating, Slept, InsightNexts, CouponPcs, CheckoutPcs
<1> QED
  BY <1>1 DEF Ready, GenerationReady, NamesReady, PlansReady, SettingsReady, CouponReady, CheckoutReady,
     Outside, Special, Generating, InsightNexts, CouponPcs, CheckoutPcs

LEMMA HydratingSo ==
    ASSUME NEW l, NEW todo, "newest" \notin DOMAIN l, "id" \notin DOMAIN l,
           {"pc", "key", "next", "text", "leader", "upto"} \subseteq DOMAIN l
    PROVE  /\ Ready(Hydrating(l, todo)) /\ Outside(Hydrating(l, todo))
           /\ Hydrating(l, todo).upto = l.upto /\ Hydrating(l, todo).pc \in {"ask", "broadcast"}
           /\ DOMAIN Hydrating(l, todo) = DOMAIN l
<1>1. CASE todo = <<>>
  <2>1. PICK m : m = [l EXCEPT !.pc = "broadcast"] /\ m = Hydrating(l, todo)
    BY <1>1 DEF Hydrating
  <2>2. m.pc = "broadcast" /\ DOMAIN m = DOMAIN l /\ m.upto = l.upto
    BY <2>1
  <2>3. ChatReady(m)
    BY <2>2 DEF ChatReady, Chatting, ChatPcs, MessagePcs, Answering, ListedPcs, Generating, Slept
  <2> QED
    BY <2>1, <2>2, <2>3, ChatLocal DEF ChatPcs, ListedPcs
<1>2. CASE todo # <<>>
  <2>1. PICK o : o = [l EXCEPT !.todo = todo]
    OBVIOUS
  <2>2. PICK m : m = Asking(o, "translation", "write_translation")
    OBVIOUS
  <2>3. DOMAIN o = DOMAIN l /\ o.upto = l.upto
    BY <2>1
  <2>4. /\ m.pc = "ask" /\ m.key = "translation" /\ m.next = "write_translation"
        /\ DOMAIN m = DOMAIN l /\ m.upto = l.upto
    BY <2>2, <2>3 DEF Asking
  <2>5. ChatReady(m)
    BY <2>4 DEF ChatReady, Chatting, ChatPcs, MessagePcs, Answering, ListedPcs, Generating, Slept
  <2>6. Ready(m) /\ Outside(m)
    BY <2>4, <2>5, KeysAssumption DEF Ready, GenerationReady, NamesReady, PlansReady, SettingsReady,
       CouponReady, CheckoutReady, Outside, Special, OtherNexts, Generating, Slept, InsightNexts,
       CouponPcs, CheckoutPcs
  <2> QED
    BY <1>2, <2>1, <2>2, <2>4, <2>6 DEF Hydrating
<1> QED
  BY <1>1, <1>2

(* What a request of the chat does to its local state, and to the chat.    *)
Joins(r, l) == Begin(r, l) /\ Ready(l) /\ Outside(l)
Goes(r, l) == Keep(r, l) /\ Ready(l) /\ Outside(l)

LEMMA BeginMessageSo ==
    ASSUME LocalsReady, NEW r \in Reqs, NEW live, BeginMessage(r, live)
    PROVE  \E l : /\ Joins(r, l) /\ l.pc = "read_context" /\ l.message = Len(chat') /\ l.version = 0
                  /\ "assistant" \in l.replies /\ "upto" \notin DOMAIN l
<1>1. PICK l : l = [pc |-> "read_context", message |-> Len(chat'), version |-> 0, live |-> live,
                    replies |-> {"insight", "assistant"}]
  OBVIOUS
<1>2. Begin(r, l)
  BY <1>1 DEF BeginMessage
<1>3. ChatReady(l)
  BY <1>1 DEF ChatReady, Chatting, ChatPcs, MessagePcs, Answering, ListedPcs, Generating, Slept
<1>4. Ready(l) /\ Outside(l)
  BY <1>1, <1>3, ChatLocal DEF ChatPcs, MessagePcs, Answering
<1> QED
  BY <1>1, <1>2, <1>4 DEF Joins

LEMMA BeginEditMessageSo ==
    ASSUME LocalsReady, NEW r \in Reqs, NEW m, NEW live, BeginEditMessage(r, m, live)
    PROVE  \E l : Joins(r, l) /\ l.pc = "edit_message" /\ l.message = m /\ "upto" \notin DOMAIN l
<1>1. PICK l : l = [pc |-> "edit_message", message |-> m, version |-> 0, live |-> live,
                    replies |-> {"assistant"}]
  OBVIOUS
<1>2. Begin(r, l)
  BY <1>1 DEF BeginEditMessage
<1>3. ChatReady(l)
  BY <1>1 DEF ChatReady, Chatting, ChatPcs, MessagePcs, Answering, ListedPcs, Generating, Slept
<1>4. Ready(l) /\ Outside(l)
  BY <1>1, <1>3, ChatLocal DEF ChatPcs, MessagePcs, Answering
<1> QED
  BY <1>1, <1>2, <1>4 DEF Joins

LEMMA BeginHistorySo ==
    ASSUME LocalsReady, NEW r \in Reqs, BeginHistory(r)
    PROVE  \E l : Joins(r, l) /\ "upto" \in DOMAIN l /\ l.upto = Len(chat) /\ l.pc \in {"ask", "broadcast"}
<1>1. PICK l : l = [pc |-> "ask", key |-> NULL, next |-> NULL, text |-> NULL, leader |-> NULL,
                    upto |-> Len(chat), todo |-> <<>>]
  OBVIOUS
<1>2. PICK todo : todo = SetToSortSeq(Untranslated, <)
  OBVIOUS
<1>3. PICK m : m = Hydrating(l, todo)
  OBVIOUS
<1>4. Begin(r, m)
  BY <1>1, <1>2, <1>3, Zenon DEF BeginHistory
<1>5. /\ Ready(m) /\ Outside(m) /\ "upto" \in DOMAIN m /\ m.upto = l.upto
      /\ m.pc \in {"ask", "broadcast"}
  BY <1>1, <1>3, HydratingSo
<1> QED
  BY <1>1, <1>4, <1>5 DEF Joins

(* Where the steps of the chat begin.                                      *)
LEMMA ChatFrom ==
    ASSUME LocalsReady, NEW r \in Reqs, req[r].pc \in ChatPcs
    PROVE  /\ Ready(req[r]) /\ Outside(req[r]) /\ ChatReady(req[r])
           /\ "pc" \in DOMAIN req[r] /\ "newest" \notin DOMAIN req[r] /\ "id" \notin DOMAIN req[r]
<1>1. Ready(req[r]) /\ ChatReady(req[r]) /\ "pc" \in DOMAIN req[r]
  BY DEF LocalsReady, Ready
<1>2. "newest" \notin DOMAIN req[r] /\ "id" \notin DOMAIN req[r]
  BY <1>1 DEF ChatReady
<1>3. req[r].pc \notin Special
  BY DEF ChatPcs, MessagePcs, Answering, ListedPcs, Special, Slept, CouponPcs, CheckoutPcs
<1> QED
  BY <1>1, <1>2, <1>3 DEF Outside

LEMMA EditMessageSo ==
    ASSUME LocalsReady, NEW r \in Reqs, EditMessage(r)
    PROVE  \E l : /\ Goes(r, l) /\ l.pc = "read_context" /\ l.message = req[r].message
                  /\ l.version = chat'[req[r].message].version
                  /\ "assistant" \in l.replies /\ "upto" \notin DOMAIN l
<1>1. req[r].pc = "edit_message" /\ req[r].pc \in ChatPcs
  BY DEF EditMessage, At, ChatPcs, MessagePcs
<1>2. PICK v : v = chat'[req[r].message].version
  OBVIOUS
<1>3. PICK l : l = [req[r] EXCEPT !.pc = "read_context", !.version = v]
  OBVIOUS
<1>4. Keep(r, l)
  BY <1>2, <1>3 DEF EditMessage
<1>5. /\ {"pc", "message", "version", "live", "replies"} \subseteq DOMAIN req[r] /\ "upto" \notin DOMAIN req[r]
      /\ req[r].replies \subseteq {"assistant", "insight"} /\ "assistant" \in req[r].replies
      /\ "newest" \notin DOMAIN req[r] /\ "id" \notin DOMAIN req[r]
  BY <1>1, ChatFrom DEF ChatReady, MessagePcs
<1>6. /\ l.pc = "read_context" /\ l.version = v /\ DOMAIN l = DOMAIN req[r]
      /\ l.message = req[r].message /\ l.replies = req[r].replies
  BY <1>3, <1>5
<1>7. ChatReady(l)
  BY <1>5, <1>6 DEF ChatReady, Chatting, ChatPcs, MessagePcs, Answering, ListedPcs, Generating, Slept
<1>8. Ready(l) /\ Outside(l)
  BY <1>5, <1>6, <1>7, ChatLocal DEF ChatPcs, MessagePcs, Answering
<1> QED
  BY <1>2, <1>4, <1>5, <1>6, <1>8 DEF Goes

LEMMA ReadContextSo ==
    ASSUME LocalsReady, NEW r \in Reqs, ReadContext(r)
    PROVE  \E l : /\ Goes(r, l) /\ l.pc = "reply" /\ l.message = req[r].message /\ l.version = req[r].version
                  /\ l.replies = req[r].replies /\ "upto" \notin DOMAIN l
<1>1. req[r].pc = "read_context" /\ req[r].pc \in ChatPcs
  BY DEF ReadContext, At, ChatPcs, MessagePcs, Answering
<1>2. PICK l : l = With(req[r], [recent |-> RecentMessages, pc |-> "reply"])
  OBVIOUS
<1>3. Keep(r, l)
  BY <1>2 DEF ReadContext
<1>4. /\ {"pc", "message", "version", "live", "replies"} \subseteq DOMAIN req[r] /\ "upto" \notin DOMAIN req[r]
      /\ req[r].replies \subseteq {"assistant", "insight"}
      /\ "newest" \notin DOMAIN req[r] /\ "id" \notin DOMAIN req[r]
  BY <1>1, ChatFrom DEF ChatReady, MessagePcs, Answering
<1>5. /\ l.pc = "reply" /\ DOMAIN l = DOMAIN req[r] \cup {"recent", "pc"}
      /\ \A f \in DOMAIN req[r] \ {"recent", "pc"} : l[f] = req[r][f]
  BY <1>2 DEF With
<1>6. l.message = req[r].message /\ l.version = req[r].version /\ l.replies = req[r].replies
  BY <1>4, <1>5
<1>7. ChatReady(l)
  BY <1>4, <1>5, <1>6 DEF ChatReady, Chatting, ChatPcs, MessagePcs, Answering, ListedPcs, Generating, Slept
<1>8. Ready(l) /\ Outside(l)
  BY <1>4, <1>5, <1>7, ChatLocal DEF ChatPcs, MessagePcs, Answering
<1> QED
  BY <1>3, <1>4, <1>5, <1>6, <1>8 DEF Goes

LEMMA InsertReplySo ==
    ASSUME LocalsReady, NEW r \in Reqs, InsertReply(r)
    PROVE  \E role \in req[r].replies : \E l :
              /\ chat' = Append(chat, Row(role, req[r].message, req[r].version))
              /\ role \in {"assistant", "insight"}
              /\ Goes(r, l) /\ l.pc \in {"reply", "list_chat"}
              /\ l.message = req[r].message /\ l.version = req[r].version
              /\ l.replies = req[r].replies \ {role}
              /\ l.replies # {} => l.pc = "reply"
              /\ "upto" \notin DOMAIN l
<1>1. req[r].pc = "reply" /\ req[r].pc \in ChatPcs
  BY DEF InsertReply, At, ChatPcs, MessagePcs, Answering
<1>2. PICK role \in req[r].replies :
         /\ chat' = Append(chat, Row(role, req[r].message, req[r].version))
         /\ Keep(r, [req[r] EXCEPT !.replies = req[r].replies \ {role},
                                   !.pc = IF req[r].replies \ {role} = {} THEN "list_chat" ELSE "reply"])
  BY DEF InsertReply
<1>3. PICK left : left = req[r].replies \ {role}
  OBVIOUS
<1>4. PICK p \in {"list_chat", "reply"} : p = IF left = {} THEN "list_chat" ELSE "reply"
  OBVIOUS
<1>5. PICK l : l = [req[r] EXCEPT !.replies = left, !.pc = p]
  OBVIOUS
<1>6. Keep(r, l)
  BY <1>2, <1>3, <1>4, <1>5
<1>7. /\ {"pc", "message", "version", "live", "replies"} \subseteq DOMAIN req[r] /\ "upto" \notin DOMAIN req[r]
      /\ req[r].replies \subseteq {"assistant", "insight"}
      /\ "newest" \notin DOMAIN req[r] /\ "id" \notin DOMAIN req[r]
  BY <1>1, ChatFrom DEF ChatReady, MessagePcs, Answering
<1>8. /\ l.pc = p /\ DOMAIN l = DOMAIN req[r] /\ l.message = req[r].message /\ l.version = req[r].version
      /\ l.replies = left
  BY <1>5, <1>7
<1>9. ChatReady(l)
  BY <1>3, <1>4, <1>7, <1>8 DEF ChatReady, Chatting, ChatPcs, MessagePcs, Answering, ListedPcs, Generating, Slept
<1>10. Ready(l) /\ Outside(l)
  BY <1>4, <1>7, <1>8, <1>9, ChatLocal DEF ChatPcs, MessagePcs, Answering
<1> QED
  BY <1>2, <1>3, <1>4, <1>6, <1>7, <1>8, <1>10 DEF Goes

LEMMA ListChatSo ==
    ASSUME LocalsReady, NEW r \in Reqs, ListChat(r)
    PROVE  \E l : Goes(r, l) /\ l.pc = "read_memory" /\ l.upto = Len(chat)
<1>1. req[r].pc \in ChatPcs
  BY DEF ListChat, At, ChatPcs
<1>2. PICK l : l = With(req[r], [upto |-> Len(chat), pc |-> "read_memory"])
  OBVIOUS
<1>3. Keep(r, l)
  BY <1>2 DEF ListChat
<1>4. l.pc = "read_memory" /\ l.upto = Len(chat) /\ DOMAIN l = DOMAIN req[r] \cup {"upto", "pc"}
  BY <1>2 DEF With
<1>5. "newest" \notin DOMAIN l /\ "id" \notin DOMAIN l
  BY <1>1, <1>4, ChatFrom
<1>6. ChatReady(l)
  BY <1>4, <1>5 DEF ChatReady, Chatting, ChatPcs, MessagePcs, Answering, ListedPcs, Generating, Slept
<1>7. Ready(l) /\ Outside(l)
  BY <1>4, <1>5, <1>6, ChatLocal DEF ChatPcs, ListedPcs
<1> QED
  BY <1>3, <1>4, <1>7 DEF Goes

LEMMA ReadMemorySo ==
    ASSUME LocalsReady, NEW r \in Reqs, ReadMemory(r)
    PROVE  \E l : Goes(r, l) /\ l.pc = "write_memory" /\ l.upto = req[r].upto /\ l.memory = memory
<1>1. req[r].pc = "read_memory" /\ req[r].pc \in ChatPcs
  BY DEF ReadMemory, At, ChatPcs, ListedPcs
<1>2. PICK l : l = With(req[r], [memory |-> memory, pc |-> "write_memory"])
  OBVIOUS
<1>3. Keep(r, l)
  BY <1>2 DEF ReadMemory
<1>4. "upto" \in DOMAIN req[r]
  BY <1>1, ChatFrom DEF ChatReady, ListedPcs
<1>5. /\ l.pc = "write_memory" /\ l.memory = memory /\ DOMAIN l = DOMAIN req[r] \cup {"memory", "pc"}
      /\ l.upto = req[r].upto
  BY <1>2, <1>4 DEF With
<1>6. "newest" \notin DOMAIN l /\ "id" \notin DOMAIN l
  BY <1>1, <1>5, ChatFrom
<1>7. ChatReady(l)
  BY <1>4, <1>5, <1>6 DEF ChatReady, Chatting, ChatPcs, MessagePcs, Answering, ListedPcs, Generating, Slept
<1>8. Ready(l) /\ Outside(l)
  BY <1>5, <1>6, <1>7, ChatLocal DEF ChatPcs, ListedPcs
<1> QED
  BY <1>3, <1>5, <1>8 DEF Goes

LEMMA WriteMemorySo ==
    ASSUME LocalsReady, NEW r \in Reqs, WriteMemory(r)
    PROVE  \E l : Goes(r, l) /\ l.pc \in {"broadcast", "answered"} /\ l.upto = req[r].upto
<1>1. req[r].pc = "write_memory" /\ req[r].pc \in ChatPcs
  BY DEF WriteMemory, At, ChatPcs, ListedPcs
<1>2. PICK p \in {"broadcast", "answered"} : Goto(r, p)
  BY DEF WriteMemory
<1>3. PICK l : /\ Keep(r, l) /\ l.pc = p /\ DOMAIN l = DOMAIN req[r] /\ "pc" \in DOMAIN l
               /\ \A f \in DOMAIN l \ {"pc"} : l[f] = req[r][f]
  BY <1>2, GoneTo
<1>4. "upto" \in DOMAIN req[r] /\ "newest" \notin DOMAIN req[r] /\ "id" \notin DOMAIN req[r]
  BY <1>1, ChatFrom DEF ChatReady, ListedPcs
<1>5. ChatReady(l)
  BY <1>3, <1>4 DEF ChatReady, Chatting, ChatPcs, MessagePcs, Answering, ListedPcs, Generating, Slept
<1>6. Ready(l) /\ Outside(l)
  BY <1>3, <1>4, <1>5, ChatLocal DEF ChatPcs, ListedPcs
<1> QED
  BY <1>3, <1>4, <1>6 DEF Goes

LEMMA WriteTranslationSo ==
    ASSUME LocalsReady, NEW r \in Reqs, WriteTranslation(r)
    PROVE  \E l : /\ Goes(r, l) /\ l.pc \in {"ask", "broadcast"}
                  /\ "upto" \in DOMAIN req[r] /\ "upto" \in DOMAIN l /\ l.upto = req[r].upto
<1>1. req[r].pc = "write_translation" /\ req[r].pc \in ChatPcs
  BY DEF WriteTranslation, At, ChatPcs, ListedPcs
<1>2. Ready(req[r]) /\ "newest" \notin DOMAIN req[r] /\ "id" \notin DOMAIN req[r] /\ "upto" \in DOMAIN req[r]
  BY <1>1, ChatFrom DEF ChatReady, ListedPcs
<1>3. {"pc", "key", "next", "text", "leader"} \subseteq DOMAIN req[r]
  BY <1>1, <1>2 DEF Ready, GenerationReady
<1>4. PICK l : l = Hydrating(req[r], Tail(req[r].todo))
  OBVIOUS
<1>5. Keep(r, l)
  BY <1>4 DEF WriteTranslation
<1>6. /\ Ready(l) /\ Outside(l) /\ "upto" \in DOMAIN l /\ l.upto = req[r].upto
      /\ l.pc \in {"ask", "broadcast"}
  BY <1>2, <1>3, <1>4, HydratingSo
<1> QED
  BY <1>2, <1>5, <1>6 DEF Goes

LEMMA ChatMoves ==
    ASSUME LocalsReady, NEW r \in Reqs, ChatArrive(r) \/ ChatStep(r)
    PROVE  Ordinary(r)
<1>1. CASE \E l : Joins(r, l)
  BY <1>1, BegunAt DEF Joins
<1>2. ASSUME req[r].pc \in ChatPcs, \E l : Goes(r, l)
      PROVE  Ordinary(r)
  <2>1. PICK l : Goes(r, l)
    BY <1>2
  <2>2. Outside(req[r])
    BY <1>2, ChatFrom
  <2> QED
    BY <2>1, <2>2 DEF Goes, Keep, Ordinary, Moves, Outside, Special
<1>3. CASE ChatArrive(r)
  BY <1>1, <1>3, BeginMessageSo, BeginEditMessageSo, BeginHistorySo DEF ChatArrive
<1>4. CASE Broadcast(r) \/ Answered(r)
  <2>1. Done(r) /\ req[r].pc \in ChatPcs
    BY <1>4 DEF Broadcast, Answered, At, ChatPcs, ListedPcs
  <2>2. Outside(Idle) /\ Ready(Idle)
    BY IdleReady DEF Away, Plain, Outside
  <2> QED
    BY <1>2, <2>1, <2>2 DEF Goes, Keep, Done
<1>5. CASE ChatStep(r) /\ ~(Broadcast(r) \/ Answered(r))
  <2>1. req[r].pc \in ChatPcs
    BY <1>5 DEF ChatStep, EditMessage, ReadContext, InsertReply, ListChat, ReadMemory, WriteMemory,
       WriteTranslation, At, ChatPcs, MessagePcs, Answering, ListedPcs
  <2>2. \E l : Goes(r, l)
    BY <1>5, EditMessageSo, ReadContextSo, InsertReplySo, ListChatSo, ReadMemorySo, WriteMemorySo,
       WriteTranslationSo DEF ChatStep
  <2> QED
    BY <1>2, <2>1, <2>2
<1> QED
  BY <1>3, <1>4, <1>5

-----------------------------------------------------------------------------
(* Plans, settings and tickets.                                            *)
LEMMA PlansArriveSo ==
    ASSUME LocalsReady, NEW r \in Reqs, PlansArrive(r)
    PROVE  Silent(r)
<1> USE DEF Particular, Generating, Slept, InsightNexts, CouponPcs, CheckoutPcs, ChatPcs, MessagePcs,
           Answering, ListedPcs, Chatting, Plain
<1>1. ASSUME NEW l, Begin(r, l), DOMAIN l = {"pc", "plan", "form", "next"},
             \/ l.pc \in {"read_best", "insert_plan"} /\ l.next = "insert_plan" /\ l.form \in PlanForms
             \/ l.pc \in {"read_best", "write_plan"} /\ l.next = "write_plan" /\ l.form \in PlanEdits
      PROVE  Silent(r)
  <2>1. Ready(l) /\ Away(l)
    BY <1>1 DEF Ready, GenerationReady, NamesReady, PlansReady, SettingsReady, CouponReady,
                CheckoutReady, ChatReady, Away, Special
  <2> QED
    BY <1>1, <2>1, BegunSo
<1>2. ASSUME NEW form \in PlanForms, BeginCreatePlan(r, form) PROVE Silent(r)
  <2>1. PICK l : l = [pc |-> AfterCheck(form.best, "insert_plan"), plan |-> 0, form |-> form, next |-> "insert_plan"]
    OBVIOUS
  <2>2. l.pc \in {"read_best", "insert_plan"} /\ Begin(r, l)
    BY <1>2, <2>1 DEF BeginCreatePlan, AfterCheck
  <2> QED
    BY <1>1, <2>1, <2>2
<1>3. ASSUME NEW i, NEW updates \in PlanEdits, BeginUpdatePlan(r, i, updates) PROVE Silent(r)
  <2>1. PICK l : l = [pc |-> AfterCheck("best" \in DOMAIN updates /\ updates.best, "write_plan"),
                      plan |-> i, form |-> updates, next |-> "write_plan"]
    OBVIOUS
  <2>2. l.pc \in {"read_best", "write_plan"} /\ Begin(r, l)
    BY <1>3, <2>1 DEF BeginUpdatePlan, AfterCheck
  <2> QED
    BY <1>1, <2>1, <2>2
<1>4. CASE BeginStart(r)
  <2>1. PICK l : Begin(r, l) /\ l.pc = "write_default" /\ DOMAIN l = {"pc"}
    BY <1>4 DEF BeginStart
  <2> QED
    BY <2>1, BegunSo, PlainOutside
<1> QED
  BY <1>2, <1>3, <1>4 DEF PlansArrive

(* A request that changes plans goes on to its write, or ends.             *)
LEMMA PlansStepSo ==
    ASSUME LocalsReady, NEW r \in Reqs, PlansStep(r)
    PROVE  Silent(r)
<1> USE DEF Particular, Generating, Slept, InsightNexts, CouponPcs, CheckoutPcs, ChatPcs, MessagePcs,
           Answering, ListedPcs, Chatting, Plain
<1>1. req[r].pc \in {"read_best", "clear_plan", "insert_plan", "write_plan", "write_default"}
  BY DEF PlansStep, ReadBest, ClearPlan, InsertPlan, WritePlan, WriteDefault, At
<1>2. Away(req[r]) /\ Ready(req[r])
  BY <1>1, From DEF Special, At, LocalsReady
<1>3. CASE Done(r)
  BY <1>2, <1>3, EndsSo
<1>4. ASSUME NEW m, Keep(r, m), req[r].pc \in {"read_best", "clear_plan"},
             m.pc \in {req[r].next, "clear_plan"}, DOMAIN m = DOMAIN req[r] \cup {"todo"},
             m.next = req[r].next, m.form = req[r].form
      PROVE  Silent(r)
  <2>1. PlansReady(m) /\ m.pc \in {"clear_plan", "insert_plan", "write_plan"}
    BY <1>2, <1>4 DEF Ready, PlansReady
  <2>2. Plain(m) /\ "pc" \in DOMAIN m
    BY <1>2, <1>4 DEF Ready, Away
  <2>3. Ready(m) /\ Away(m)
    BY <2>1, <2>2 DEF Ready, GenerationReady, NamesReady, SettingsReady, CouponReady,
                CheckoutReady, ChatReady, Away, Special
  <2> QED
    BY <1>2, <1>4, <2>3, KeptSo
<1>5. CASE ReadBest(r) /\ Goto(r, req[r].next)
  <2>1. PICK m : /\ Keep(r, m) /\ m.pc = req[r].next /\ DOMAIN m = DOMAIN req[r] /\ "pc" \in DOMAIN m
                 /\ \A f \in DOMAIN m \ {"pc"} : m[f] = req[r][f]
    BY <1>5, GoneTo
  <2>2. PlansReady(m) /\ m.pc \in {"insert_plan", "write_plan"}
    BY <1>2, <1>5, <2>1 DEF Ready, PlansReady, ReadBest, At
  <2>3. Ready(m) /\ Away(m)
    BY <1>2, <2>1, <2>2 DEF Ready, GenerationReady, NamesReady, SettingsReady, CouponReady,
                CheckoutReady, ChatReady, Away, Special
  <2> QED
    BY <1>2, <2>1, <2>3, KeptSo
<1>6. CASE ReadBest(r) /\ ~Goto(r, req[r].next)
  <2>1. PICK todo : Keep(r, With(req[r], [todo |-> todo, pc |-> "clear_plan"]))
    BY <1>6 DEF ReadBest
  <2>2. PICK fields : fields = [todo |-> todo, pc |-> "clear_plan"]
    OBVIOUS
  <2>3. PICK m : m = With(req[r], fields)
    OBVIOUS
  <2>4. /\ DOMAIN m = DOMAIN req[r] \cup DOMAIN fields
        /\ \A x \in DOMAIN fields : m[x] = fields[x]
        /\ \A x \in DOMAIN req[r] \ DOMAIN fields : m[x] = req[r][x]
    BY <2>3 DEF With
  <2>5. {"next", "form"} \subseteq DOMAIN req[r] /\ "pc" \in DOMAIN req[r] /\ req[r].pc = "read_best"
    BY <1>2, <1>6 DEF Ready, PlansReady, ReadBest, At
  <2>6. /\ m.pc = "clear_plan" /\ DOMAIN m = DOMAIN req[r] \cup {"todo"}
        /\ m.next = req[r].next /\ m.form = req[r].form
    BY <2>2, <2>4, <2>5
  <2>7. Keep(r, m)
    BY <2>1, <2>2, <2>3
  <2> QED
    BY <1>4, <2>5, <2>6, <2>7
<1>7. CASE ClearPlan(r)
  <2>1. PICK rest : Keep(r, [req[r] EXCEPT !.todo = rest, !.pc = IF rest = {} THEN req[r].next ELSE "clear_plan"])
    BY <1>7 DEF ClearPlan
  <2>2. PICK m : m = [req[r] EXCEPT !.todo = rest, !.pc = IF rest = {} THEN req[r].next ELSE "clear_plan"]
    OBVIOUS
  <2>3. Keep(r, m)
    BY <2>1, <2>2
  <2>4. {"next", "form"} \subseteq DOMAIN req[r] /\ "pc" \in DOMAIN req[r] /\ req[r].pc = "clear_plan"
    BY <1>2, <1>7 DEF Ready, PlansReady, ClearPlan, At
  <2>5. /\ m.pc \in {req[r].next, "clear_plan"} /\ DOMAIN m = DOMAIN req[r]
        /\ m.next = req[r].next /\ m.form = req[r].form
    BY <2>2, <2>4
  <2>6. PlansReady(m) /\ m.pc \in {"clear_plan", "insert_plan", "write_plan"}
    BY <1>2, <2>4, <2>5 DEF Ready, PlansReady
  <2>7. Ready(m) /\ Away(m)
    BY <1>2, <2>4, <2>5, <2>6 DEF Ready, GenerationReady, NamesReady, SettingsReady, CouponReady,
                CheckoutReady, ChatReady, Away, Special
  <2> QED
    BY <1>2, <2>3, <2>7, KeptSo
<1> QED
  BY <1>3, <1>5, <1>6, <1>7 DEF PlansStep, InsertPlan, WritePlan, WriteDefault

LEMMA SettingsArriveSo ==
    ASSUME LocalsReady, NEW r \in Reqs, SettingsArrive(r)
    PROVE  Silent(r)
<1> USE DEF Particular, Generating, Slept, InsightNexts, CouponPcs, CheckoutPcs, ChatPcs, MessagePcs,
           Answering, ListedPcs, Chatting, Plain
<1>0. PICK then \in {"answer", "write_general", "write_legal"} : \E edit : BeginSettingsRequest(r, then, edit)
  BY DEF SettingsArrive
<1>1. PICK edit : BeginSettingsRequest(r, then, edit)
  BY <1>0
<1>2. PICK l : l = [pc |-> "get_settings", then |-> then, edit |-> edit]
  OBVIOUS
<1>3. Begin(r, l)
  BY <1>1, <1>2 DEF BeginSettingsRequest
<1>4. Ready(l) /\ Away(l)
  BY <1>2 DEF Ready, GenerationReady, NamesReady, PlansReady, SettingsReady, CouponReady,
              CheckoutReady, ChatReady, Away, Special
<1> QED
  BY <1>3, <1>4, BegunSo

LEMMA SettingsStepSo ==
    ASSUME LocalsReady, NEW r \in Reqs, SettingsStep(r)
    PROVE  Silent(r)
<1> USE DEF Particular, Generating, Slept, InsightNexts, CouponPcs, CheckoutPcs, ChatPcs, MessagePcs,
           Answering, ListedPcs, Chatting, Plain
<1>1. req[r].pc \in {"get_settings", "create_settings", "upgrade_settings", "write_legal", "write_general"}
  BY DEF SettingsStep, GetSettings, CreateSettings, UpgradeSettings, WriteLegal, WriteGeneral, At
<1>2. Away(req[r]) /\ Ready(req[r]) /\ "pc" \in DOMAIN req[r]
  BY <1>1, From DEF Special, At, LocalsReady, Ready
<1>3. ASSUME NEW m, Keep(r, m), "then" \in DOMAIN m, m.then \in {"answer", "write_general", "write_legal"},
             "pc" \in DOMAIN m, m.pc \in {"get_settings", "create_settings", "upgrade_settings"},
             Plain(m)
      PROVE  Silent(r)
  <2>1. Ready(m) /\ Away(m)
    BY <1>3 DEF Ready, GenerationReady, NamesReady, PlansReady, SettingsReady, CouponReady,
                CheckoutReady, ChatReady, Away, Special
  <2> QED
    BY <1>2, <1>3, <2>1, KeptSo
<1>4. CASE WriteLegal(r) \/ WriteGeneral(r)
  <2>1. PICK m : m = [pc |-> "get_settings", then |-> "answer", edit |-> NULL]
    OBVIOUS
  <2>2. Keep(r, m)
    BY <1>4, <2>1 DEF WriteLegal, WriteGeneral
  <2> QED
    BY <1>3, <2>1, <2>2
<1>5. ASSUME NEW doc, NEW legal, Continue(r, doc, legal),
             req[r].pc \in {"get_settings", "create_settings", "upgrade_settings"}
      PROVE  Silent(r)
  <2>1. req[r].then \in {"answer", "write_general", "write_legal"}
    BY <1>2, <1>5 DEF Ready, SettingsReady
  <2>2. CASE Done(r)
    BY <1>2, <2>2, EndsSo
  <2>3. CASE ~Done(r)
    <3>1. PICK m : m = [pc |-> req[r].then, edit |-> req[r].edit, doc |-> doc, legal |-> legal]
      OBVIOUS
    <3>2. Keep(r, m) /\ req[r].then # "answer"
      BY <1>5, <2>3, <3>1 DEF Continue
    <3>3. Ready(m) /\ Away(m)
      BY <2>1, <3>1, <3>2, PlainOutside
    <3> QED
      BY <1>2, <3>2, <3>3, KeptSo
  <2> QED
    BY <2>2, <2>3
<1>6. CASE CreateSettings(r)
  <2>1. PICK doc, legal : Continue(r, doc, legal)
    BY <1>6 DEF CreateSettings
  <2> QED
    BY <1>5, <1>6, <2>1 DEF CreateSettings, At
<1>7. CASE UpgradeSettings(r)
  <2>1. PICK doc, legal : Continue(r, doc, legal)
    BY <1>7 DEF UpgradeSettings
  <2> QED
    BY <1>5, <1>7, <2>1 DEF UpgradeSettings, At
<1>8. CASE GetSettings(r)
  <2>0. /\ req[r].pc = "get_settings" /\ "then" \in DOMAIN req[r]
        /\ req[r].then \in {"answer", "write_general", "write_legal"}
    BY <1>2, <1>8 DEF GetSettings, At, Ready, SettingsReady
  <2>1. CASE Goto(r, "create_settings")
    <3>1. PICK m : /\ Keep(r, m) /\ m.pc = "create_settings" /\ DOMAIN m = DOMAIN req[r]
                   /\ "pc" \in DOMAIN m /\ \A f \in DOMAIN m \ {"pc"} : m[f] = req[r][f]
      BY <2>1, GoneTo
    <3> QED
      BY <1>2, <1>3, <2>0, <3>1 DEF Away
  <2>2. ASSUME NEW doc, NEW legal, Continue(r, doc, legal) PROVE Silent(r)
    BY <1>5, <2>0, <2>2
  <2>3. ASSUME NEW legal, Keep(r, With(req[r], [legal |-> legal, pc |-> "upgrade_settings"]))
        PROVE  Silent(r)
    <3>1. PICK fields : fields = [legal |-> legal, pc |-> "upgrade_settings"]
      OBVIOUS
    <3>2. PICK m : m = With(req[r], fields)
      OBVIOUS
    <3>3. /\ DOMAIN m = DOMAIN req[r] \cup DOMAIN fields
          /\ \A x \in DOMAIN fields : m[x] = fields[x]
          /\ \A x \in DOMAIN req[r] \ DOMAIN fields : m[x] = req[r][x]
      BY <3>2 DEF With
    <3>4. /\ m.pc = "upgrade_settings" /\ "then" \in DOMAIN m /\ m.then = req[r].then
          /\ "pc" \in DOMAIN m /\ Plain(m)
      BY <1>2, <2>0, <3>1, <3>3 DEF Away
    <3>5. Keep(r, m)
      BY <2>3, <3>1, <3>2
    <3> QED
      BY <1>3, <2>0, <3>4, <3>5
  <2> QED
    BY <1>8, <2>1, <2>2, <2>3 DEF GetSettings
<1> QED
  BY <1>4, <1>6, <1>7, <1>8 DEF SettingsStep

LEMMA TicketsSo ==
    ASSUME LocalsReady, NEW r \in Reqs, TicketsArrive(r) \/ TicketsStep(r)
    PROVE  Silent(r)
<1> USE DEF Particular, Generating, Slept, InsightNexts, CouponPcs, CheckoutPcs, ChatPcs, MessagePcs,
           Answering, ListedPcs, Chatting, Plain
<1>1. CASE TicketsArrive(r)
  <2>1. PICK l : /\ Begin(r, l) /\ "pc" \in DOMAIN l /\ Plain(l)
                 /\ l.pc \in {"insert_ticket", "gather", "add_message", "resolve"}
    <3>1. CASE BeginTicket(r)
      BY <3>1 DEF BeginTicket
    <3>2. CASE BeginManagementPage(r)
      BY <3>2 DEF BeginManagementPage
    <3>3. ASSUME NEW t, BeginReply(r, t) \/ BeginResolve(r, t)
          PROVE  \E l : /\ Begin(r, l) /\ "pc" \in DOMAIN l /\ Plain(l)
                        /\ l.pc \in {"add_message", "resolve"}
      BY <3>3 DEF BeginReply, BeginResolve
    <3> QED
      BY <1>1, <3>1, <3>2, <3>3 DEF TicketsArrive
  <2> QED
    BY <2>1, BegunSo, PlainOutside
<1>2. CASE TicketsStep(r)
  <2>1. req[r].pc \in {"insert_ticket", "gather", "add_message", "resolve", "show_page"}
    BY <1>2 DEF TicketsStep, InsertTicket, AddMessage, ResolveTicket, Gather, ShowPage, At
  <2>2. Away(req[r])
    BY <2>1, From DEF Special, At
  <2>3. CASE Done(r)
    BY <2>2, <2>3, EndsSo
  <2>4. CASE Gather(r)
    <3>1. PICK page : Keep(r, [pc |-> IF NULL \in {page[w] : w \in DOMAIN page} THEN "gather" ELSE "show_page", page |-> page])
      BY <2>4 DEF Gather
    <3>2. PICK m : m = [pc |-> IF NULL \in {page[w] : w \in DOMAIN page} THEN "gather" ELSE "show_page", page |-> page]
      OBVIOUS
    <3>3. "pc" \in DOMAIN m /\ Plain(m) /\ m.pc \in {"gather", "show_page"} /\ Keep(r, m)
      BY <3>1, <3>2
    <3> QED
      BY <2>2, <3>3, KeptSo, PlainOutside
  <2> QED
    BY <1>2, <2>3, <2>4 DEF TicketsStep, InsertTicket, AddMessage, ResolveTicket, ShowPage
<1> QED
  BY <1>1, <1>2

-----------------------------------------------------------------------------
(* Insights, coupons and checkouts, and requests that do not end.          *)
CouponsInv ==
    /\ coupons \in Seq(Range(coupons))
    /\ \A i \in Redeemable : Issued(coupons[i])
    /\ CodesDiffer

PricesInv ==
    /\ plans \in Seq(Range(plans))
    /\ \A i \in DOMAIN plans : "price" \in DOMAIN plans[i] /\ plans[i].price \in Nat

LEMMA EndsMoves ==
    ASSUME LocalsReady, NEW r \in Reqs, Done(r), req[r].pc \notin Slept
    PROVE  Moves(r, Idle)
  BY IdleReady DEF Done, Moves

LEMMA InsightMoves ==
    ASSUME LocalsReady, NEW r \in Reqs, BeginInsight(r) \/ InsightStep(r)
    PROVE  /\ req[r].pc \in {"idle"} \cup InsightNexts
           /\ \E l : Moves(r, l) /\ l.pc \in {"idle", "ask"} /\ ~Chatting(l)
<1> USE DEF Generating, Slept, InsightNexts, CouponPcs, CheckoutPcs, ChatPcs, MessagePcs,
           Answering, ListedPcs, Chatting
<1>1. Ready(req[r])
  BY DEF LocalsReady
<1>2. CASE BeginInsight(r)
  <2>1. PICK l : l = [pc |-> "ask", key |-> "insight_en", next |-> "ask_translated", text |-> NULL,
                      leader |-> NULL, newest |-> Len(insights)]
    OBVIOUS
  <2>2. l.pc = "ask" /\ ~Chatting(l) /\ req[r].pc = "idle" /\ req' = [req EXCEPT ![r] = l]
    BY <1>2, <2>1 DEF BeginInsight, Begin, At
  <2>3. Ready(l)
    BY <2>1, <2>2, KeysAssumption DEF Ready, GenerationReady, NamesReady, PlansReady, SettingsReady,
       CouponReady, CheckoutReady, ChatReady
  <2> QED
    BY <2>2, <2>3 DEF Moves
<1>3. CASE AskTranslated(r)
  <2>1. PICK m : m = Asking(req[r], "insight_it", "write_insight")
    OBVIOUS
  <2>2. /\ req[r].pc = "ask_translated" /\ "newest" \in DOMAIN req[r] /\ "id" \notin DOMAIN req[r]
        /\ {"pc", "key", "next", "text", "leader"} \subseteq DOMAIN req[r] /\ ~Chatting(req[r])
    BY <1>1, <1>3 DEF AskTranslated, At, Ready, GenerationReady, ChatReady
  <2>3. m.pc = "ask" /\ m.key = "insight_it" /\ m.next = "write_insight" /\ DOMAIN m = DOMAIN req[r]
    BY <2>1, <2>2 DEF Asking
  <2>4. Ready(m)
    BY <2>2, <2>3, KeysAssumption DEF Ready, GenerationReady, NamesReady, PlansReady, SettingsReady,
       CouponReady, CheckoutReady, ChatReady
  <2>5. req' = [req EXCEPT ![r] = m]
    BY <1>3, <2>1 DEF AskTranslated, Keep
  <2> QED
    BY <2>2, <2>3, <2>4, <2>5 DEF Moves
<1>4. CASE WriteInsight(r)
  <2>1. Done(r) /\ req[r].pc = "write_insight"
    BY <1>4 DEF WriteInsight, At
  <2> QED
    BY <2>1, EndsMoves, Idles DEF Plain
<1> QED
  BY <1>2, <1>3, <1>4 DEF InsightStep

(* A price is quoted between nothing and that of the plan.                 *)
LEMMA QuoteInRange ==
    ASSUME NEW coupon, Issued(coupon), NEW price \in Nat
    PROVE  LET q == Quote(coupon, price) IN q.original = price /\ q.final \in 0 .. price
<1>1. coupon.value \in Nat /\ coupon.percentage \in BOOLEAN
  BY DEF Issued, CouponFields, Valued
<1>2. price * coupon.value \in Nat
  BY <1>1
<1>3. \A n \in Nat : n \div 100 \in Nat
  OBVIOUS
<1>4. (price * coupon.value) \div 100 \in Nat
  BY <1>2, <1>3
<1>5. PICK d : d = Discount(coupon, price)
  OBVIOUS
<1>6. d \in Nat
  BY <1>1, <1>4, <1>5 DEF Discount
<1> QED
  BY <1>5, <1>6 DEF Quote

(* Something is selected, if anything is offered.                          *)
LEMMA Selected ==
    ASSUME PricesInv, Active # {}
    PROVE  SelectedPlan \in DOMAIN plans
<1>1. PICK from : from = IF Active \cap Flagged = {} THEN Active ELSE Active \cap Flagged
  OBVIOUS
<1>2. from # {} /\ from \subseteq DOMAIN plans /\ DOMAIN plans \subseteq Nat
  BY <1>1 DEF Active, PricesInv
<1>3. PICK R : R = {ss \in Nat \X Nat : ss[1] < ss[2]} /\ IsWellFoundedOn(R, Nat)
  BY NatLessThanWellFounded DEF OpToRel
<1>4. PICK n \in from : \A j \in from : <<j, n>> \notin R
  BY <1>2, <1>3, WFMin
<1>6. ASSUME NEW j \in from PROVE n <= j
  <2>1. j \in Nat /\ n \in Nat /\ <<j, n>> \notin R
    BY <1>2, <1>4
  <2>2. \A x, y \in Nat : x < y => <<x, y>> \in R
    BY <1>3
  <2>3. ~(j < n)
    BY <2>1, <2>2
  <2> QED
    BY <2>1, <2>3
<1>5. SelectedPlan = CHOOSE i \in from : \A j \in from : i <= j
  BY <1>1 DEF SelectedPlan
<1> QED
  BY <1>2, <1>5, <1>6

LEMMA CouponLocal ==
    ASSUME NEW l, "pc" \in DOMAIN l, Plain(l), l.pc \in CouponPcs, CouponReady(l)
    PROVE  Ready(l) /\ l.pc \notin Slept
  BY DEF Ready, GenerationReady, NamesReady, PlansReady, SettingsReady, CheckoutReady, ChatReady, CouponPcs,
     CheckoutPcs, Generating, InsightNexts, Slept, Plain, Chatting, ChatPcs, MessagePcs, Answering, ListedPcs

LEMMA CouponMoves ==
    ASSUME LocalsReady, CouponsInv, PricesInv, NEW r \in Reqs, CouponsArrive(r) \/ CouponsStep(r)
    PROVE  /\ req[r].pc \in {"idle"} \cup CouponPcs
           /\ \E l : Moves(r, l) /\ l.pc \in {"idle"} \cup CouponPcs /\ Plain(l)
<1> USE DEF CouponPcs, Plain
<1>1. Ready(req[r]) /\ DOMAIN req = Reqs /\ "pc" \in DOMAIN req[r]
  BY DEF LocalsReady, Ready
<1>2. ASSUME NEW l, Begin(r, l), "pc" \in DOMAIN l, Plain(l), l.pc \in CouponPcs, CouponReady(l)
      PROVE  /\ req[r].pc \in {"idle"} \cup CouponPcs
             /\ \E m : Moves(r, m) /\ m.pc \in {"idle"} \cup CouponPcs /\ Plain(m)
  <2>1. req[r].pc = "idle" /\ req' = [req EXCEPT ![r] = l]
    BY <1>2 DEF Begin, At
  <2> QED
    BY <1>2, <2>1, CouponLocal DEF Moves, Slept
<1>3. CASE CouponsArrive(r)
  <2>1. ASSUME NEW form \in CouponForms, BeginCreateCoupon(r, form)
        PROVE  \E l : Begin(r, l) /\ DOMAIN l = {"pc", "coupon"} /\ l.pc = "insert_coupon" /\ l.coupon \in CouponForms
    BY <2>1 DEF BeginCreateCoupon
  <2>2. ASSUME NEW i, BeginDeleteCoupon(r, i)
        PROVE  \E l : Begin(r, l) /\ DOMAIN l = {"pc", "coupon"} /\ l.pc = "delete_coupon"
    BY <2>2 DEF BeginDeleteCoupon
  <2>3. ASSUME NEW i, NEW updates \in CouponEdits, BeginUpdateCoupon(r, i, updates)
        PROVE  \E l : /\ Begin(r, l) /\ DOMAIN l = {"pc", "coupon", "updates"} /\ l.pc = "write_coupon"
                      /\ Editing(l.updates)
    <3>1. PICK u : u = IF "expires" \in DOMAIN updates THEN With(updates, [dated |-> FALSE]) ELSE updates
      OBVIOUS
    <3>2. Editing(u)
      BY <3>1, CouponsAssumption DEF With, Editing, Valued
    <3>3. Begin(r, [pc |-> "write_coupon", coupon |-> i, updates |-> u])
      BY <2>3, <3>1 DEF BeginUpdateCoupon
    <3> QED
      BY <3>2, <3>3
  <2>4. CASE BeginManagement(r)
    <3>1. PICK l : Begin(r, l) /\ DOMAIN l = {"pc", "then"} /\ l.pc = "mark_expired" /\ l.then = "answer"
      BY <2>4 DEF BeginManagement
    <3> QED
      BY <1>2, <3>1 DEF CouponReady
  <2>5. ASSUME NEW code, BeginPreview(r, code)
        PROVE  \E l : /\ Begin(r, l) /\ DOMAIN l = {"pc", "then", "code", "price"} /\ l.pc = "mark_expired"
                      /\ l.then = "read_coupon" /\ l.price \in Nat
    <3>1. PICK price : price = plans[SelectedPlan].price
      OBVIOUS
    <3>2. price \in Nat
      BY <2>5, <3>1, Selected DEF BeginPreview, PricesInv
    <3>3. Begin(r, [pc |-> "mark_expired", then |-> "read_coupon", code |-> code, price |-> price])
      BY <2>5, <3>1 DEF BeginPreview
    <3> QED
      BY <3>2, <3>3
  <2>6. ASSUME NEW form \in CouponForms, BeginCreateCoupon(r, form)
        PROVE  /\ req[r].pc \in {"idle"} \cup CouponPcs
               /\ \E m : Moves(r, m) /\ m.pc \in {"idle"} \cup CouponPcs /\ Plain(m)
    BY <1>2, <2>1, <2>6 DEF CouponReady
  <2>7. ASSUME NEW i, BeginDeleteCoupon(r, i)
        PROVE  /\ req[r].pc \in {"idle"} \cup CouponPcs
               /\ \E m : Moves(r, m) /\ m.pc \in {"idle"} \cup CouponPcs /\ Plain(m)
    BY <1>2, <2>2, <2>7 DEF CouponReady
  <2>8. ASSUME NEW i, NEW updates \in CouponEdits, BeginUpdateCoupon(r, i, updates)
        PROVE  /\ req[r].pc \in {"idle"} \cup CouponPcs
               /\ \E m : Moves(r, m) /\ m.pc \in {"idle"} \cup CouponPcs /\ Plain(m)
    BY <1>2, <2>3, <2>8 DEF CouponReady
  <2>9. ASSUME NEW code, BeginPreview(r, code)
        PROVE  /\ req[r].pc \in {"idle"} \cup CouponPcs
               /\ \E m : Moves(r, m) /\ m.pc \in {"idle"} \cup CouponPcs /\ Plain(m)
    BY <1>2, <2>5, <2>9 DEF CouponReady, Priced
  <2> QED
    BY <1>3, <2>4, <2>6, <2>7, <2>8, <2>9 DEF CouponsArrive
<1>4. CASE CouponsStep(r)
  <2>1. req[r].pc \in CouponPcs
    BY <1>4 DEF CouponsStep, InsertCoupon, WriteCoupon, DeleteCoupon, MarkExpired, ReadCoupon, SendQuote, At
  <2>2. CASE Done(r)
    BY <2>1, <2>2, EndsMoves, Idles DEF Slept
  <2>3. CASE MarkExpired(r) /\ ~Done(r)
    <3>1. Goto(r, "read_coupon") /\ Priced(req[r])
      BY <1>1, <2>3 DEF MarkExpired, At, Ready, CouponReady
    <3>2. PICK m : /\ Keep(r, m) /\ m.pc = "read_coupon" /\ DOMAIN m = DOMAIN req[r] /\ "pc" \in DOMAIN m
                   /\ \A f \in DOMAIN m \ {"pc"} : m[f] = req[r][f]
      BY <3>1, GoneTo
    <3>3. Plain(m) /\ CouponReady(m)
      <4>1. req[r].pc \notin Generating \cup InsightNexts \cup ChatPcs
        BY <2>1 DEF Generating, Slept, InsightNexts, ChatPcs, MessagePcs, Answering, ListedPcs
      <4>2. Plain(req[r])
        BY <1>1, <4>1 DEF Ready, GenerationReady, ChatReady, Chatting
      <4> QED
        BY <3>1, <3>2, <4>2 DEF CouponReady, Priced
    <3> QED
      BY <2>1, <3>2, <3>3, CouponLocal DEF Moves, Keep, Slept
  <2>4. CASE ReadCoupon(r) /\ ~Done(r)
    <3>1. PICK i \in Redeemable : Keep(r, [pc |-> "quote", from |-> i, quote |-> Quote(coupons[i], req[r].price)])
      BY <2>4 DEF ReadCoupon, WithCode, Raised
    <3>2. Issued(coupons[i]) /\ req[r].price \in Nat
      BY <1>1, <2>4 DEF CouponsInv, ReadCoupon, At, Ready, CouponReady, Priced
    <3>3. PICK q : q = Quote(coupons[i], req[r].price)
      OBVIOUS
    <3>4. q.final \in 0 .. q.original
      BY <3>2, <3>3, QuoteInRange
    <3>5. PICK m : m = [pc |-> "quote", from |-> i, quote |-> q]
      OBVIOUS
    <3>6. m.pc = "quote" /\ CouponReady(m) /\ Plain(m) /\ "pc" \in DOMAIN m
      BY <3>4, <3>5 DEF CouponReady
    <3>7. Keep(r, m)
      BY <3>1, <3>3, <3>5
    <3> QED
      BY <2>1, <3>6, <3>7, CouponLocal DEF Moves, Keep, Slept
  <2> QED
    BY <1>4, <2>2, <2>3, <2>4 DEF CouponsStep, InsertCoupon, WriteCoupon, DeleteCoupon, SendQuote
<1> QED
  BY <1>3, <1>4

LEMMA CheckoutMoves ==
    ASSUME LocalsReady, NEW r \in Reqs, BeginCheckout(r) \/ CheckoutStep(r)
    PROVE  /\ req[r].pc \in {"idle"} \cup CheckoutPcs
           /\ \E l : Moves(r, l) /\ l.pc \in {"idle"} \cup CheckoutPcs /\ Plain(l)
<1> USE DEF CheckoutPcs, Plain, Chatting
<1>1. Ready(req[r]) /\ DOMAIN req = Reqs /\ "pc" \in DOMAIN req[r]
  BY DEF LocalsReady, Ready
<1>2. ASSUME NEW l, DOMAIN l = {"pc", "for"}, l.pc \in CheckoutPcs
      PROVE  Ready(l) /\ l.pc \notin Slept
  BY <1>2 DEF Ready, GenerationReady, NamesReady, PlansReady, SettingsReady, CouponReady,
     CheckoutReady, ChatReady, CouponPcs, Generating, InsightNexts, Slept, ChatPcs, MessagePcs, Answering, ListedPcs
<1>3. CASE BeginCheckout(r)
  <2>1. PICK l : l = [pc |-> IF customer = NULL THEN "create_customer" ELSE "create_session", for |-> customer]
    OBVIOUS
  <2>2. DOMAIN l = {"pc", "for"} /\ l.pc \in CheckoutPcs
    BY <2>1
  <2>3. req[r].pc = "idle" /\ req' = [req EXCEPT ![r] = l]
    BY <1>3, <2>1 DEF BeginCheckout, Begin, At
  <2> QED
    BY <1>2, <2>2, <2>3 DEF Moves, Slept
<1>4. CASE CreateCustomer(r)
  <2>1. PICK l : l = [pc |-> "write_customer", for |-> stripe'.customers]
    OBVIOUS
  <2>2. DOMAIN l = {"pc", "for"} /\ l.pc \in CheckoutPcs
    BY <2>1
  <2>3. req[r].pc = "create_customer" /\ req' = [req EXCEPT ![r] = l]
    BY <1>4, <2>1 DEF CreateCustomer, Keep, At
  <2> QED
    BY <1>2, <2>2, <2>3 DEF Moves, Slept
<1>5. CASE WriteCustomer(r)
  <2>1. Goto(r, "create_session") /\ req[r].pc = "write_customer"
    BY <1>5 DEF WriteCustomer, At
  <2>2. PICK m : /\ Keep(r, m) /\ m.pc = "create_session" /\ DOMAIN m = DOMAIN req[r] /\ "pc" \in DOMAIN m
                 /\ \A f \in DOMAIN m \ {"pc"} : m[f] = req[r][f]
    BY <2>1, GoneTo
  <2>3. Plain(m) /\ "id" \notin DOMAIN m /\ "for" \in DOMAIN m
    BY <1>1, <2>1, <2>2 DEF Ready, GenerationReady, CheckoutReady, ChatReady, Generating, Slept, InsightNexts,
       ChatPcs, MessagePcs, Answering, ListedPcs
  <2>4. Ready(m)
    BY <2>2, <2>3 DEF Ready, GenerationReady, NamesReady, PlansReady, SettingsReady, CouponReady,
     CheckoutReady, ChatReady, CouponPcs, Generating, InsightNexts, Slept, ChatPcs, MessagePcs, Answering, ListedPcs
  <2> QED
    BY <2>1, <2>2, <2>3, <2>4 DEF Moves, Keep, Slept
<1>6. CASE CreateSession(r)
  <2>1. Done(r) /\ req[r].pc = "create_session"
    BY <1>6 DEF CreateSession, At
  <2> QED
    BY <2>1, EndsMoves, Idles DEF Slept
<1> QED
  BY <1>3, <1>4, <1>5, <1>6 DEF CheckoutStep

-----------------------------------------------------------------------------
(* A generation is asked for, ends, and lets its requests go on.           *)
Follows(l, m) ==
    \/ m = Idle
    \/ /\ DOMAIN m = DOMAIN l
       /\ m.pc \in Slept \cup InsightNexts \cup OtherNexts
       /\ "newest" \in DOMAIN l => m.newest = l.newest
       /\ "upto" \in DOMAIN l => m.upto = l.upto

LEMMA Generates ==
    ASSUME NEW l, Ready(l), l.pc \in Generating, NEW m, DOMAIN m = DOMAIN l, NEW text, NEW leader,
           \/ m = Got(l, text)
           \/ m = Awaiting(l, leader)
           \/ m = [l EXCEPT !.pc = "wake", !.text = text]
    PROVE  Ready(m) /\ Follows(l, m)
<1> USE DEF Generating, Slept, InsightNexts, OtherNexts, AlertNexts, CouponPcs, CheckoutPcs
<1>1. /\ {"pc", "key", "next", "text", "leader"} \subseteq DOMAIN l /\ l.key \in Keys
      /\ l.next \in (IF "newest" \in DOMAIN l THEN InsightNexts ELSE OtherNexts)
      /\ "newest" \in DOMAIN l => "id" \notin DOMAIN l
  BY DEF Ready, GenerationReady
<1>2. /\ m.pc \in {"await_text", "wake"} \/ m.pc = l.next
      /\ m.key = l.key /\ m.next = l.next
      /\ "newest" \in DOMAIN l => m.newest = l.newest
      /\ "upto" \in DOMAIN l => m.upto = l.upto
  BY <1>1 DEF Got, Awaiting
<1>3. GenerationReady(m)
  BY <1>1, <1>2 DEF GenerationReady
<1>4. m.pc \in Slept \cup InsightNexts \cup OtherNexts
  BY <1>1, <1>2
<1>5. /\ (l.next = "write_translation") <=> Chatting(l)
      /\ Chatting(l) => "upto" \in DOMAIN l /\ "newest" \notin DOMAIN l /\ "id" \notin DOMAIN l
  BY DEF Ready, ChatReady
<1>6. Chatting(m) <=> Chatting(l)
  BY DEF Chatting
<1>7. ChatReady(m)
  BY <1>2, <1>4, <1>5, <1>6 DEF ChatReady, ChatPcs, MessagePcs, Answering, ListedPcs
<1> QED
  BY <1>1, <1>2, <1>3, <1>4, <1>7 DEF Ready, NamesReady, PlansReady, SettingsReady, CouponReady, CheckoutReady, Follows

LEMMA AskLocals ==
    ASSUME LocalsReady, NEW r \in Reqs, Ask(r) \/ Wake(r)
    PROVE  /\ req[r].pc \in Generating
           /\ \E m : req' = [req EXCEPT ![r] = m] /\ Ready(m) /\ Follows(req[r], m)
<1>1. Ready(req[r]) /\ req[r].pc \in Generating
  BY DEF LocalsReady, Ask, Wake, At, Generating, Slept
<1>2. \/ Keep(r, Idle)
      \/ \E text : Keep(r, Got(req[r], text))
      \/ \E l : Keep(r, Awaiting(req[r], l))
  BY DEF Ask, Wake, Lead, Raised, Done, Keep
<1>3. CASE Keep(r, Idle)
  BY <1>1, <1>3, IdleReady DEF Keep, Follows
<1>4. ASSUME NEW text, Keep(r, Got(req[r], text))
      PROVE  \E m : req' = [req EXCEPT ![r] = m] /\ Ready(m) /\ Follows(req[r], m)
  <2>1. PICK m : m = Got(req[r], text)
    OBVIOUS
  <2>2. DOMAIN m = DOMAIN req[r]
    BY <2>1 DEF Got
  <2>3. Ready(m) /\ Follows(req[r], m)
    BY <1>1, <2>1, <2>2, Generates
  <2> QED
    BY <1>4, <2>1, <2>3 DEF Keep
<1>5. ASSUME NEW l, Keep(r, Awaiting(req[r], l))
      PROVE  \E m : req' = [req EXCEPT ![r] = m] /\ Ready(m) /\ Follows(req[r], m)
  <2>1. PICK m : m = Awaiting(req[r], l)
    OBVIOUS
  <2>2. DOMAIN m = DOMAIN req[r]
    BY <2>1 DEF Awaiting
  <2>3. Ready(m) /\ Follows(req[r], m)
    BY <1>1, <2>1, <2>2, Generates
  <2> QED
    BY <1>5, <2>1, <2>3 DEF Keep
<1> QED
  BY <1>1, <1>2, <1>3, <1>4, <1>5

LEMMA EndsLocals ==
    ASSUME LocalsReady, NEW k, NEW text, Ends(k, text)
    PROVE  /\ DOMAIN req' = Reqs
           /\ \A q \in Reqs : \/ req'[q] = req[q]
                              \/ req[q].pc \in Generating /\ Ready(req'[q]) /\ Follows(req[q], req'[q])
<1>1. DOMAIN req' = Reqs
  BY DEF Ends
<1>2. ASSUME NEW q \in Reqs
      PROVE  \/ req'[q] = req[q]
             \/ req[q].pc \in Generating /\ Ready(req'[q]) /\ Follows(req[q], req'[q])
  <2>1. CASE q \notin Awaiters(k)
    BY <2>1 DEF Ends
  <2>2. CASE q \in Awaiters(k)
    <3>1. PICK m : m = [req[q] EXCEPT !.pc = "wake", !.text = text]
      OBVIOUS
    <3>2. DOMAIN m = DOMAIN req[q] /\ req'[q] = m
      BY <2>2, <3>1 DEF Ends
    <3>3. Ready(req[q]) /\ req[q].pc \in Generating
      BY <2>2 DEF LocalsReady, Awaiters, At, Generating, Slept
    <3> QED
      BY <3>1, <3>2, <3>3, Generates
  <2> QED
    BY <2>1, <2>2
<1> QED
  BY <1>1, <1>2

-----------------------------------------------------------------------------
(* Every step of the desk is of one of these kinds.                        *)
chatVars == <<chat, memory, shown>>
Ordinarily(r) ==
    /\ Ordinary(r)
    /\ (Silent(r) /\ UNCHANGED chatVars) \/ ChatArrive(r) \/ ChatStep(r)
    /\ PlansStep(r) \/ UNCHANGED plans
    /\ UNCHANGED <<inflight, insights, coupons, customer, stripe>>
OnInsight(r) ==
    /\ BeginInsight(r) \/ InsightStep(r)
    /\ UNCHANGED <<chatVars, inflight, coupons, customer, stripe, plans>>
OnCoupons(r) ==
    /\ CouponsArrive(r) \/ CouponsStep(r)
    /\ UNCHANGED <<chatVars, inflight, insights, customer, stripe, plans>>
OnCheckout(r) ==
    /\ BeginCheckout(r) \/ CheckoutStep(r)
    /\ UNCHANGED <<chatVars, inflight, insights, coupons, plans>>
Stops(r) ==
    /\ req[r].pc \notin Slept \cup {"idle"}
    /\ Done(r)
    /\ UNCHANGED <<chatVars, inflight, insights, coupons, customer, stripe, plans>>
OnGeneration ==
    /\ \/ \E r \in Reqs : Ask(r) \/ Wake(r)
       \/ \E k \in Keys : \E text \in Texts \cup {NULL} : Ends(k, text)
       \/ UNCHANGED <<inflight, req>>
    /\ UNCHANGED <<chatVars, insights, coupons, customer, stripe, plans>>

LEMMA DeskSteps ==
    ASSUME LocalsReady, DeskNext
    PROVE  \/ \E r \in Reqs : Ordinarily(r) \/ OnInsight(r) \/ OnCoupons(r) \/ OnCheckout(r) \/ Stops(r)
           \/ OnGeneration
<1> USE DEF restaurantVars, officeVars, assistantVars, couponVars, checkoutVars, generationVars, chatVars
<1>1. ASSUME NEW r \in Reqs, Arrive(r)
      PROVE  Ordinarily(r) \/ OnInsight(r) \/ OnCoupons(r) \/ OnCheckout(r)
  <2>1. CASE ArriveAtRestaurant(r) /\ UNCHANGED officeVars
    <3>1. CASE BeginInsight(r)
      BY <1>1, <2>1, <3>1 DEF OnInsight, Arrive, BeginInsight
    <3>2. CASE ChatArrive(r)
      <4>1. UNCHANGED insights
        BY <3>2 DEF ChatArrive, BeginHistory, BeginMessage, BeginEditMessage
      <4> QED
        BY <1>1, <2>1, <3>2, <4>1, ChatMoves DEF Ordinarily, Arrive
    <3>3. CASE /\ NamesArrive(r) \/ InventoryArrive(r) \/ DevicesArrive(r) \/ BeginAnalytics(r)
               /\ UNCHANGED assistantVars
      <4>1. Silent(r)
        BY <3>3, NamesArriveSo, InventoryArriveSo, DevicesArriveSo
      <4> QED
        BY <1>1, <2>1, <3>3, <4>1, SilentOrdinary DEF Ordinarily, Arrive
    <3> QED
      BY <2>1, <3>1, <3>2, <3>3 DEF ArriveAtRestaurant
  <2>2. CASE ArriveAtOffice(r) /\ UNCHANGED restaurantVars
    <3>1. CASE PlansArrive(r) /\ UNCHANGED <<couponVars, checkoutVars, settingsVars, ticketVars>>
      <4>1. UNCHANGED plans
        BY <3>1 DEF PlansArrive, BeginCreatePlan, BeginUpdatePlan, BeginStart
      <4> QED
        BY <1>1, <2>2, <3>1, <4>1, PlansArriveSo, SilentOrdinary DEF Ordinarily, Arrive
    <3>2. CASE CouponsArrive(r) /\ UNCHANGED <<plans, checkoutVars, settingsVars, ticketVars>>
      BY <1>1, <2>2, <3>2 DEF OnCoupons, Arrive
    <3>3. CASE BeginCheckout(r) /\ UNCHANGED <<plans, couponVars, settingsVars, ticketVars>>
      BY <1>1, <2>2, <3>3 DEF OnCheckout, Arrive
    <3>4. CASE /\ SettingsArrive(r) \/ TicketsArrive(r)
               /\ UNCHANGED <<plans, couponVars, checkoutVars>>
      BY <1>1, <2>2, <3>4, SettingsArriveSo, TicketsSo, SilentOrdinary DEF Ordinarily, Arrive
    <3> QED
      BY <2>2, <3>1, <3>2, <3>3, <3>4 DEF ArriveAtOffice
  <2> QED
    BY <1>1, <2>1, <2>2 DEF Arrive
<1>2. ASSUME NEW r \in Reqs, Step(r)
      PROVE  Ordinarily(r) \/ OnInsight(r) \/ OnCoupons(r) \/ OnCheckout(r) \/ OnGeneration
  <2>1. CASE RestaurantStep(r) /\ UNCHANGED officeVars
    <3>1. CASE InsightStep(r) /\ UNCHANGED generationVars
      BY <2>1, <3>1 DEF OnInsight, InsightStep, AskTranslated, WriteInsight
    <3>2. CASE (Ask(r) \/ Wake(r)) /\ UNCHANGED restaurantVars
      BY <2>1, <3>2 DEF OnGeneration
    <3>3. CASE ChatStep(r) /\ UNCHANGED generationVars
      <4>1. UNCHANGED insights
        BY <3>3 DEF ChatStep, EditMessage, ReadContext, InsertReply, ListChat, ReadMemory, WriteMemory,
           Broadcast, Answered, WriteTranslation
      <4> QED
        BY <2>1, <3>3, <4>1, ChatMoves DEF Ordinarily
    <3>4. CASE /\ NamesStep(r) \/ InventoryStep(r) \/ InventoryPush(r) \/ DevicesStep(r) \/ AlertsStep(r)
               /\ UNCHANGED <<generationVars, assistantVars>>
      <4>1. Silent(r)
        BY <3>4, NamesStepSo, InventoryStepSo, AlertsStepSo
      <4> QED
        BY <2>1, <3>4, <4>1, SilentOrdinary DEF Ordinarily
    <3> QED
      BY <2>1, <3>1, <3>2, <3>3, <3>4 DEF RestaurantStep
  <2>2. CASE OfficeStep(r) /\ UNCHANGED <<restaurantVars, generationVars>>
    <3>1. CASE PlansStep(r) /\ UNCHANGED <<couponVars, checkoutVars, settingsVars, ticketVars>>
      BY <2>2, <3>1, PlansStepSo, SilentOrdinary DEF Ordinarily
    <3>2. CASE CouponsStep(r) /\ UNCHANGED <<plans, checkoutVars, settingsVars, ticketVars>>
      BY <2>2, <3>2 DEF OnCoupons
    <3>3. CASE CheckoutStep(r) /\ UNCHANGED <<plans, couponVars, settingsVars, ticketVars>>
      BY <2>2, <3>3 DEF OnCheckout
    <3>4. CASE /\ SettingsStep(r) \/ TicketsStep(r)
               /\ UNCHANGED <<plans, couponVars, checkoutVars>>
      BY <2>2, <3>4, SettingsStepSo, TicketsSo, SilentOrdinary DEF Ordinarily
    <3> QED
      BY <2>2, <3>1, <3>2, <3>3, <3>4 DEF OfficeStep
  <2> QED
    BY <1>2, <2>1, <2>2 DEF Step
<1>3. ASSUME NEW r \in Reqs, Stop(r) PROVE Stops(r)
  BY <1>3 DEF Stop, Stops, Raised, InFlight, At, Slept
<1>4. ASSUME NEW k \in Keys, ModelAnswers(k) PROVE OnGeneration
  <2>1. PICK t \in Texts : Ends(k, t)
    BY <1>4 DEF ModelAnswers, Generate
  <2> QED
    BY <1>4, <2>1 DEF ModelAnswers, OnGeneration, deskButGenerations
<1>5. CASE GenerationLost
  <2>1. ASSUME NEW r \in Reqs, CancelAwait(r) PROVE OnGeneration
    <3>1. Ends(req[r].key, NULL) /\ req[r].key \in Keys
      BY <2>1 DEF CancelAwait, At, LocalsReady, Ready, GenerationReady, Generating, Slept
    <3> QED
      BY <1>5, <3>1 DEF GenerationLost, OnGeneration, deskButGenerations
  <2>2. ASSUME NEW k \in Keys, Expire(k) PROVE OnGeneration
    BY <1>5, <2>2 DEF GenerationLost, OnGeneration, deskButGenerations, Expire
  <2> QED
    BY <1>5, <2>1, <2>2 DEF GenerationLost
<1> QED
  BY <1>1, <1>2, <1>3, <1>4, <1>5 DEF DeskNext

LEMMA MovesAlone ==
    ASSUME LocalsReady, CouponsInv, PricesInv, NEW r \in Reqs,
           Ordinarily(r) \/ OnInsight(r) \/ OnCoupons(r) \/ OnCheckout(r) \/ Stops(r)
    PROVE  (\E l : Moves(r, l)) /\ UNCHANGED inflight
<1>1. CASE Ordinarily(r)
  BY <1>1 DEF Ordinarily, Ordinary
<1>2. CASE OnInsight(r)
  BY <1>2, InsightMoves DEF OnInsight
<1>3. CASE OnCoupons(r)
  BY <1>3, CouponMoves DEF OnCoupons
<1>4. CASE OnCheckout(r)
  BY <1>4, CheckoutMoves DEF OnCheckout
<1>5. CASE Stops(r)
  BY <1>5, EndsMoves DEF Stops
<1> QED
  BY <1>1, <1>2, <1>3, <1>4, <1>5

LEMMA LocalsKept ==
    ASSUME LocalsReady, CouponsInv, PricesInv, DeskNext
    PROVE  LocalsReady'
<1>1. ASSUME NEW r \in Reqs, NEW l, req' = [req EXCEPT ![r] = l], Ready(l)
      PROVE  LocalsReady'
  BY <1>1 DEF LocalsReady
<1>2. ASSUME NEW r \in Reqs, Ordinarily(r) \/ OnInsight(r) \/ OnCoupons(r) \/ OnCheckout(r) \/ Stops(r)
      PROVE  LocalsReady'
  BY <1>1, <1>2, MovesAlone DEF Moves
<1>3. CASE OnGeneration
  <2>1. ASSUME NEW r \in Reqs, Ask(r) \/ Wake(r) PROVE LocalsReady'
    BY <1>1, <2>1, AskLocals
  <2>2. ASSUME NEW k, NEW text, Ends(k, text) PROVE LocalsReady'
    <3>1. DOMAIN req' = Reqs /\ \A q \in Reqs : req'[q] = req[q] \/ Ready(req'[q])
      BY <2>2, EndsLocals
    <3> QED
      BY <3>1 DEF LocalsReady
  <2>3. CASE UNCHANGED req
    BY <2>3 DEF LocalsReady
  <2> QED
    BY <1>3, <2>1, <2>2, <2>3 DEF OnGeneration
<1> QED
  BY <1>2, <1>3, DeskSteps

-----------------------------------------------------------------------------
(* A text is being generated for the request that leads, which waits for   *)
(* it; others wait only for a text that is being generated.                *)
Tasks == [leader: Reqs, running: BOOLEAN, text: Texts \cup {NULL}]
Led(k, l) == req[l].key = k /\ req[l].leader = l
GenerationInv ==
    /\ inflight \in [Keys -> Tasks \cup {NULL}]
    /\ \A k \in Keys : inflight[k] # NULL =>
          /\ Led(k, inflight[k].leader)
          /\ At(inflight[k].leader, IF inflight[k].running THEN "await_text" ELSE "wake")
    /\ \A r \in Reqs : At(r, "await_text") =>
          /\ req[r].key \in Keys
          /\ Running(req[r].key)
          /\ inflight[req[r].key].leader = req[r].leader

LEMMA GenerationLeft ==
    ASSUME LocalsReady, GenerationInv, NEW r \in Reqs, NEW l, Moves(r, l), UNCHANGED inflight
    PROVE  GenerationInv'
<1> USE DEF Slept
<1>1. DOMAIN req = Reqs /\ req' = [req EXCEPT ![r] = l] /\ req[r].pc \notin Slept /\ l.pc \notin Slept
  BY DEF LocalsReady, Moves
<1>2. (inflight \in [Keys -> Tasks \cup {NULL}])'
  BY DEF GenerationInv
<1>3. ASSUME NEW k \in Keys, inflight'[k] # NULL
      PROVE  (/\ Led(k, inflight[k].leader)
              /\ At(inflight[k].leader, IF inflight[k].running THEN "await_text" ELSE "wake"))'
  <2>1. inflight[k] \in Tasks /\ inflight'[k] = inflight[k]
    BY <1>3 DEF GenerationInv
  <2>2. PICK q \in Reqs : q = inflight[k].leader
    BY <2>1 DEF Tasks
  <2>3. Led(k, q) /\ req[q].pc = IF inflight[k].running THEN "await_text" ELSE "wake"
    BY <1>3, <2>1, <2>2 DEF GenerationInv, At
  <2>4. q # r /\ req'[q] = req[q]
    BY <1>1, <2>3
  <2> QED
    BY <2>1, <2>2, <2>3, <2>4 DEF Led, At
<1>4. ASSUME NEW q \in Reqs, At(q, "await_text")'
      PROVE  (req[q].key \in Keys /\ Running(req[q].key) /\ inflight[req[q].key].leader = req[q].leader)'
  <2>1. q # r /\ req'[q] = req[q]
    BY <1>1, <1>4 DEF At
  <2> QED
    BY <1>4, <2>1 DEF GenerationInv, At, Running
<1> QED
  BY <1>2, <1>3, <1>4 DEF GenerationInv

LEMMA AskKeeps ==
    ASSUME LocalsReady, GenerationInv, NEW r \in Reqs, Ask(r)
    PROVE  GenerationInv'
<1> USE DEF Slept
<1>1. PICK k \in Keys : /\ k = req[r].key /\ req[r].pc = "ask" /\ DOMAIN req = Reqs
                        /\ {"pc", "key", "next", "text", "leader"} \subseteq DOMAIN req[r]
                        /\ req[r].next \notin Slept
  BY DEF Ask, At, LocalsReady, Ready, GenerationReady, Generating, InsightNexts, OtherNexts, AlertNexts
<1>2. CASE UNCHANGED inflight /\ Keep(r, Idle)
  <2>1. Moves(r, Idle)
    BY <1>1, <1>2, EndsMoves DEF Keep, Done
  <2> QED
    BY <1>2, <2>1, GenerationLeft
<1>3. ASSUME NEW text, UNCHANGED inflight, Keep(r, Got(req[r], text))
      PROVE  GenerationInv'
  <2>1. PICK m : m = Got(req[r], text)
    OBVIOUS
  <2>2. DOMAIN m = DOMAIN req[r] /\ m.pc = req[r].next
    BY <1>1, <2>1 DEF Got
  <2>3. Ready(m)
    BY <1>1, <2>1, <2>2, Generates DEF LocalsReady, Generating
  <2>4. Moves(r, m)
    BY <1>1, <1>3, <2>1, <2>2, <2>3 DEF Moves, Keep
  <2> QED
    BY <1>3, <2>4, GenerationLeft
<1>4. CASE Running(k) /\ Keep(r, Awaiting(req[r], inflight[k].leader)) /\ UNCHANGED inflight
  <2>1. PICK l : l = inflight[k].leader
    OBVIOUS
  <2>2. PICK m : m = Awaiting(req[r], l)
    OBVIOUS
  <2>3. m.pc = "await_text" /\ m.key = k /\ m.leader = l
    BY <1>1, <2>2 DEF Awaiting
  <2>4. req' = [req EXCEPT ![r] = m]
    BY <1>4, <2>1, <2>2 DEF Keep
  <2>5. ASSUME NEW j \in Keys, inflight'[j] # NULL
        PROVE  (/\ Led(j, inflight[j].leader)
                /\ At(inflight[j].leader, IF inflight[j].running THEN "await_text" ELSE "wake"))'
    <3>1. inflight[j] \in Tasks /\ inflight'[j] = inflight[j]
      BY <1>4, <2>5 DEF GenerationInv
    <3>2. PICK q \in Reqs : q = inflight[j].leader
      BY <3>1 DEF Tasks
    <3>3. Led(j, q) /\ req[q].pc = IF inflight[j].running THEN "await_text" ELSE "wake"
      BY <2>5, <3>1, <3>2 DEF GenerationInv, At
    <3>4. q # r /\ req'[q] = req[q]
      BY <1>1, <2>4, <3>3
    <3> QED
      BY <3>1, <3>2, <3>3, <3>4 DEF Led, At
  <2>6. ASSUME NEW q \in Reqs, At(q, "await_text")'
        PROVE  (req[q].key \in Keys /\ Running(req[q].key) /\ inflight[req[q].key].leader = req[q].leader)'
    <3>1. CASE q = r
      <4>1. req'[q] = m
        BY <1>1, <2>4, <3>1
      <4> QED
        BY <1>4, <2>1, <2>3, <4>1 DEF Running
    <3>2. CASE q # r
      <4>1. req'[q] = req[q]
        BY <1>1, <2>4, <3>2
      <4> QED
        BY <1>4, <2>6, <4>1 DEF GenerationInv, At, Running
    <3> QED
      BY <3>1, <3>2
  <2>7. (inflight \in [Keys -> Tasks \cup {NULL}])'
    BY <1>4 DEF GenerationInv
  <2> QED
    BY <2>5, <2>6, <2>7 DEF GenerationInv
<1>5. CASE inflight[k] = NULL /\ Lead(r, k)
  <2>1. PICK task : task = [leader |-> r, running |-> TRUE, text |-> NULL]
    OBVIOUS
  <2>2. task \in Tasks /\ task.leader = r /\ task.running = TRUE /\ task # NULL
    <3>1. NULL \notin Tasks
      BY NullAssumption DEF Tasks
    <3>2. task \in Tasks
      BY <2>1 DEF Tasks
    <3> QED
      BY <2>1, <3>1, <3>2
  <2>3. PICK m : m = Awaiting(req[r], r)
    OBVIOUS
  <2>4. m.pc = "await_text" /\ m.key = k /\ m.leader = r
    BY <1>1, <2>3 DEF Awaiting
  <2>5. req' = [req EXCEPT ![r] = m] /\ inflight' = [inflight EXCEPT ![k] = task]
    BY <1>5, <2>1, <2>3 DEF Lead, Keep
  <2>6. /\ req'[r] = m /\ \A q \in Reqs \ {r} : req'[q] = req[q]
        /\ inflight'[k] = task /\ \A j \in Keys \ {k} : inflight'[j] = inflight[j]
    BY <1>1, <2>5 DEF GenerationInv
  <2>7. ASSUME NEW j \in Keys, inflight'[j] # NULL
        PROVE  (/\ Led(j, inflight[j].leader)
                /\ At(inflight[j].leader, IF inflight[j].running THEN "await_text" ELSE "wake"))'
    <3>1. CASE j = k
      BY <2>2, <2>4, <2>6, <3>1 DEF Led, At
    <3>2. CASE j # k
      <4>1. inflight[j] \in Tasks /\ inflight'[j] = inflight[j]
        BY <2>6, <2>7, <3>2 DEF GenerationInv
      <4>2. PICK q \in Reqs : q = inflight[j].leader
        BY <4>1 DEF Tasks
      <4>3. Led(j, q) /\ req[q].pc = IF inflight[j].running THEN "await_text" ELSE "wake"
        BY <2>7, <4>1, <4>2 DEF GenerationInv, At
      <4>4. q # r /\ req'[q] = req[q]
        BY <1>1, <2>6, <4>3
      <4> QED
        BY <4>1, <4>2, <4>3, <4>4 DEF Led, At
    <3> QED
      BY <3>1, <3>2
  <2>8. ASSUME NEW q \in Reqs, At(q, "await_text")'
        PROVE  (req[q].key \in Keys /\ Running(req[q].key) /\ inflight[req[q].key].leader = req[q].leader)'
    <3>1. CASE q = r
      BY <2>2, <2>4, <2>6, <3>1 DEF Running
    <3>2. CASE q # r
      <4>1. req'[q] = req[q] /\ At(q, "await_text")
        BY <2>6, <2>8, <3>2 DEF At
      <4>2. req[q].key \in Keys /\ Running(req[q].key) /\ inflight[req[q].key].leader = req[q].leader
        BY <4>1 DEF GenerationInv
      <4>3. req[q].key # k /\ inflight'[req[q].key] = inflight[req[q].key]
        BY <1>5, <2>6, <4>2 DEF Running
      <4> QED
        BY <4>1, <4>2, <4>3 DEF Running
    <3> QED
      BY <3>1, <3>2
  <2>9. (inflight \in [Keys -> Tasks \cup {NULL}])'
    BY <2>2, <2>5 DEF GenerationInv
  <2> QED
    BY <2>7, <2>8, <2>9 DEF GenerationInv
<1> QED
  BY <1>1, <1>2, <1>3, <1>4, <1>5 DEF Ask, Raised, Done, Keep

LEMMA WakeKeeps ==
    ASSUME LocalsReady, GenerationInv, NEW r \in Reqs, Wake(r)
    PROVE  GenerationInv'
<1> USE DEF Slept
<1>1. PICK k \in Keys : /\ k = req[r].key /\ req[r].pc = "wake" /\ DOMAIN req = Reqs
                        /\ {"pc", "key", "next", "text", "leader"} \subseteq DOMAIN req[r]
                        /\ req[r].next \notin Slept
  BY DEF Wake, At, LocalsReady, Ready, GenerationReady, Generating, InsightNexts, OtherNexts, AlertNexts
<1>2. PICK m : req' = [req EXCEPT ![r] = m] /\ m.pc \notin Slept
  <2>1. CASE req[r].text = NULL
    BY <2>1, IdleReady DEF Wake, Keep
  <2>2. CASE req[r].text # NULL
    <3>1. PICK m : m = Got(req[r], req[r].text)
      OBVIOUS
    <3>2. m.pc = req[r].next
      BY <1>1, <3>1 DEF Got
    <3> QED
      BY <1>1, <2>2, <3>1, <3>2 DEF Wake, Keep
  <2> QED
    BY <2>1, <2>2
<1>3. req'[r] = m /\ \A q \in Reqs \ {r} : req'[q] = req[q]
  BY <1>1, <1>2
<1>4. inflight' = IF req[r].leader = r THEN [inflight EXCEPT ![k] = TakenOff(k, r)] ELSE inflight
  BY <1>1 DEF Wake
<1>5. inflight \in [Keys -> Tasks \cup {NULL}]
  BY DEF GenerationInv
<1>6. ASSUME NEW j \in Keys, inflight[j] # NULL, inflight[j].leader = r
      PROVE  j = k /\ req[r].leader = r /\ ~inflight[j].running
  BY <1>1, <1>6 DEF GenerationInv, Led, At
<1>7. ASSUME NEW j \in Keys
      PROVE  /\ inflight'[j] = inflight[j] \/ (inflight'[j] = NULL /\ ~Running(j))
             /\ inflight'[j] # NULL => inflight'[j] = inflight[j] /\ inflight[j].leader # r
  BY <1>4, <1>5, <1>6 DEF TakenOff, Running
<1>8. (inflight \in [Keys -> Tasks \cup {NULL}])'
  <2>1. TakenOff(k, r) \in Tasks \cup {NULL}
    BY <1>5 DEF TakenOff
  <2> QED
    BY <1>4, <1>5, <2>1
<1>9. ASSUME NEW j \in Keys, inflight'[j] # NULL
      PROVE  (/\ Led(j, inflight[j].leader)
              /\ At(inflight[j].leader, IF inflight[j].running THEN "await_text" ELSE "wake"))'
  <2>1. inflight'[j] = inflight[j] /\ inflight[j] \in Tasks /\ inflight[j].leader # r
    BY <1>5, <1>7, <1>9
  <2>2. PICK q \in Reqs : q = inflight[j].leader
    BY <2>1 DEF Tasks
  <2>3. Led(j, q) /\ req[q].pc = IF inflight[j].running THEN "await_text" ELSE "wake"
    BY <1>9, <2>1, <2>2 DEF GenerationInv, At
  <2>4. req'[q] = req[q]
    BY <1>3, <2>1, <2>2
  <2> QED
    BY <2>1, <2>2, <2>3, <2>4 DEF Led, At
<1>10. ASSUME NEW q \in Reqs, At(q, "await_text")'
       PROVE  (req[q].key \in Keys /\ Running(req[q].key) /\ inflight[req[q].key].leader = req[q].leader)'
  <2>1. req'[q] = req[q] /\ At(q, "await_text")
    BY <1>2, <1>3, <1>10 DEF At
  <2>2. req[q].key \in Keys /\ Running(req[q].key) /\ inflight[req[q].key].leader = req[q].leader
    BY <2>1 DEF GenerationInv
  <2>3. inflight'[req[q].key] = inflight[req[q].key]
    BY <1>7, <2>2
  <2> QED
    BY <2>1, <2>2, <2>3 DEF Running
<1> QED
  BY <1>8, <1>9, <1>10 DEF GenerationInv

LEMMA EndsKeeps ==
    ASSUME LocalsReady, GenerationInv, NEW k \in Keys, NEW text \in Texts \cup {NULL}, Ends(k, text)
    PROVE  GenerationInv'
<1>1. inflight \in [Keys -> Tasks \cup {NULL}] /\ inflight[k] # NULL /\ inflight[k].running /\ inflight[k] \in Tasks
  BY DEF GenerationInv, Ends, Running
<1>2. PICK task : task = [inflight[k] EXCEPT !.running = FALSE, !.text = text]
  OBVIOUS
<1>3. task \in Tasks /\ task.leader = inflight[k].leader /\ task.running = FALSE
  BY <1>1, <1>2 DEF Tasks
<1>4. inflight'[k] = task /\ \A j \in Keys \ {k} : inflight'[j] = inflight[j]
  BY <1>1, <1>2 DEF Ends
<1>5. (inflight \in [Keys -> Tasks \cup {NULL}])'
  <2>1. inflight' = [inflight EXCEPT ![k] = task]
    BY <1>1, <1>2 DEF Ends
  <2> QED
    BY <1>1, <1>3, <2>1
<1>6. ASSUME NEW q \in Reqs
      PROVE  \/ q \notin Awaiters(k) /\ req'[q] = req[q]
             \/ /\ q \in Awaiters(k) /\ req'[q].pc = "wake"
                /\ req'[q].key = req[q].key /\ req'[q].leader = req[q].leader
  <2>1. CASE q \notin Awaiters(k)
    BY <2>1 DEF Ends
  <2>2. CASE q \in Awaiters(k)
    <3>1. {"pc", "key", "leader"} \subseteq DOMAIN req[q]
      BY <2>2 DEF Awaiters, At, LocalsReady, Ready, GenerationReady, Generating, Slept
    <3>2. req'[q] = [req[q] EXCEPT !.pc = "wake", !.text = text]
      BY <2>2 DEF Ends
    <3> QED
      BY <2>2, <3>1, <3>2
  <2> QED
    BY <2>1, <2>2
<1>7. ASSUME NEW j \in Keys, inflight'[j] # NULL
      PROVE  (/\ Led(j, inflight[j].leader)
              /\ At(inflight[j].leader, IF inflight[j].running THEN "await_text" ELSE "wake"))'
  <2>1. CASE j = k
    <3>1. PICK q \in Reqs : q = inflight[k].leader
      BY <1>1 DEF Tasks
    <3>2. Led(k, q) /\ At(q, "await_text") /\ q \in Awaiters(k)
      BY <1>1, <3>1 DEF GenerationInv, Led, Awaiters
    <3>3. req'[q].pc = "wake" /\ req'[q].key = k /\ req'[q].leader = q
      BY <1>6, <3>2 DEF Led
    <3> QED
      BY <1>3, <1>4, <2>1, <3>1, <3>3 DEF Led, At
  <2>2. CASE j # k
    <3>1. inflight'[j] = inflight[j] /\ inflight[j] \in Tasks
      BY <1>1, <1>4, <1>7, <2>2
    <3>2. PICK q \in Reqs : q = inflight[j].leader
      BY <3>1 DEF Tasks
    <3>3. Led(j, q) /\ req[q].pc = IF inflight[j].running THEN "await_text" ELSE "wake"
      BY <1>7, <3>1, <3>2 DEF GenerationInv, At
    <3>4. req'[q] = req[q]
      BY <1>6, <2>2, <3>3 DEF Led, Awaiters
    <3> QED
      BY <3>1, <3>2, <3>3, <3>4 DEF Led, At
  <2> QED
    BY <2>1, <2>2
<1>8. ASSUME NEW q \in Reqs, At(q, "await_text")'
      PROVE  (req[q].key \in Keys /\ Running(req[q].key) /\ inflight[req[q].key].leader = req[q].leader)'
  <2>1. q \notin Awaiters(k) /\ req'[q] = req[q]
    BY <1>6, <1>8 DEF At
  <2>2. At(q, "await_text") /\ req[q].key # k
    BY <1>8, <2>1 DEF At, Awaiters
  <2>3. req[q].key \in Keys /\ Running(req[q].key) /\ inflight[req[q].key].leader = req[q].leader
    BY <2>2 DEF GenerationInv
  <2>4. inflight'[req[q].key] = inflight[req[q].key]
    BY <1>4, <2>2, <2>3
  <2> QED
    BY <2>1, <2>3, <2>4 DEF Running
<1> QED
  BY <1>5, <1>7, <1>8 DEF GenerationInv

LEMMA GenerationKept ==
    ASSUME LocalsReady, CouponsInv, PricesInv, GenerationInv, DeskNext
    PROVE  GenerationInv'
<1>1. ASSUME NEW r \in Reqs, Ordinarily(r) \/ OnInsight(r) \/ OnCoupons(r) \/ OnCheckout(r) \/ Stops(r)
      PROVE  GenerationInv'
  BY <1>1, MovesAlone, GenerationLeft
<1>2. CASE OnGeneration
  <2>1. CASE UNCHANGED <<inflight, req>>
    BY <2>1 DEF GenerationInv, Led, At, Running
  <2> QED
    BY <1>2, <2>1, AskKeeps, WakeKeeps, EndsKeeps DEF OnGeneration
<1> QED
  BY <1>1, <1>2, DeskSteps

(* One who waits leads, and whoever is on the table leads there.           *)
LEMMA GenerationsOk ==
    ASSUME GenerationInv
    PROVE  OneGenerationAtATime /\ NoOrphanGeneration
<1>1. ASSUME NEW k \in Keys
      PROVE  Cardinality({r \in Awaiters(k) : req[r].leader = r}) <= 1
  <2>1. PICK S : S = {r \in Awaiters(k) : req[r].leader = r}
    OBVIOUS
  <2>2. ASSUME NEW p \in S, NEW q \in S PROVE p = q
    BY <2>1 DEF GenerationInv, Awaiters
  <2>3. S = {} \/ \E p \in S : S = {p}
    BY <2>2
  <2>4. Cardinality(S) <= 1
    BY <2>3, FS_EmptySet, FS_Singleton, SMTT(30)
  <2> QED
    BY <2>1, <2>4
<1>2. ASSUME NEW k \in Keys, inflight[k] # NULL
      PROVE  req[inflight[k].leader].pc \in {"await_text", "wake"} /\ req[inflight[k].leader].key = k
  BY <1>2 DEF GenerationInv, Led, At
<1> QED
  BY <1>1, <1>2 DEF OneGenerationAtATime, NoOrphanGeneration

-----------------------------------------------------------------------------
(* Prices stay prices, and coupons with one code one coupon.               *)
LEMMA Grown ==
    ASSUME NEW s, s \in Seq(Range(s)), NEW e
    PROVE  LET t == Append(s, e)
           IN  /\ t \in Seq(Range(t)) /\ Len(t) = Len(s) + 1
               /\ DOMAIN t = DOMAIN s \cup {Len(t)} /\ Len(t) \notin DOMAIN s
               /\ t[Len(t)] = e /\ \A i \in DOMAIN s : t[i] = s[i]
<1>0. PICK t : t = Append(s, e)
  OBVIOUS
<1>1. s \in Seq(Range(s) \cup {e}) /\ e \in Range(s) \cup {e}
  <2>1. Range(s) \subseteq Range(s) \cup {e}
    OBVIOUS
  <2> QED
    BY <2>1, SeqMonotonic
<1>2. t \in Seq(Range(s) \cup {e}) /\ Len(t) = Len(s) + 1 /\ DOMAIN s = 1 .. Len(s) /\ Len(s) \in Nat
  BY <1>0, <1>1
<1>3. t[Len(t)] = e /\ \A i \in DOMAIN s : t[i] = s[i]
  BY <1>0, <1>1, <1>2
<1>4. DOMAIN t = 1 .. Len(t) /\ DOMAIN t = DOMAIN s \cup {Len(t)} /\ Len(t) \notin DOMAIN s
  BY <1>2
<1>5. t \in Seq(Range(t))
  <2>1. \A i \in 1 .. Len(t) : t[i] \in Range(t)
    BY <1>4 DEF Range
  <2> QED
    BY <1>2, <2>1
<1> QED
  BY <1>0, <1>2, <1>3, <1>4, <1>5

LEMMA Altered ==
    ASSUME NEW s, s \in Seq(Range(s)), NEW t, DOMAIN t = DOMAIN s, t = [i \in DOMAIN t |-> t[i]]
    PROVE  t \in Seq(Range(t)) /\ Len(t) = Len(s)
<1>1. DOMAIN t = 1 .. Len(s) /\ Len(s) \in Nat
  OBVIOUS
<1>2. t \in [1 .. Len(s) -> Range(t)]
  BY <1>1 DEF Range
<1>3. t \in Seq(Range(t))
  BY <1>1, <1>2
<1> QED
  BY <1>1, <1>3

LEMMA PricesKept ==
    ASSUME LocalsReady, PricesInv, DeskNext
    PROVE  PricesInv'
<1> DEFINE Prices(s) == s \in Seq(Range(s)) /\ \A i \in DOMAIN s : "price" \in DOMAIN s[i] /\ s[i].price \in Nat
<1>1. SUFFICES ASSUME NEW r \in Reqs, PlansStep(r), Prices(plans)
              PROVE  Prices(plans')
  BY DeskSteps DEF PricesInv, Ordinarily, OnInsight, OnCoupons, OnCheckout, Stops, OnGeneration
<1>2. Ready(req[r])
  BY DEF LocalsReady
<1>3. ASSUME NEW i, NEW f, "price" \in DOMAIN f => f.price \in Nat,
             plans' = [plans EXCEPT ![i] = With(@, f)]
      PROVE  Prices(plans')
  <2>1. plans' \in Seq(Range(plans'))
    BY <1>1, <1>3, Altered
  <2>2. ASSUME NEW j \in DOMAIN plans' PROVE "price" \in DOMAIN plans'[j] /\ plans'[j].price \in Nat
    <3>1. j \in DOMAIN plans /\ plans'[j] = IF j = i THEN With(plans[j], f) ELSE plans[j]
      BY <1>3
    <3>2. "price" \in DOMAIN plans[j] /\ plans[j].price \in Nat
      BY <1>1, <3>1
    <3>3. PICK m : m = With(plans[j], f)
      OBVIOUS
    <3>4. "price" \in DOMAIN m /\ m.price \in Nat
      BY <1>3, <3>2, <3>3 DEF With
    <3> QED
      BY <3>1, <3>2, <3>3, <3>4
  <2> QED
    BY <2>1, <2>2
<1>4. CASE ReadBest(r)
  BY <1>1, <1>4 DEF ReadBest
<1>5. CASE ClearPlan(r)
  <2>1. PICK i : plans' = [plans EXCEPT ![i].best = FALSE]
    BY <1>5 DEF ClearPlan
  <2>2. plans' \in Seq(Range(plans'))
    BY <1>1, <2>1, Altered
  <2>3. ASSUME NEW j \in DOMAIN plans' PROVE "price" \in DOMAIN plans'[j] /\ plans'[j].price \in Nat
    <3>1. j \in DOMAIN plans /\ plans'[j] = IF j = i THEN [plans[j] EXCEPT !.best = FALSE] ELSE plans[j]
      BY <2>1
    <3>2. "price" \in DOMAIN plans[j] /\ plans[j].price \in Nat
      BY <1>1, <3>1
    <3>3. PICK m : m = [plans[j] EXCEPT !.best = FALSE]
      OBVIOUS
    <3>4. "price" \in DOMAIN m /\ m.price \in Nat
      BY <3>2, <3>3
    <3> QED
      BY <3>1, <3>2, <3>3, <3>4
  <2> QED
    BY <2>2, <2>3
<1>6. CASE InsertPlan(r)
  <2>1. CASE plans' = plans
    BY <1>1, <2>1
  <2>2. CASE plans' # plans
    <3>1. PICK m : m = With(req[r].form, [singleton_key |-> NULL])
      OBVIOUS
    <3>2. plans' = Append(plans, m)
      BY <1>6, <2>2, <3>1 DEF InsertPlan
    <3>3. PICK form \in PlanForms : form = req[r].form
      BY <1>2, <1>6 DEF InsertPlan, At, Ready, PlansReady
    <3>4. PICK f : f = [singleton_key |-> NULL]
      OBVIOUS
    <3>10. DOMAIN f = {"singleton_key"}
      BY <3>4
    <3>5. m = With(form, f)
      BY <3>1, <3>3, <3>4
    <3>6. "price" \in DOMAIN form /\ form.price \in Nat
      BY PricesAssumption
    <3>7. "price" \in DOMAIN m /\ m.price \in Nat
      BY <3>10, <3>5, <3>6 DEF With
    <3>8. PICK t : t = plans' /\ t = Append(plans, m)
      BY <3>2
    <3>13. PICK s : s = plans
      OBVIOUS
    <3>12. s \in Seq(Range(s)) /\ t = Append(s, m)
      BY <1>1, <3>8, <3>13
    <3>14. /\ t \in Seq(Range(t)) /\ DOMAIN t = DOMAIN s \cup {Len(t)}
           /\ t[Len(t)] = m /\ \A j \in DOMAIN s : t[j] = s[j]
      BY <3>12, Grown
    <3>11. /\ t \in Seq(Range(t)) /\ DOMAIN t = DOMAIN plans \cup {Len(t)}
           /\ t[Len(t)] = m /\ \A j \in DOMAIN plans : t[j] = plans[j]
      BY <3>13, <3>14
    <3>9. Prices(t)
      BY <1>1, <3>7, <3>11
    <3> QED
      BY <3>8, <3>9
  <2> QED
    BY <2>1, <2>2
<1>7. CASE WritePlan(r)
  <2>1. PICK i, f : i = req[r].plan /\ f = req[r].form
    OBVIOUS
  <2>2. f \in PlanEdits
    BY <1>2, <1>7, <2>1 DEF WritePlan, At, Ready, PlansReady
  <2>3. plans' = [plans EXCEPT ![i] = With(@, f)]
    BY <1>7, <2>1 DEF WritePlan
  <2> QED
    BY <1>3, <2>2, <2>3, PricesAssumption
<1>8. CASE WriteDefault(r)
  BY <1>3, <1>8, PricesAssumption DEF WriteDefault
<1> QED
  BY <1>1, <1>4, <1>5, <1>6, <1>7, <1>8 DEF PlansStep

(* An edit leaves a coupon its code, and fields it can be quoted from.     *)
Still(new, old) == Issued(new) /\ new.code = old.code

LEMMA CouponsEdited ==
    ASSUME CouponsInv, DOMAIN coupons' = DOMAIN coupons, coupons' = [i \in DOMAIN coupons' |-> coupons'[i]],
           \A i \in DOMAIN coupons : \/ coupons'[i] = NULL
                                     \/ coupons'[i] = coupons[i]
                                     \/ i \in Redeemable /\ Still(coupons'[i], coupons[i])
    PROVE  CouponsInv'
<1>1. coupons' \in Seq(Range(coupons'))
  <2>1. coupons \in Seq(Range(coupons))
    BY DEF CouponsInv
  <2> QED
    BY <2>1, Altered
<1>2. ASSUME NEW i \in DOMAIN coupons', coupons'[i] # NULL
      PROVE  /\ i \in Redeemable /\ Issued(coupons'[i])
             /\ coupons'[i].code = coupons[i].code
  <2>1. i \in Redeemable
    BY <1>2 DEF Redeemable
  <2>2. Issued(coupons[i])
    BY <2>1 DEF CouponsInv
  <2> QED
    BY <1>2, <2>1, <2>2 DEF Still
<1>3. \A i \in Redeemable' : Issued(coupons'[i])
  BY <1>2 DEF Redeemable
<1>4. ASSUME NEW i \in Redeemable', NEW j \in Redeemable', coupons'[i].code = coupons'[j].code
      PROVE  i = j
  <2>1. /\ i \in Redeemable /\ coupons'[i].code = coupons[i].code
        /\ j \in Redeemable /\ coupons'[j].code = coupons[j].code
    BY <1>2, <1>4 DEF Redeemable
  <2> QED
    BY <1>4, <2>1 DEF CouponsInv, CodesDiffer
<1> QED
  BY <1>1, <1>3, <1>4 DEF CouponsInv, CodesDiffer

LEMMA CouponsKept ==
    ASSUME LocalsReady, CouponsInv, DeskNext
    PROVE  CouponsInv'
<1>1. CASE UNCHANGED coupons
  BY <1>1 DEF CouponsInv, CodesDiffer, Redeemable
<1>2. SUFFICES ASSUME NEW r \in Reqs, CouponsArrive(r) \/ CouponsStep(r), ~UNCHANGED coupons
               PROVE  CouponsInv'
  BY <1>1, DeskSteps DEF Ordinarily, OnInsight, OnCoupons, OnCheckout, Stops, OnGeneration
<1>3. InsertCoupon(r) \/ WriteCoupon(r) \/ DeleteCoupon(r) \/ MarkExpired(r)
  BY <1>2 DEF CouponsArrive, CouponsStep, BeginCreateCoupon, BeginDeleteCoupon, BeginUpdateCoupon,
     BeginManagement, BeginPreview, ReadCoupon, SendQuote
<1>4. Ready(req[r]) /\ coupons \in Seq(Range(coupons))
  BY DEF LocalsReady, CouponsInv
<1>5. CASE InsertCoupon(r)
  <2>1. PICK form \in CouponForms : form = req[r].coupon
    BY <1>4, <1>5 DEF InsertCoupon, At, Ready, CouponReady
  <2>2. PICK coupon : coupon = NewCoupon(form)
    OBVIOUS
  <2>3. coupons' = Append(coupons, coupon) /\ WithCode(coupon.code) = {}
    BY <1>2, <1>5, <2>1, <2>2 DEF InsertCoupon
  <2>4. PICK fields : fields = [code |-> UpperCase[form.code], usage_count |-> 0, dated |-> FALSE]
    OBVIOUS
  <2>5. DOMAIN fields = {"code", "usage_count", "dated"}
    BY <2>4
  <2>6. coupon = With(form, fields)
    BY <2>2, <2>4 DEF NewCoupon
  <2>7. DOMAIN form = CouponFields /\ Issued(form)
    BY CouponsAssumption
  <2>8. Issued(coupon)
    BY <2>5, <2>6, <2>7 DEF With, Issued, Valued, CouponFields
  <2>9. PICK t : t = Append(coupons, coupon)
    OBVIOUS
  <2>10. /\ t \in Seq(Range(t)) /\ DOMAIN t = DOMAIN coupons \cup {Len(t)}
         /\ t[Len(t)] = coupon /\ \A i \in DOMAIN coupons : t[i] = coupons[i]
    BY <1>4, <2>9, Grown
  <2>11. coupons' = t
    BY <2>3, <2>9
  <2>12. ASSUME NEW i \in Redeemable'
         PROVE  \/ i = Len(t) /\ coupons'[i] = coupon
                \/ i \in Redeemable /\ coupons'[i] = coupons[i]
    BY <2>10, <2>11 DEF Redeemable
  <2>13. \A i \in Redeemable' : Issued(coupons'[i])
    BY <2>8, <2>12 DEF CouponsInv
  <2>14. ASSUME NEW i \in Redeemable', NEW j \in Redeemable', coupons'[i].code = coupons'[j].code
         PROVE  i = j
    BY <2>3, <2>12, <2>14 DEF WithCode, CouponsInv, CodesDiffer
  <2>15. coupons' \in Seq(Range(coupons'))
    BY <2>10, <2>11
  <2> QED
    BY <2>13, <2>14, <2>15 DEF CouponsInv, CodesDiffer
<1>6. CASE WriteCoupon(r)
  <2>1. PICK i, updates : i = req[r].coupon /\ updates = req[r].updates
    OBVIOUS
  <2>2. Editing(updates)
    BY <1>4, <1>6, <2>1 DEF WriteCoupon, At, Ready, CouponReady
  <2>3. coupons' = [coupons EXCEPT ![i] = With(coupons[i], updates)] /\ coupons[i] # NULL
    BY <1>2, <1>6, <2>1 DEF WriteCoupon
  <2>4. PICK m : m = With(coupons[i], updates)
    OBVIOUS
  <2>5. i \in Redeemable => Still(m, coupons[i])
    <3>1. ASSUME i \in Redeemable PROVE Issued(coupons[i])
      BY <3>1 DEF CouponsInv
    <3>2. \A x \in DOMAIN coupons[i] : x \in DOMAIN m /\ m[x] \in {coupons[i][x], updates[x]}
      BY <2>4 DEF With
    <3>3. \A x \in DOMAIN m : m[x] = IF x \in DOMAIN updates THEN updates[x] ELSE coupons[i][x]
      BY <2>4 DEF With
    <3> QED
      BY <2>2, <3>1, <3>2, <3>3 DEF Still, Issued, Valued, Editing, CouponFields
  <2>6. ASSUME NEW j \in DOMAIN coupons
        PROVE  coupons'[j] = coupons[j] \/ (j \in Redeemable /\ Still(coupons'[j], coupons[j]))
    BY <2>3, <2>4, <2>5 DEF Redeemable
  <2> QED
    BY <2>3, <2>6, CouponsEdited
<1>7. CASE DeleteCoupon(r)
  <2>1. PICK i : coupons' = [coupons EXCEPT ![i] = NULL]
    BY <1>7 DEF DeleteCoupon
  <2> QED
    BY <2>1, CouponsEdited
<1>8. CASE MarkExpired(r)
  <2>1. DOMAIN coupons' = DOMAIN coupons /\ coupons' = [i \in DOMAIN coupons' |-> coupons'[i]]
    BY <1>8 DEF MarkExpired
  <2>2. ASSUME NEW j \in DOMAIN coupons
        PROVE  coupons'[j] = coupons[j] \/ (j \in Redeemable /\ Still(coupons'[j], coupons[j]))
    <3>1. coupons'[j] = coupons[j] \/ (j \in Redeemable /\ coupons'[j] = [coupons[j] EXCEPT !.status = "expired"])
      BY <1>8 DEF MarkExpired
    <3>2. PICK m : m = [coupons[j] EXCEPT !.status = "expired"]
      OBVIOUS
    <3>3. j \in Redeemable => Issued(coupons[j])
      BY DEF CouponsInv
    <3>4. j \in Redeemable => Still(m, coupons[j])
      BY <3>2, <3>3 DEF Still, Issued, Valued, CouponFields
    <3> QED
      BY <3>1, <3>2, <3>4
  <2> QED
    BY <2>1, <2>2, CouponsEdited
<1> QED
  BY <1>3, <1>5, <1>6, <1>7, <1>8

-----------------------------------------------------------------------------
(* There is one insight: whoever writes it, alone, knows how many there    *)
(* are.                                                                    *)
Insight == <<"insight", 0>>
Customer == <<"customer", 0>>

LEMMA SomeWork ==
    /\ <<"insight", 0>> # NULL /\ <<"customer", 0>> # NULL
    /\ \A n \in Nat : <<"message", n>> # NULL
  BY NothingAssumption, SMT

LEMMA TwoOf ==
    ASSUME NEW S, S \subseteq Reqs, NEW p \in S, NEW q \in S, p # q
    PROVE  Cardinality(S) > 1
<1>1. IsFiniteSet(S)
  BY ReqsAssumption, FS_Subset
<1>2. Cardinality(S) \in Nat /\ Cardinality(S) # 0
  BY <1>1, FS_CardinalityType, FS_EmptySet
<1>3. Cardinality(S) # 1
  BY <1>1, FS_Singleton
<1> QED
  BY <1>2, <1>3

LEMMA WorkShared ==
    ASSUME NEW w, w # NULL, NEW p \in Reqs, NEW q \in Reqs, p # q, Working(p)' = w, Working(q)' = w
    PROVE  w \in SharedWork'
<1>1. PICK S : S = {r \in Reqs : Working(r)' = w}
  OBVIOUS
<1>2. Cardinality(S) > 1
  BY <1>1, TwoOf
<1>3. w \in InWork'
  BY DEF InWork
<1> QED
  BY <1>1, <1>2, <1>3 DEF SharedWork

Newest(r) == "newest" \in DOMAIN req[r]
InsightInv ==
    /\ insights \in Seq(Range(insights))
    /\ Insight \notin mixed =>
          /\ Len(insights) <= 1
          /\ \A p, q \in Reqs : Newest(p) /\ Newest(q) => p = q
          /\ \A r \in Reqs : Newest(r) => req[r].newest = Len(insights)

LEMMA InsightWork ==
    ASSUME LocalsReady', NEW r \in Reqs, Newest(r)'
    PROVE  Working(r)' = Insight
<1>1. /\ "newest" \in DOMAIN req'[r] /\ "id" \notin DOMAIN req'[r]
      /\ req'[r].pc \in {"ask", "await_text", "wake", "ask_translated", "write_insight"}
  BY DEF LocalsReady, Ready, GenerationReady, Newest, Generating, Slept, InsightNexts
<1> QED
  BY <1>1 DEF Working, Insight

(* Nobody begins to make an insight but by BeginInsight.                   *)
LEMMA NewestKept ==
    ASSUME LocalsReady, CouponsInv, PricesInv,
           \/ \E r \in Reqs : Ordinarily(r) \/ OnCoupons(r) \/ OnCheckout(r) \/ Stops(r)
           \/ OnGeneration
    PROVE  /\ UNCHANGED insights
           /\ \A q \in Reqs : Newest(q)' => Newest(q) /\ req'[q].newest = req[q].newest
<1>0. DOMAIN req = Reqs
  BY DEF LocalsReady
<1>1. ASSUME NEW r \in Reqs, NEW l, req' = [req EXCEPT ![r] = l], "newest" \notin DOMAIN l \/ Follows(req[r], l)
      PROVE  \A q \in Reqs : Newest(q)' => Newest(q) /\ req'[q].newest = req[q].newest
  BY <1>0, <1>1, Idles DEF Newest, Follows, Plain
<1>2. ASSUME NEW r \in Reqs, Ordinarily(r) \/ OnCoupons(r) \/ OnCheckout(r) \/ Stops(r)
      PROVE  \E l : req' = [req EXCEPT ![r] = l] /\ "newest" \notin DOMAIN l
  <2>1. CASE Ordinarily(r)
    BY <2>1 DEF Ordinarily, Ordinary, Moves, Outside
  <2>2. CASE OnCoupons(r)
    BY <2>2, CouponMoves DEF OnCoupons, Moves, Plain
  <2>3. CASE OnCheckout(r)
    BY <2>3, CheckoutMoves DEF OnCheckout, Moves, Plain
  <2>4. CASE Stops(r)
    BY <2>4, Idles DEF Stops, Done, Plain
  <2> QED
    BY <1>2, <2>1, <2>2, <2>3, <2>4
<1>4. UNCHANGED insights
  BY DEF Ordinarily, OnCoupons, OnCheckout, Stops, OnGeneration
<1>3. CASE OnGeneration
  <2>1. ASSUME NEW r \in Reqs, Ask(r) \/ Wake(r)
        PROVE  \A q \in Reqs : Newest(q)' => Newest(q) /\ req'[q].newest = req[q].newest
    BY <1>1, <2>1, AskLocals
  <2>2. ASSUME NEW k, NEW text, Ends(k, text)
        PROVE  \A q \in Reqs : Newest(q)' => Newest(q) /\ req'[q].newest = req[q].newest
    <3>1. ASSUME NEW q \in Reqs, Newest(q)' PROVE Newest(q) /\ req'[q].newest = req[q].newest
      <4>1. req'[q] = req[q] \/ Follows(req[q], req'[q])
        BY <2>2, EndsLocals
      <4> QED
        BY <3>1, <4>1, Idles DEF Newest, Follows, Plain
    <3> QED
      BY <3>1
  <2>3. CASE UNCHANGED req
    BY <1>4, <2>3 DEF Newest
  <2> QED
    BY <1>3, <1>4, <2>1, <2>2, <2>3 DEF OnGeneration
<1> QED
  BY <1>1, <1>2, <1>3, <1>4

LEMMA InsightsKept ==
    ASSUME LocalsReady, LocalsReady', CouponsInv, PricesInv, InsightInv, HNext
    PROVE  InsightInv'
<1>0. DOMAIN req = Reqs /\ DeskNext /\ mixed' = mixed \cup SharedWork' /\ insights \in Seq(Range(insights))
  BY DEF LocalsReady, HNext, InsightInv
<1>1. ASSUME Insight \notin mixed', NEW p \in Reqs, NEW q \in Reqs, Newest(p)', Newest(q)'
      PROVE  p = q
  <2>1. Working(p)' = Insight /\ Working(q)' = Insight
    BY <1>1, InsightWork
  <2>2. Insight # NULL
    BY SomeWork DEF Insight
  <2> QED
    BY <1>0, <1>1, <2>1, <2>2, WorkShared
<1>2. CASE UNCHANGED insights /\ \A q \in Reqs : Newest(q)' => Newest(q) /\ req'[q].newest = req[q].newest
  BY <1>0, <1>1, <1>2 DEF InsightInv
<1>3. ASSUME NEW r \in Reqs, OnInsight(r)
      PROVE  InsightInv'
  <2>1. CASE BeginInsight(r)
    <3>1. PICK l : l = [pc |-> "ask", key |-> "insight_en", next |-> "ask_translated", text |-> NULL,
                        leader |-> NULL, newest |-> Len(insights)]
      OBVIOUS
    <3>2. l.newest = Len(insights) /\ "newest" \in DOMAIN l
      BY <3>1
    <3>3. req' = [req EXCEPT ![r] = l] /\ UNCHANGED insights
      BY <2>1, <3>1 DEF BeginInsight, Begin, assistantVars
    <3>4. Newest(r)' /\ req'[r].newest = Len(insights')
      BY <1>0, <3>2, <3>3 DEF Newest
    <3> QED
      BY <1>0, <1>1, <3>3, <3>4 DEF InsightInv
  <2>2. CASE AskTranslated(r)
    <3>1. PICK m : m = Asking(req[r], "insight_it", "write_insight")
      OBVIOUS
    <3>2. Newest(r)
      BY <2>2 DEF AskTranslated, At, LocalsReady, Ready, GenerationReady, InsightNexts, Newest
    <3>3. DOMAIN m = DOMAIN req[r] /\ m.newest = req[r].newest
      BY <3>1, <3>2 DEF Asking, Newest
    <3>4. req' = [req EXCEPT ![r] = m] /\ UNCHANGED insights
      BY <2>2, <3>1 DEF AskTranslated, Keep, assistantVars
    <3>5. \A q \in Reqs : Newest(q)' => Newest(q) /\ req'[q].newest = req[q].newest
      BY <1>0, <3>3, <3>4 DEF Newest
    <3> QED
      BY <1>2, <3>4, <3>5
  <2>3. CASE WriteInsight(r)
    <3>1. Newest(r)
      BY <2>3 DEF WriteInsight, At, LocalsReady, Ready, GenerationReady, InsightNexts, Newest
    <3>2. PICK n, text : n = req[r].newest /\ text = req[r].text
      OBVIOUS
    <3>3. insights' = IF n = 0 THEN Append(insights, text) ELSE [insights EXCEPT ![n] = text]
      BY <2>3, <3>2 DEF WriteInsight
    <3>4. insights' \in Seq(Range(insights')) /\ Len(insights') = IF n = 0 THEN Len(insights) + 1 ELSE Len(insights)
      <4>1. CASE n = 0
        <5>1. PICK t : t = Append(insights, text)
          OBVIOUS
        <5>2. t \in Seq(Range(t)) /\ Len(t) = Len(insights) + 1
          BY <1>0, <5>1, Grown
        <5> QED
          BY <3>3, <4>1, <5>1, <5>2
      <4>2. CASE n # 0
        BY <1>0, <3>3, <4>2, Altered
      <4> QED
        BY <4>1, <4>2
    <3>5. req'[r] = Idle /\ \A q \in Reqs \ {r} : req'[q] = req[q]
      BY <1>0, <2>3 DEF WriteInsight, Done
    <3>6. ASSUME Insight \notin mixed' PROVE Len(insights') <= 1 /\ \A q \in Reqs : ~Newest(q)'
      <4>1. Insight \notin mixed
        BY <1>0, <3>6
      <4>2. Len(insights) <= 1 /\ n = Len(insights) /\ \A q \in Reqs : Newest(q) => q = r
        BY <3>1, <3>2, <4>1 DEF InsightInv
      <4>3. \A q \in Reqs : ~Newest(q)'
        BY <3>5, <4>2, Idles DEF Newest, Plain
      <4>4. Len(insights) \in Nat
        BY <1>0
      <4> QED
        BY <3>4, <4>2, <4>3, <4>4
    <3> QED
      BY <3>4, <3>6 DEF InsightInv
  <2> QED
    BY <1>3, <2>1, <2>2, <2>3 DEF OnInsight, InsightStep
<1> QED
  BY <1>0, <1>2, <1>3, NewestKept, DeskSteps

-----------------------------------------------------------------------------
(* Who else is served changes no coupons and no customers.                 *)
LEMMA CouponsLeft ==
    ASSUME LocalsReady, CouponsInv, PricesInv,
           \/ \E r \in Reqs : Ordinarily(r) \/ OnInsight(r) \/ OnCheckout(r) \/ Stops(r)
           \/ OnGeneration
    PROVE  UNCHANGED coupons /\ \A q \in Reqs : req'[q].pc \in CouponPcs => req'[q] = req[q]
<1> USE DEF CouponPcs, CheckoutPcs
<1>1. UNCHANGED coupons /\ DOMAIN req = Reqs
  BY DEF Ordinarily, OnInsight, OnCheckout, Stops, OnGeneration, LocalsReady
<1>2. ASSUME NEW r \in Reqs, NEW l, req' = [req EXCEPT ![r] = l], l.pc \notin CouponPcs
      PROVE  \A q \in Reqs : req'[q].pc \in CouponPcs => req'[q] = req[q]
  BY <1>1, <1>2
<1>3. ASSUME NEW l, NEW m, Follows(l, m) PROVE m.pc \notin CouponPcs
  BY <1>3, Idles DEF Follows, Slept, InsightNexts, OtherNexts, AlertNexts
<1>4. ASSUME NEW r \in Reqs, Ordinarily(r) \/ OnInsight(r) \/ OnCheckout(r) \/ Stops(r)
      PROVE  \E l : req' = [req EXCEPT ![r] = l] /\ l.pc \notin CouponPcs
  <2>1. CASE Ordinarily(r)
    BY <2>1 DEF Ordinarily, Ordinary, Moves, Outside, Special
  <2>2. CASE OnInsight(r)
    BY <2>2, InsightMoves DEF OnInsight, Moves
  <2>3. CASE OnCheckout(r)
    BY <2>3, CheckoutMoves DEF OnCheckout, Moves
  <2>4. CASE Stops(r)
    BY <2>4, Idles DEF Stops, Done
  <2> QED
    BY <1>4, <2>1, <2>2, <2>3, <2>4
<1>5. CASE OnGeneration
  <2>1. ASSUME NEW r \in Reqs, Ask(r) \/ Wake(r)
        PROVE  \A q \in Reqs : req'[q].pc \in CouponPcs => req'[q] = req[q]
    BY <1>2, <1>3, <2>1, AskLocals
  <2>2. ASSUME NEW k, NEW text, Ends(k, text)
        PROVE  \A q \in Reqs : req'[q].pc \in CouponPcs => req'[q] = req[q]
    BY <1>3, <2>2, EndsLocals
  <2> QED
    BY <1>1, <1>5, <2>1, <2>2 DEF OnGeneration
<1> QED
  BY <1>1, <1>2, <1>4, <1>5

LEMMA CheckoutsLeft ==
    ASSUME LocalsReady, CouponsInv, PricesInv,
           \/ \E r \in Reqs : Ordinarily(r) \/ OnInsight(r) \/ OnCoupons(r) \/ Stops(r)
           \/ OnGeneration
    PROVE  /\ UNCHANGED <<customer, stripe>>
           /\ \A q \in Reqs : req'[q].pc \in CheckoutPcs => req'[q] = req[q]
           /\ \A q \in Reqs : req[q].pc \in CheckoutPcs => req'[q] \in {req[q], Idle}
<1> USE DEF CouponPcs, CheckoutPcs
<1>1. UNCHANGED <<customer, stripe>> /\ DOMAIN req = Reqs
  BY DEF Ordinarily, OnInsight, OnCoupons, Stops, OnGeneration, LocalsReady
<1>2. ASSUME NEW r \in Reqs, NEW l, req' = [req EXCEPT ![r] = l], l.pc \notin CheckoutPcs,
             req[r].pc \notin CheckoutPcs \/ l = Idle
      PROVE  /\ \A q \in Reqs : req'[q].pc \in CheckoutPcs => req'[q] = req[q]
             /\ \A q \in Reqs : req[q].pc \in CheckoutPcs => req'[q] \in {req[q], Idle}
  BY <1>1, <1>2
<1>3. ASSUME NEW l, NEW m, Follows(l, m) PROVE m.pc \notin CheckoutPcs
  BY <1>3, Idles DEF Follows, Slept, InsightNexts, OtherNexts, AlertNexts
<1>4. ASSUME NEW r \in Reqs, Ordinarily(r) \/ OnInsight(r) \/ OnCoupons(r) \/ Stops(r)
      PROVE  \E l : /\ req' = [req EXCEPT ![r] = l] /\ l.pc \notin CheckoutPcs
                    /\ req[r].pc \notin CheckoutPcs \/ l = Idle
  <2>1. CASE Ordinarily(r)
    BY <2>1 DEF Ordinarily, Ordinary, Moves, Outside, Special
  <2>2. CASE OnInsight(r)
    BY <2>2, InsightMoves DEF OnInsight, Moves, InsightNexts
  <2>3. CASE OnCoupons(r)
    BY <2>3, CouponMoves DEF OnCoupons, Moves
  <2>4. CASE Stops(r)
    BY <2>4, Idles DEF Stops, Done
  <2> QED
    BY <1>4, <2>1, <2>2, <2>3, <2>4
<1>5. CASE OnGeneration
  <2>1. ASSUME NEW r \in Reqs, Ask(r) \/ Wake(r)
        PROVE  /\ \A q \in Reqs : req'[q].pc \in CheckoutPcs => req'[q] = req[q]
               /\ \A q \in Reqs : req[q].pc \in CheckoutPcs => req'[q] \in {req[q], Idle}
    <3>1. PICK m : req' = [req EXCEPT ![r] = m] /\ Follows(req[r], m) /\ req[r].pc \in Generating
      BY <2>1, AskLocals
    <3>2. req[r].pc \notin CheckoutPcs
      BY <3>1 DEF Generating, Slept
    <3> QED
      BY <1>2, <1>3, <3>1, <3>2
  <2>2. ASSUME NEW k, NEW text, Ends(k, text)
        PROVE  /\ \A q \in Reqs : req'[q].pc \in CheckoutPcs => req'[q] = req[q]
               /\ \A q \in Reqs : req[q].pc \in CheckoutPcs => req'[q] \in {req[q], Idle}
    BY <1>3, <2>2, EndsLocals DEF Generating, Slept
  <2> QED
    BY <1>1, <1>5, <2>1, <2>2 DEF OnGeneration
<1> QED
  BY <1>1, <1>2, <1>4, <1>5

(* A quote is made from coupons just marked, unless another request ran.   *)
Stale(i) == coupons[i].dated /\ coupons[i].expires = "past"
ExpiryInv ==
    /\ \A r, q \in Reqs : r # q /\ ~At(r, "idle") /\ ~At(q, "idle") => r \in met
    /\ \A r \in Reqs \ met : At(r, "read_coupon") =>
          \A i \in Redeemable : Stale(i) => coupons[i].status = "expired"
    /\ \A r \in Reqs \ met : At(r, "quote") => ~Stale(req[r].from)

LEMMA MetAfter ==
    ASSUME met' = IF Cardinality(InFlight') > 1 THEN InFlight' ELSE met \cap InFlight'
    PROVE  /\ \A r, q \in Reqs : r # q /\ ~At(r, "idle")' /\ ~At(q, "idle")' => r \in met'
           /\ \A r \in Reqs \ met' : ~At(r, "idle")' => r \notin met
<1>1. PICK S : S = InFlight'
  OBVIOUS
<1>2. S \subseteq Reqs /\ \A r \in Reqs : r \in S <=> ~At(r, "idle")'
  BY <1>1 DEF InFlight
<1>3. ASSUME NEW r \in S, NEW q \in S, r # q PROVE Cardinality(S) > 1
  BY <1>2, <1>3, TwoOf
<1> QED
  BY <1>1, <1>2, <1>3

LEMMA ExpiryKept ==
    ASSUME LocalsReady, CouponsInv, PricesInv, ExpiryInv, HNext
    PROVE  ExpiryInv'
<1> USE DEF CouponPcs
<1>0. DOMAIN req = Reqs /\ DeskNext
  BY DEF LocalsReady, HNext
<1>1. /\ \A r, q \in Reqs : r # q /\ ~At(r, "idle")' /\ ~At(q, "idle")' => r \in met'
      /\ \A r \in Reqs \ met' : ~At(r, "idle")' => r \notin met
  BY MetAfter DEF HNext
<1>2. ASSUME UNCHANGED coupons, NEW r \in Reqs, r \notin met', ~At(r, "idle")', req'[r] = req[r]
      PROVE  /\ At(r, "read_coupon")' => \A i \in Redeemable' : Stale(i)' => coupons'[i].status = "expired"
             /\ At(r, "quote")' => ~(coupons'[req'[r].from].dated /\ coupons'[req'[r].from].expires = "past")
  BY <1>1, <1>2 DEF ExpiryInv, At, Stale, Redeemable
<1>3. ASSUME NEW r \in Reqs, r \notin met', req'[r].pc \in {"read_coupon", "quote"}
      PROVE  /\ At(r, "read_coupon")' => \A i \in Redeemable' : Stale(i)' => coupons'[i].status = "expired"
             /\ At(r, "quote")' => ~(coupons'[req'[r].from].dated /\ coupons'[req'[r].from].expires = "past")
  <2>1. ~At(r, "idle")' /\ r \notin met
    BY <1>1, <1>3 DEF At
  <2>2. CASE \/ \E p \in Reqs : Ordinarily(p) \/ OnInsight(p) \/ OnCheckout(p) \/ Stops(p)
             \/ OnGeneration
    BY <1>2, <1>3, <2>1, <2>2, CouponsLeft
  <2>3. ASSUME NEW p \in Reqs, OnCoupons(p), p # r
        PROVE  /\ At(r, "read_coupon")' => \A i \in Redeemable' : Stale(i)' => coupons'[i].status = "expired"
               /\ At(r, "quote")' => ~(coupons'[req'[r].from].dated /\ coupons'[req'[r].from].expires = "past")
    <3>1. req'[r] = req[r]
      BY <1>0, <2>3, CouponMoves DEF OnCoupons, Moves
    <3>2. CASE CouponsArrive(p)
      <4>1. UNCHANGED coupons
        BY <3>2 DEF CouponsArrive, BeginCreateCoupon, BeginDeleteCoupon, BeginUpdateCoupon,
           BeginManagement, BeginPreview
      <4> QED
        BY <1>2, <1>3, <2>1, <3>1, <4>1
    <3>3. CASE CouponsStep(p)
      <4>1. ~At(p, "idle") /\ ~At(r, "idle")
        BY <2>1, <3>1, <3>3 DEF CouponsStep, InsertCoupon, WriteCoupon, DeleteCoupon, MarkExpired,
           ReadCoupon, SendQuote, At
      <4> QED
        BY <2>1, <2>3, <4>1 DEF ExpiryInv
    <3> QED
      BY <2>3, <3>2, <3>3 DEF OnCoupons
  <2>4. CASE OnCoupons(r)
    <3>1. CASE CouponsArrive(r)
      <4>1. \E l : Begin(r, l) /\ l.pc \in {"insert_coupon", "delete_coupon", "write_coupon", "mark_expired"}
        <5>1. ASSUME NEW form, BeginCreateCoupon(r, form)
              PROVE  \E l : Begin(r, l) /\ l.pc = "insert_coupon"
          BY <5>1 DEF BeginCreateCoupon
        <5>2. ASSUME NEW i, BeginDeleteCoupon(r, i)
              PROVE  \E l : Begin(r, l) /\ l.pc = "delete_coupon"
          BY <5>2 DEF BeginDeleteCoupon
        <5>3. ASSUME NEW i, NEW updates, BeginUpdateCoupon(r, i, updates)
              PROVE  \E l : Begin(r, l) /\ l.pc = "write_coupon"
          <6>1. PICK u : Begin(r, [pc |-> "write_coupon", coupon |-> i, updates |-> u])
            BY <5>3 DEF BeginUpdateCoupon
          <6> QED
            BY <6>1
        <5>4. ASSUME BeginManagement(r)
              PROVE  \E l : Begin(r, l) /\ l.pc = "mark_expired"
          BY <5>4 DEF BeginManagement
        <5>5. ASSUME NEW code, BeginPreview(r, code)
              PROVE  \E l : Begin(r, l) /\ l.pc = "mark_expired"
          <6>1. PICK price : Begin(r, [pc |-> "mark_expired", then |-> "read_coupon", code |-> code, price |-> price])
            BY <5>5 DEF BeginPreview
          <6> QED
            BY <6>1
        <5> QED
          BY <3>1, <5>1, <5>2, <5>3, <5>4, <5>5 DEF CouponsArrive
      <4> QED
        BY <1>0, <1>3, <4>1 DEF Begin
    <3>2. ~Done(r)
      BY <1>0, <1>3, Idles DEF Done
    <3>3. CASE MarkExpired(r)
      <4>1. Goto(r, req[r].then)
        BY <3>2, <3>3 DEF MarkExpired
      <4>2. At(r, "read_coupon")'
        <5>1. req[r].then = "read_coupon"
          BY <3>2, <3>3 DEF MarkExpired, At, LocalsReady, Ready, CouponReady
        <5>2. PICK m : Keep(r, m) /\ m.pc = "read_coupon"
          BY <4>1, <5>1, GoneTo
        <5> QED
          BY <1>0, <5>2 DEF Keep, At
      <4>3. ASSUME NEW i \in Redeemable', Stale(i)' PROVE coupons'[i].status = "expired"
        <5>1. i \in DOMAIN coupons /\ i \in Redeemable
          BY <3>3, <4>3 DEF MarkExpired, Redeemable
        <5>2. "status" \in DOMAIN coupons[i]
          BY <5>1 DEF CouponsInv, Issued, CouponFields
        <5>3. coupons'[i] = IF Stale(i) THEN [coupons[i] EXCEPT !.status = "expired"] ELSE coupons[i]
          BY <3>3, <5>1 DEF MarkExpired, Stale
        <5>4. CASE Stale(i)
          BY <5>2, <5>3, <5>4
        <5>5. CASE ~Stale(i)
          BY <4>3, <5>3, <5>5 DEF Stale
        <5> QED
          BY <5>4, <5>5
      <4> QED
        BY <4>2, <4>3 DEF At
    <3>4. CASE ReadCoupon(r)
      <4>1. PICK i \in Redeemable :
               /\ coupons[i].status = "active"
               /\ Keep(r, [pc |-> "quote", from |-> i, quote |-> Quote(coupons[i], req[r].price)])
        BY <3>2, <3>4 DEF ReadCoupon, WithCode, Raised
      <4>2. req'[r].from = i /\ req'[r].pc = "quote" /\ UNCHANGED coupons
        BY <1>0, <3>4, <4>1 DEF Keep, ReadCoupon
      <4>3. ~Stale(i)
        BY <2>1, <3>4, <4>1 DEF ReadCoupon, ExpiryInv
      <4> QED
        BY <4>2, <4>3 DEF At, Stale
    <3> QED
      BY <2>4, <3>1, <3>2, <3>3, <3>4 DEF OnCoupons, CouponsStep, InsertCoupon, WriteCoupon, DeleteCoupon, SendQuote
  <2> QED
    BY <1>0, <2>2, <2>3, <2>4, DeskSteps
<1>4. \A r \in Reqs \ met' : At(r, "read_coupon")' =>
          \A i \in Redeemable' : Stale(i)' => coupons'[i].status = "expired"
  BY <1>3 DEF At
<1>5. \A r \in Reqs \ met' : At(r, "quote")' =>
          ~(coupons'[req'[r].from].dated /\ coupons'[req'[r].from].expires = "past")
  BY <1>3 DEF At
<1> QED
  BY <1>1, <1>4, <1>5 DEF ExpiryInv, Stale

-----------------------------------------------------------------------------
(* The user becomes one customer: who checks out first is alone, and only  *)
(* a checkout that ends between Stripe and the database leaves a customer  *)
(* nobody knows.                                                           *)
Firsts == {"create_customer", "write_customer"}
CustomerInv ==
    /\ stripe = [customers |-> stripe.customers, sessions |-> stripe.sessions]
    /\ Customer \notin mixed \cup stopped =>
          /\ \A p, q \in Reqs : req[p].pc \in Firsts /\ req[q].pc \in Firsts => p = q
          /\ \A r \in Reqs : At(r, "create_customer") => customer = NULL /\ stripe.customers = 0
          /\ \A r \in Reqs : At(r, "write_customer") => customer = NULL /\ stripe.customers = 1 /\ req[r].for = 1
          /\ \A r \in Reqs : At(r, "create_session") => customer = 1 /\ req[r].for = 1
          /\ customer = NULL =>
                stripe.sessions = {} /\ (stripe.customers = 0 \/ \E r \in Reqs : At(r, "write_customer"))
          /\ customer # NULL => customer = 1 /\ stripe.customers = 1
          /\ stripe.sessions \subseteq {1}

LEMMA FirstWork ==
    ASSUME LocalsReady', NEW r \in Reqs, req'[r].pc \in Firsts
    PROVE  Working(r)' = Customer
<1>1. req'[r].pc \in Firsts /\ "id" \notin DOMAIN req'[r] /\ "newest" \notin DOMAIN req'[r]
  BY DEF LocalsReady, Ready, GenerationReady, CheckoutReady, ChatReady, CheckoutPcs, Firsts, Generating, Slept, InsightNexts
<1> QED
  BY <1>1 DEF Working, Customer, Firsts

LEMMA WriterWork ==
    ASSUME LocalsReady, NEW r \in Reqs, At(r, "write_customer")
    PROVE  Working(r) = Customer
<1>1. req[r].pc = "write_customer" /\ "id" \notin DOMAIN req[r] /\ "newest" \notin DOMAIN req[r]
  BY DEF LocalsReady, Ready, GenerationReady, CheckoutReady, ChatReady, CheckoutPcs, Generating, Slept, InsightNexts, At
<1> QED
  BY <1>1 DEF Working, Customer

LEMMA CustomerKept ==
    ASSUME LocalsReady, LocalsReady', CouponsInv, PricesInv, CustomerInv, HNext
    PROVE  CustomerInv'
<1> USE DEF CheckoutPcs, Firsts
<1>0. /\ DOMAIN req = Reqs /\ DeskNext /\ mixed' = mixed \cup SharedWork'
      /\ stopped' = stopped \cup ({Working(r) : r \in {r \in Reqs : GivesUp(r)}} \ {NULL})
      /\ Customer # NULL /\ 1 # NULL
  BY SomeWork, CustomerAssumption DEF LocalsReady, HNext, Customer
<1>1. (stripe = [customers |-> stripe.customers, sessions |-> stripe.sessions])'
  <2>1. CASE UNCHANGED stripe
    BY <2>1 DEF CustomerInv
  <2>2. ASSUME NEW r \in Reqs, CheckoutStep(r), ~UNCHANGED stripe
        PROVE  \/ stripe' = [stripe EXCEPT !.customers = @ + 1]
               \/ stripe' = [stripe EXCEPT !.sessions = @ \cup {req[r].for}]
    BY <2>2 DEF CheckoutStep, CreateCustomer, WriteCustomer, CreateSession
  <2>3. ASSUME NEW r \in Reqs, CheckoutStep(r), ~UNCHANGED stripe
        PROVE  (stripe = [customers |-> stripe.customers, sessions |-> stripe.sessions])'
    <3>1. stripe = [customers |-> stripe.customers, sessions |-> stripe.sessions]
      BY DEF CustomerInv
    <3> QED
      BY <2>2, <2>3, <3>1
  <2> QED
    BY <1>0, <2>1, <2>3, DeskSteps, CheckoutsLeft DEF OnCheckout, BeginCheckout, checkoutVars
<1>2. SUFFICES ASSUME Customer \notin mixed' \cup stopped'
      PROVE (/\ \A p, q \in Reqs : req[p].pc \in Firsts /\ req[q].pc \in Firsts => p = q
             /\ \A r \in Reqs : At(r, "create_customer") => customer = NULL /\ stripe.customers = 0
             /\ \A r \in Reqs : At(r, "write_customer") => customer = NULL /\ stripe.customers = 1 /\ req[r].for = 1
             /\ \A r \in Reqs : At(r, "create_session") => customer = 1 /\ req[r].for = 1
             /\ customer = NULL =>
                   stripe.sessions = {} /\ (stripe.customers = 0 \/ \E r \in Reqs : At(r, "write_customer"))
             /\ customer # NULL => customer = 1 /\ stripe.customers = 1
             /\ stripe.sessions \subseteq {1})'
  BY <1>1 DEF CustomerInv
<1>3. Customer \notin mixed \cup stopped
  BY <1>0, <1>2
<1>4. ASSUME NEW p \in Reqs, NEW q \in Reqs, req'[p].pc \in Firsts, req'[q].pc \in Firsts
      PROVE  p = q
  <2>1. Working(p)' = Customer /\ Working(q)' = Customer
    BY <1>4, FirstWork
  <2> QED
    BY <1>0, <1>2, <2>1, WorkShared
<1>5. ASSUME NEW r \in Reqs, At(r, "write_customer")
      PROVE  req'[r] # Idle
  <2>1. ASSUME req'[r] = Idle PROVE GivesUp(r)
    BY <1>5, <2>1 DEF GivesUp, HalfDone, At
  <2>2. Working(r) = Customer
    BY <1>5, WriterWork
  <2> QED
    BY <1>0, <1>2, <2>1, <2>2
<1>6. CASE \/ \E r \in Reqs : Ordinarily(r) \/ OnInsight(r) \/ OnCoupons(r) \/ Stops(r)
           \/ OnGeneration
  <2>1. /\ UNCHANGED <<customer, stripe>>
        /\ \A q \in Reqs : req'[q].pc \in CheckoutPcs => req'[q] = req[q]
        /\ \A q \in Reqs : req[q].pc \in CheckoutPcs => req'[q] \in {req[q], Idle}
    BY <1>6, CheckoutsLeft
  <2>2. \A q \in Reqs : req'[q].pc \in CheckoutPcs => req'[q] = req[q]
    BY <2>1
  <2>3. \A q \in Reqs : At(q, "write_customer") => At(q, "write_customer")'
    BY <1>5, <2>1 DEF At
  <2> QED
    BY <1>3, <1>4, <2>1, <2>2, <2>3 DEF CustomerInv, At
<1>7. ASSUME NEW r \in Reqs, OnCheckout(r)
      PROVE (/\ \A p, q \in Reqs : req[p].pc \in Firsts /\ req[q].pc \in Firsts => p = q
             /\ \A q \in Reqs : At(q, "create_customer") => customer = NULL /\ stripe.customers = 0
             /\ \A q \in Reqs : At(q, "write_customer") => customer = NULL /\ stripe.customers = 1 /\ req[q].for = 1
             /\ \A q \in Reqs : At(q, "create_session") => customer = 1 /\ req[q].for = 1
             /\ customer = NULL =>
                   stripe.sessions = {} /\ (stripe.customers = 0 \/ \E q \in Reqs : At(q, "write_customer"))
             /\ customer # NULL => customer = 1 /\ stripe.customers = 1
             /\ stripe.sessions \subseteq {1})'
  <2>0. \A q \in Reqs \ {r} : req'[q] = req[q]
    BY <1>0, <1>7, CheckoutMoves DEF OnCheckout, Moves
  <2>1. CASE BeginCheckout(r)
    <3>1. PICK l : l = [pc |-> IF customer = NULL THEN "create_customer" ELSE "create_session", for |-> customer]
      OBVIOUS
    <3>2. /\ req[r].pc = "idle" /\ req'[r] = l /\ UNCHANGED <<customer, stripe>>
          /\ l.for = customer /\ l.pc = IF customer = NULL THEN "create_customer" ELSE "create_session"
      BY <1>0, <2>1, <3>1 DEF BeginCheckout, Begin, At, checkoutVars
    <3>3. CASE customer = NULL
      <4>1. req'[r].pc = "create_customer"
        BY <3>2, <3>3
      <4>2. \A q \in Reqs : ~At(q, "write_customer")
        BY <1>4, <2>0, <3>2, <4>1 DEF At
      <4>3. stripe.customers = 0 /\ stripe.sessions = {}
        BY <1>3, <3>3, <4>2 DEF CustomerInv
      <4>4. \A q \in Reqs : ~At(q, "create_session")
        BY <1>0, <1>3, <3>3 DEF CustomerInv
      <4> QED
        BY <1>4, <2>0, <3>2, <3>3, <4>1, <4>2, <4>3, <4>4 DEF At
    <3>4. CASE customer # NULL
      <4>1. req'[r].pc = "create_session" /\ req'[r].for = 1 /\ customer = 1 /\ stripe.customers = 1
        BY <1>3, <3>2, <3>4 DEF CustomerInv
      <4>2. \A q \in Reqs : ~At(q, "create_customer") /\ ~At(q, "write_customer")
        BY <1>3, <3>4 DEF CustomerInv
      <4> QED
        BY <1>3, <1>4, <2>0, <3>2, <3>4, <4>1, <4>2 DEF CustomerInv, At
    <3> QED
      BY <3>3, <3>4
  <2>2. CASE CreateCustomer(r)
    <3>1. PICK l : l = [pc |-> "write_customer", for |-> stripe'.customers]
      OBVIOUS
    <3>2. /\ req[r].pc = "create_customer" /\ req'[r] = l /\ UNCHANGED customer
          /\ l.for = stripe'.customers /\ l.pc = "write_customer"
      BY <1>0, <2>2, <3>1 DEF CreateCustomer, Keep, At
    <3>3. customer = NULL /\ stripe.customers = 0 /\ stripe.sessions = {}
      BY <1>3, <3>2 DEF CustomerInv, At
    <3>4. stripe'.customers = 1 /\ stripe'.sessions = {}
      <4>1. stripe = [customers |-> stripe.customers, sessions |-> stripe.sessions]
        BY DEF CustomerInv
      <4>2. stripe' = [stripe EXCEPT !.customers = @ + 1]
        BY <2>2 DEF CreateCustomer
      <4> QED
        BY <3>3, <4>1, <4>2
    <3>5. \A q \in Reqs : ~At(q, "create_session")
      BY <1>0, <1>3, <3>3 DEF CustomerInv
    <3>6. \A q \in Reqs \ {r} : req'[q].pc \notin Firsts
      BY <1>4, <3>2
    <3> QED
      BY <1>4, <2>0, <3>2, <3>3, <3>4, <3>5, <3>6 DEF At
  <2>3. CASE WriteCustomer(r)
    <3>1. Goto(r, "create_session") /\ req[r].pc = "write_customer" /\ UNCHANGED stripe /\ customer' = req[r].for
      BY <2>3 DEF WriteCustomer, At
    <3>2. PICK m : /\ Keep(r, m) /\ m.pc = "create_session" /\ DOMAIN m = DOMAIN req[r] /\ "pc" \in DOMAIN m
                   /\ \A f \in DOMAIN m \ {"pc"} : m[f] = req[r][f]
      BY <3>1, GoneTo
    <3>3. "for" \in DOMAIN req[r]
      BY <3>1 DEF LocalsReady, Ready, CheckoutReady, ChatReady
    <3>4. req'[r] = m /\ m.for = req[r].for
      BY <1>0, <3>2, <3>3 DEF Keep
    <3>5. customer = NULL /\ stripe.customers = 1 /\ req[r].for = 1 /\ stripe.sessions = {}
      BY <1>3, <3>1 DEF CustomerInv, At
    <3>6. \A q \in Reqs : ~At(q, "create_session")
      BY <1>0, <1>3, <3>5 DEF CustomerInv
    <3>7. \A q \in Reqs \ {r} : req[q].pc \notin Firsts
      BY <1>3, <3>1 DEF CustomerInv
    <3> QED
      BY <1>0, <1>4, <2>0, <3>1, <3>2, <3>4, <3>5, <3>6, <3>7 DEF At
  <2>4. CASE CreateSession(r)
    <3>1. req[r].pc = "create_session" /\ req'[r].pc = "idle" /\ UNCHANGED customer
      BY <1>0, <2>4, Idles DEF CreateSession, Done, At
    <3>2. customer = 1 /\ req[r].for = 1 /\ stripe.customers = 1 /\ stripe.sessions \subseteq {1}
      BY <1>0, <1>3, <3>1 DEF CustomerInv, At
    <3>3. stripe'.customers = 1 /\ stripe'.sessions = {1}
      <4>1. stripe = [customers |-> stripe.customers, sessions |-> stripe.sessions]
        BY DEF CustomerInv
      <4>2. stripe' = [stripe EXCEPT !.sessions = @ \cup {1}]
        BY <2>4, <3>2 DEF CreateSession
      <4> QED
        BY <3>2, <4>1, <4>2
    <3>4. \A q \in Reqs : req[q].pc \notin Firsts
      BY <1>0, <1>3, <3>2 DEF CustomerInv, At
    <3> QED
      BY <1>0, <1>3, <1>4, <2>0, <3>1, <3>2, <3>3, <3>4 DEF CustomerInv, At
  <2> QED
    BY <1>7, <2>1, <2>2, <2>3, <2>4 DEF OnCheckout, CheckoutStep
<1> QED
  BY <1>0, <1>6, <1>7, DeskSteps

-----------------------------------------------------------------------------
(* The chat, in spite of all else: who does not take part in it neither    *)
(* changes it nor gets among those who do.                                 *)
OffChat ==
    \/ \E r \in Reqs : (Silent(r) /\ UNCHANGED chatVars) \/ OnInsight(r) \/ OnCoupons(r) \/ OnCheckout(r) \/ Stops(r)
    \/ OnGeneration

LEMMA ChatOrNot ==
    ASSUME LocalsReady, DeskNext
    PROVE  OffChat \/ \E r \in Reqs : ChatArrive(r) \/ ChatStep(r)
  BY DeskSteps DEF Ordinarily, OffChat

LEMMA NotChatting ==
    ASSUME NEW l, Ready(l), l.pc \notin Generating \cup ChatPcs
    PROVE  ~Chatting(l)
  BY DEF Ready, ChatReady

LEMMA ChatLeft ==
    ASSUME LocalsReady, CouponsInv, PricesInv, OffChat
    PROVE  /\ UNCHANGED chatVars
           /\ \A q \in Reqs : req'[q].pc \in MessagePcs \cup {"write_memory"} => req'[q] = req[q]
           /\ \A q \in Reqs : req[q].pc \in Answering => req'[q] \in {req[q], Idle}
           /\ \A q \in Reqs : "upto" \in DOMAIN req'[q] => "upto" \in DOMAIN req[q] /\ req'[q].upto = req[q].upto
<1> DEFINE Left == /\ \A q \in Reqs : req'[q].pc \in MessagePcs \cup {"write_memory"} => req'[q] = req[q]
                   /\ \A q \in Reqs : req[q].pc \in Answering => req'[q] \in {req[q], Idle}
                   /\ \A q \in Reqs : "upto" \in DOMAIN req'[q] =>
                         "upto" \in DOMAIN req[q] /\ req'[q].upto = req[q].upto
<1>0. DOMAIN req = Reqs /\ \A q \in Reqs : Ready(req[q])
  BY DEF LocalsReady
<1>1. UNCHANGED chatVars
  BY DEF OffChat, OnInsight, OnCoupons, OnCheckout, Stops, OnGeneration
<1>2. ASSUME NEW r \in Reqs, NEW l, req' = [req EXCEPT ![r] = l], Ready(l), ~Chatting(l),
             req[r].pc \notin Answering \/ l = Idle
      PROVE  Left
  <2>1. l.pc \notin MessagePcs \cup {"write_memory"}
    BY <1>2 DEF Ready, ChatReady, ChatPcs, ListedPcs
  <2>2. "upto" \notin DOMAIN l
    BY <1>2 DEF Chatting
  <2>3. req'[r] = l /\ \A q \in Reqs \ {r} : req'[q] = req[q]
    BY <1>0, <1>2
  <2> QED
    BY <1>2, <2>1, <2>2, <2>3
<1>3. ASSUME NEW r \in Reqs, Silent(r)
      PROVE  Left
  <2>1. PICK l : Moves(r, l) /\ Away(l)
    BY <1>3 DEF Silent
  <2>2. ~Chatting(l) /\ ~Chatting(req[r])
    BY <1>3, <2>1 DEF Silent, Away, Plain, Chatting
  <2>3. req[r].pc \notin Answering
    BY <1>0, <2>2 DEF Ready, ChatReady, ChatPcs, MessagePcs
  <2> QED
    BY <1>2, <2>1, <2>2, <2>3 DEF Moves
<1>4. ASSUME NEW r \in Reqs, OnInsight(r)
      PROVE  Left
  <2>1. req[r].pc \notin Answering
    BY <1>4, InsightMoves DEF OnInsight, InsightNexts, Answering
  <2>2. PICK l : Moves(r, l) /\ ~Chatting(l)
    BY <1>4, InsightMoves DEF OnInsight
  <2> QED
    BY <1>2, <2>1, <2>2 DEF Moves
<1>5. ASSUME NEW r \in Reqs, OnCoupons(r)
      PROVE  Left
  <2>1. req[r].pc \notin Answering
    BY <1>5, CouponMoves DEF OnCoupons, CouponPcs, Answering
  <2>2. PICK l : Moves(r, l) /\ Plain(l)
    BY <1>5, CouponMoves DEF OnCoupons
  <2> QED
    BY <1>2, <2>1, <2>2 DEF Moves, Plain, Chatting
<1>6. ASSUME NEW r \in Reqs, OnCheckout(r)
      PROVE  Left
  <2>1. req[r].pc \notin Answering
    BY <1>6, CheckoutMoves DEF OnCheckout, CheckoutPcs, Answering
  <2>2. PICK l : Moves(r, l) /\ Plain(l)
    BY <1>6, CheckoutMoves DEF OnCheckout
  <2> QED
    BY <1>2, <2>1, <2>2 DEF Moves, Plain, Chatting
<1>7. ASSUME NEW r \in Reqs, Stops(r)
      PROVE  Left
  BY <1>2, <1>7, IdleReady, Idles DEF Stops, Done, Plain, Chatting
<1>8. CASE OnGeneration
  <2>1. ASSUME NEW q \in Reqs
        PROVE  req'[q] = req[q] \/ (req[q].pc \in Generating /\ Follows(req[q], req'[q]))
    <3>1. ASSUME NEW r \in Reqs, Ask(r) \/ Wake(r)
          PROVE  req'[q] = req[q] \/ (req[q].pc \in Generating /\ Follows(req[q], req'[q]))
      BY <1>0, <3>1, AskLocals
    <3>2. ASSUME NEW k, NEW text, Ends(k, text)
          PROVE  req'[q] = req[q] \/ (req[q].pc \in Generating /\ Follows(req[q], req'[q]))
      BY <3>2, EndsLocals
    <3> QED
      BY <1>8, <3>1, <3>2 DEF OnGeneration
  <2>2. ASSUME NEW q \in Reqs, req[q].pc \in Generating, Follows(req[q], req'[q])
        PROVE  /\ req'[q].pc \notin MessagePcs \cup {"write_memory"} /\ req[q].pc \notin Answering
               /\ "upto" \in DOMAIN req'[q] => "upto" \in DOMAIN req[q] /\ req'[q].upto = req[q].upto
    <3>1. CASE req'[q] = Idle
      BY <2>2, <3>1, Idles DEF Plain, MessagePcs, Answering, Generating, Slept
    <3>2. CASE req'[q] # Idle
      BY <2>2, <3>2 DEF Follows, MessagePcs, Answering, Generating, Slept, InsightNexts, OtherNexts, AlertNexts
    <3> QED
      BY <3>1, <3>2
  <2>3. ASSUME NEW q \in Reqs
        PROVE  /\ req'[q].pc \in MessagePcs \cup {"write_memory"} => req'[q] = req[q]
               /\ req[q].pc \in Answering => req'[q] \in {req[q], Idle}
               /\ "upto" \in DOMAIN req'[q] => "upto" \in DOMAIN req[q] /\ req'[q].upto = req[q].upto
    <3>1. CASE req'[q] = req[q]
      BY <3>1
    <3>2. CASE req[q].pc \in Generating /\ Follows(req[q], req'[q])
      BY <2>2, <3>2
    <3> QED
      BY <2>1, <3>1, <3>2
  <2> QED
    BY <1>1, <2>3
<1> QED
  BY <1>1, <1>3, <1>4, <1>5, <1>6, <1>7, <1>8 DEF OffChat

-----------------------------------------------------------------------------
(* The chat as it was listed is the chat there is, and the memory as it    *)
(* was read the memory, unless another request ran.                        *)
ListedInv ==
    \A r \in Reqs \ met :
       /\ "upto" \in DOMAIN req[r] => req[r].upto = Len(chat)
       /\ At(r, "write_memory") => req[r].memory = memory

(* A step of the chat, for what it has listed and read.                    *)
LEMMA ChatLists ==
    ASSUME LocalsReady, NEW r \in Reqs, ChatArrive(r) \/ ChatStep(r)
    PROVE  /\ \A q \in Reqs \ {r} : req'[q] = req[q]
           /\ "upto" \in DOMAIN req'[r] =>
                 /\ Len(chat') = Len(chat) \/ chat \notin Seq(Messages)
                 /\ req'[r].upto = Len(chat) \/ ("upto" \in DOMAIN req[r] /\ req'[r].upto = req[r].upto)
           /\ At(r, "write_memory")' => req'[r].memory = memory'
           /\ memory' # memory => WriteMemory(r)
           /\ shown' # shown => Broadcast(r)
<1>0. DOMAIN req = Reqs
  BY DEF LocalsReady
<1>1. ASSUME NEW l, Joins(r, l) \/ Goes(r, l)
      PROVE  req'[r] = l /\ \A q \in Reqs \ {r} : req'[q] = req[q]
  BY <1>0, <1>1 DEF Joins, Goes, Begin, Keep
<1>2. ASSUME NEW live, BeginMessage(r, live)
      PROVE  /\ "upto" \notin DOMAIN req'[r] /\ req'[r].pc # "write_memory"
             /\ \A q \in Reqs \ {r} : req'[q] = req[q]
             /\ UNCHANGED <<memory, shown>>
  BY <1>1, <1>2, BeginMessageSo DEF BeginMessage
<1>3. ASSUME NEW m, NEW live, BeginEditMessage(r, m, live)
      PROVE  /\ "upto" \notin DOMAIN req'[r] /\ req'[r].pc # "write_memory"
             /\ \A q \in Reqs \ {r} : req'[q] = req[q]
             /\ UNCHANGED <<memory, shown>>
  BY <1>1, <1>3, BeginEditMessageSo DEF BeginEditMessage, assistantVars
<1>4. CASE EditMessage(r) \/ ReadContext(r) \/ InsertReply(r)
  <2>1. PICK l : Goes(r, l) /\ l.pc \in {"read_context", "reply", "list_chat"} /\ "upto" \notin DOMAIN l
    BY <1>4, EditMessageSo, ReadContextSo, InsertReplySo
  <2>2. UNCHANGED <<memory, shown>>
    BY <1>4 DEF EditMessage, ReadContext, InsertReply, assistantVars
  <2> QED
    BY <1>1, <2>1, <2>2 DEF At
<1>5. CASE BeginHistory(r)
  <2>1. PICK l : Joins(r, l) /\ l.upto = Len(chat) /\ l.pc \in {"ask", "broadcast"}
    BY <1>5, BeginHistorySo
  <2>2. UNCHANGED <<chat, memory, shown>>
    BY <1>5 DEF BeginHistory, assistantVars
  <2> QED
    BY <1>1, <2>1, <2>2 DEF At
<1>6. CASE ListChat(r)
  <2>1. PICK l : Goes(r, l) /\ l.pc = "read_memory" /\ l.upto = Len(chat)
    BY <1>6, ListChatSo
  <2>2. UNCHANGED <<chat, memory, shown>>
    BY <1>6 DEF ListChat, assistantVars
  <2> QED
    BY <1>1, <2>1, <2>2 DEF At
<1>7. CASE ReadMemory(r)
  <2>1. PICK l : Goes(r, l) /\ l.pc = "write_memory" /\ l.upto = req[r].upto /\ l.memory = memory
    BY <1>7, ReadMemorySo
  <2>2. UNCHANGED <<chat, memory, shown>>
    BY <1>7 DEF ReadMemory, assistantVars
  <2>3. "upto" \in DOMAIN req[r]
    BY <1>7, ChatFrom DEF ReadMemory, At, ChatReady, ChatPcs, ListedPcs
  <2> QED
    BY <1>1, <2>1, <2>2, <2>3 DEF At
<1>8. CASE WriteMemory(r)
  <2>1. PICK l : Goes(r, l) /\ l.pc \in {"broadcast", "answered"} /\ l.upto = req[r].upto
    BY <1>8, WriteMemorySo
  <2>2. UNCHANGED <<chat, shown>>
    BY <1>8 DEF WriteMemory
  <2>3. "upto" \in DOMAIN req[r]
    BY <1>8, ChatFrom DEF WriteMemory, At, ChatReady, ChatPcs, ListedPcs
  <2> QED
    BY <1>1, <1>8, <2>1, <2>2, <2>3 DEF At
<1>9. CASE Broadcast(r) \/ Answered(r)
  <2>1. Done(r) /\ UNCHANGED memory /\ (shown' # shown => Broadcast(r))
    BY <1>9 DEF Broadcast, Answered, assistantVars
  <2> QED
    BY <1>0, <2>1, Idles DEF Done, At, Plain
<1>10. CASE WriteTranslation(r)
  <2>1. PICK l : Goes(r, l) /\ l.pc \in {"ask", "broadcast"} /\ "upto" \in DOMAIN req[r] /\ l.upto = req[r].upto
    BY <1>10, WriteTranslationSo
  <2>2. UNCHANGED <<memory, shown>> /\ chat' = [chat EXCEPT ![Head(req[r].todo)].translated = TRUE]
    BY <1>10 DEF WriteTranslation
  <2>3. Len(chat') = Len(chat) \/ chat \notin Seq(Messages)
    <3>1. SUFFICES ASSUME chat \in Seq(Messages) PROVE Len(chat') = Len(chat)
      OBVIOUS
    <3>2. DOMAIN chat' = 1 .. Len(chat) /\ Len(chat) \in Nat
      BY <2>2, <3>1, LenProperties
    <3> QED
      BY <2>2, <3>1, <3>2
  <2> QED
    BY <1>1, <2>1, <2>2, <2>3 DEF At
<1> QED
  BY <1>2, <1>3, <1>4, <1>5, <1>6, <1>7, <1>8, <1>9, <1>10 DEF ChatArrive, ChatStep, At

(* A request that begins in the chat is in flight, and one that steps was. *)
LEMMA ChatInFlight ==
    ASSUME LocalsReady, NEW r \in Reqs
    PROVE  /\ ChatArrive(r) => ~At(r, "idle")'
           /\ ChatStep(r) => ~At(r, "idle")
<1>0. DOMAIN req = Reqs
  BY DEF LocalsReady
<1>1. ASSUME ChatArrive(r)
      PROVE  ~At(r, "idle")'
  <2>1. PICK l : Joins(r, l) /\ l.pc \in {"read_context", "edit_message", "ask", "broadcast"}
    BY <1>1, BeginMessageSo, BeginEditMessageSo, BeginHistorySo DEF ChatArrive
  <2> QED
    BY <1>0, <2>1 DEF Joins, Begin, At
<1>2. ASSUME ChatStep(r)
      PROVE  ~At(r, "idle")
  BY <1>2 DEF ChatStep, EditMessage, ReadContext, InsertReply, ListChat, ReadMemory, WriteMemory,
     Broadcast, Answered, WriteTranslation, At
<1> QED
  BY <1>1, <1>2

LEMMA ListedKept ==
    ASSUME LocalsReady, LocalsReady', CouponsInv, PricesInv, ExpiryInv, ListedInv, chat \in Seq(Messages), HNext
    PROVE  ListedInv'
<1>0. DeskNext
  BY DEF HNext
<1>1. /\ \A r, q \in Reqs : r # q /\ ~At(r, "idle")' /\ ~At(q, "idle")' => r \in met'
      /\ \A r \in Reqs \ met' : ~At(r, "idle")' => r \notin met
  BY MetAfter DEF HNext
<1>2. ASSUME NEW q \in Reqs, q \notin met', "upto" \in DOMAIN req'[q] \/ At(q, "write_memory")'
      PROVE  /\ "upto" \in DOMAIN req'[q] => req'[q].upto = Len(chat')
             /\ At(q, "write_memory")' => req'[q].memory = memory'
  <2>1. ~At(q, "idle")'
    BY <1>2 DEF LocalsReady, Ready, ChatReady, Chatting, At, Generating, Slept, ChatPcs, MessagePcs,
       Answering, ListedPcs
  <2>2. /\ "upto" \in DOMAIN req[q] => req[q].upto = Len(chat)
        /\ At(q, "write_memory") => req[q].memory = memory
        /\ q \notin met
    BY <1>1, <1>2, <2>1 DEF ListedInv
  <2>3. CASE OffChat
    BY <1>2, <2>2, <2>3, ChatLeft DEF chatVars, At
  <2>4. CASE ChatArrive(q) \/ ChatStep(q)
    BY <1>2, <2>2, <2>4, ChatLists
  <2>5. ASSUME NEW r \in Reqs, r # q, ChatArrive(r) \/ ChatStep(r)
        PROVE  FALSE
    <3>1. ~At(q, "idle")
      BY <2>1, <2>5, ChatLists DEF At
    <3> QED
      BY <1>1, <1>2, <2>1, <2>2, <2>5, <3>1, ChatInFlight DEF ExpiryInv
  <2> QED
    BY <1>0, <2>3, <2>4, <2>5, ChatOrNot
<1> QED
  BY <1>2 DEF ListedInv

-----------------------------------------------------------------------------
(* The newest reply to a message of the user answers it, or a request that *)
(* works on the message, alone, is about to; and it knows the text.        *)
Pending(r, m) == req[r].pc \in Answering /\ req[r].message = m /\ "assistant" \in req[r].replies
Owes(r, m) == Pending(r, m) /\ req[r].version = chat[m].version
MessagesInv ==
    /\ chat \in Seq(Messages)
    /\ \A r \in Reqs : req[r].pc \in MessagePcs =>
          req[r].message \in DOMAIN chat /\ chat[req[r].message].role = "user"
    /\ \A r \in Reqs : req[r].pc \in Answering =>
          /\ req[r].version \in Nat
          /\ TheMessage(req[r].message) \notin mixed => req[r].version = chat[req[r].message].version
    /\ \A r, q \in Reqs :
          (r # q /\ req[r].pc \in MessagePcs /\ req[q].pc \in MessagePcs /\ req[r].message = req[q].message) =>
             TheMessage(req[r].message) \in mixed
    /\ \A m \in DOMAIN chat :
          (chat[m].role = "user" /\ TheMessage(m) \notin mixed \cup stopped) =>
             Fits(m) \/ \E r \in Reqs : Pending(r, m)
    /\ \A m \in DOMAIN chat :
          (chat[m].role = "user" /\ TheMessage(m) \notin stopped) =>
             HasReply(m) \/ \E r \in Reqs : Owes(r, m)

LEMMA MessageWork ==
    ASSUME NEW r \in Reqs
    PROVE  /\ LocalsReady /\ req[r].pc \in MessagePcs => Working(r) = TheMessage(req[r].message)
           /\ LocalsReady' /\ req'[r].pc \in MessagePcs => Working(r)' = TheMessage(req'[r].message)
<1>1. ASSUME LocalsReady, req[r].pc \in MessagePcs PROVE Working(r) = TheMessage(req[r].message)
  <2>1. /\ "id" \notin DOMAIN req[r] /\ "newest" \notin DOMAIN req[r]
        /\ req[r].pc \in {"edit_message", "read_context", "reply"}
    BY <1>1 DEF LocalsReady, Ready, ChatReady, Chatting, MessagePcs, Answering
  <2> QED
    BY <2>1 DEF Working
<1>2. ASSUME LocalsReady', req'[r].pc \in MessagePcs PROVE Working(r)' = TheMessage(req'[r].message)
  <2>1. /\ "id" \notin DOMAIN req'[r] /\ "newest" \notin DOMAIN req'[r]
        /\ req'[r].pc \in {"edit_message", "read_context", "reply"}
    BY <1>2 DEF LocalsReady, Ready, ChatReady, Chatting, MessagePcs, Answering
  <2> QED
    BY <2>1 DEF Working, TheMessage
<1> QED
  BY <1>1, <1>2

(* A reply that fits goes on to, unless its message changes or another     *)
(* reply to it comes.                                                      *)
LEMMA FitsStays ==
    ASSUME chat \in Seq(Messages), chat' \in Seq(Messages), Len(chat) <= Len(chat'),
           NEW m \in DOMAIN chat, Fits(m), chat'[m].version = chat[m].version,
           \A n \in DOMAIN chat : /\ chat'[n].role = chat[n].role /\ chat'[n].reply_to = chat[n].reply_to
                                  /\ chat[n].role = "assistant" => chat'[n].version = chat[n].version,
           \A n \in DOMAIN chat' \ DOMAIN chat : ~(chat'[n].role = "assistant" /\ chat'[n].reply_to = m)
    PROVE  Fits(m)'
<1>1. PICK n \in DOMAIN chat : /\ chat[n].role = "assistant" /\ chat[n].reply_to = m
                               /\ chat[n].version = chat[m].version
                               /\ \A l \in n + 1 .. Len(chat) : ~(chat[l].role = "assistant" /\ chat[l].reply_to = m)
  BY DEF Fits, Answers
<1>2. /\ DOMAIN chat = 1 .. Len(chat) /\ DOMAIN chat' = 1 .. Len(chat')
      /\ Len(chat) \in Nat /\ Len(chat') \in Nat
  BY LenProperties
<1>3. n \in DOMAIN chat' /\ chat'[n].role = "assistant" /\ chat'[n].reply_to = m /\ chat'[n].version = chat'[m].version
  BY <1>1, <1>2
<1>4. ASSUME NEW l \in n + 1 .. Len(chat') PROVE ~(chat'[l].role = "assistant" /\ chat'[l].reply_to = m)
  <2>1. CASE l \in DOMAIN chat
    BY <1>1, <1>2, <1>4, <2>1
  <2>2. CASE l \notin DOMAIN chat
    <3>1. l \in DOMAIN chat'
      BY <1>1, <1>2, <1>4
    <3> QED
      BY <2>2, <3>1
  <2> QED
    BY <2>1, <2>2
<1> QED
  BY <1>3, <1>4 DEF Fits, Answers

(* An answered text stays answered, until it changes.                      *)
LEMMA HasReplyStays ==
    ASSUME DOMAIN chat \subseteq DOMAIN chat',
           NEW m \in DOMAIN chat, HasReply(m), chat'[m].version = chat[m].version,
           \A n \in DOMAIN chat : /\ chat'[n].role = chat[n].role /\ chat'[n].reply_to = chat[n].reply_to
                                  /\ chat[n].role = "assistant" => chat'[n].version = chat[n].version
    PROVE  HasReply(m)'
BY DEF HasReply, Answers

(* A reply that has just come is the newest.                               *)
LEMMA FitsNow ==
    ASSUME chat' \in Seq(Messages), Len(chat') \in Nat \ {0}, NEW m,
           chat'[Len(chat')].role = "assistant", chat'[Len(chat')].reply_to = m,
           chat'[Len(chat')].version = chat'[m].version
    PROVE  Fits(m)'
<1>1. Len(chat') \in DOMAIN chat'
  BY LenProperties
<1>2. Len(chat') + 1 .. Len(chat') = {}
  OBVIOUS
<1> QED
  BY <1>1, <1>2 DEF Fits, Answers

(* What one request may do to the chat: add messages and reword one of the *)
(* user, if it goes on to answer it.                                       *)
Rewords(r, n) ==
    /\ chat[n].role = "user" /\ At(r, "edit_message") /\ req[r].message = n

LEMMA MessagesMove ==
    ASSUME LocalsReady, LocalsReady', MessagesInv, NEW r \in Reqs,
           \A q \in Reqs \ {r} : req'[q] = req[q],
           mixed' = mixed \cup SharedWork', stopped \subseteq stopped',
           chat' \in Seq(Messages), Len(chat) <= Len(chat'),
           \A n \in DOMAIN chat : chat'[n].role = chat[n].role /\ (chat'[n].version = chat[n].version \/ Rewords(r, n)),
           req'[r].pc \in MessagePcs =>
              req'[r].message \in DOMAIN chat' /\ chat'[req'[r].message].role = "user",
           req'[r].pc \in Answering =>
              /\ req'[r].version \in Nat
              /\ TheMessage(req'[r].message) \notin mixed => req'[r].version = chat'[req'[r].message].version,
           \A n \in DOMAIN chat' \ DOMAIN chat : chat'[n].role = "user" => Owes(r, n)',
           \A m \in DOMAIN chat :
              (chat[m].role = "user" /\ TheMessage(m) \notin mixed \cup stopped /\ (Fits(m) \/ Pending(r, m))) =>
                 Fits(m)' \/ Pending(r, m)',
           \A m \in DOMAIN chat : Rewords(r, m) => Owes(r, m)',
           \A m \in DOMAIN chat :
              (chat[m].role = "user" /\ (HasReply(m) \/ Owes(r, m))) => HasReply(m)' \/ Owes(r, m)'
    PROVE  MessagesInv'
<1>0. /\ chat \in Seq(Messages) /\ DOMAIN chat = 1 .. Len(chat) /\ DOMAIN chat' = 1 .. Len(chat')
      /\ Len(chat) \in Nat /\ Len(chat') \in Nat
  BY LenProperties DEF MessagesInv
<1>1. DOMAIN chat \subseteq DOMAIN chat'
  BY <1>0
<1>2. Answering \subseteq MessagePcs
  BY DEF MessagePcs
<1>3. ASSUME NEW q \in Reqs, req'[q].pc \in MessagePcs
      PROVE  req'[q].message \in DOMAIN chat' /\ chat'[req'[q].message].role = "user"
  <2>1. CASE q = r
    BY <1>3, <2>1
  <2>2. CASE q # r
    BY <1>1, <1>3, <2>2 DEF MessagesInv
  <2> QED
    BY <2>1, <2>2
<1>4. ASSUME NEW q \in Reqs, req'[q].pc \in Answering
      PROVE  /\ req'[q].version \in Nat
             /\ TheMessage(req'[q].message) \notin mixed' => req'[q].version = chat'[req'[q].message].version
  <2>1. CASE q = r
    BY <1>4, <2>1
  <2>2. CASE q # r
    <3>1. /\ req'[q] = req[q] /\ req[q].version \in Nat /\ req[q].message \in DOMAIN chat
          /\ TheMessage(req[q].message) \notin mixed => req[q].version = chat[req[q].message].version
      BY <1>2, <1>4, <2>2 DEF MessagesInv
    <3>2. ASSUME Rewords(r, req[q].message)
          PROVE  TheMessage(req[q].message) \in mixed
      BY <1>2, <1>4, <2>2, <3>1, <3>2 DEF MessagesInv, Rewords, At, MessagePcs
    <3> QED
      BY <3>1, <3>2
  <2> QED
    BY <2>1, <2>2
<1>5. ASSUME NEW p \in Reqs, NEW q \in Reqs, p # q, req'[p].pc \in MessagePcs, req'[q].pc \in MessagePcs,
             req'[p].message = req'[q].message
      PROVE  TheMessage(req'[p].message) \in mixed'
  <2>1. PICK w : w = TheMessage(req'[p].message)
    OBVIOUS
  <2>2. Working(p)' = w /\ Working(q)' = w
    BY <1>5, <2>1, MessageWork
  <2>3. w # NULL
    <3>1. req'[p].message \in Nat
      BY <1>0, <1>3, <1>5
    <3> QED
      BY <2>1, <3>1, SomeWork DEF TheMessage
  <2> QED
    BY <1>5, <2>1, <2>2, <2>3, WorkShared
<1>6. ASSUME NEW m \in DOMAIN chat', chat'[m].role = "user", TheMessage(m) \notin mixed' \cup stopped'
      PROVE  Fits(m)' \/ \E q \in Reqs : Pending(q, m)'
  <2>1. CASE m \notin DOMAIN chat
    BY <1>6, <2>1 DEF Owes
  <2>2. CASE m \in DOMAIN chat
    <3>1. chat[m].role = "user" /\ TheMessage(m) \notin mixed \cup stopped
      BY <1>6, <2>2
    <3>2. Fits(m) \/ \E q \in Reqs : Pending(q, m)
      BY <2>2, <3>1 DEF MessagesInv
    <3>3. CASE Fits(m) \/ Pending(r, m)
      BY <2>2, <3>1, <3>3
    <3>4. ASSUME NEW q \in Reqs \ {r}, Pending(q, m)
          PROVE  Pending(q, m)'
      BY <3>4 DEF Pending
    <3> QED
      BY <3>2, <3>3, <3>4
  <2> QED
    BY <2>1, <2>2
<1>7. ASSUME NEW m \in DOMAIN chat', chat'[m].role = "user", TheMessage(m) \notin stopped'
      PROVE  HasReply(m)' \/ \E q \in Reqs : Owes(q, m)'
  <2>1. CASE m \notin DOMAIN chat
    BY <1>7, <2>1
  <2>2. CASE m \in DOMAIN chat
    <3>1. chat[m].role = "user" /\ TheMessage(m) \notin stopped
      BY <1>7, <2>2
    <3>2. HasReply(m) \/ \E q \in Reqs : Owes(q, m)
      BY <2>2, <3>1 DEF MessagesInv
    <3>3. CASE Rewords(r, m)
      BY <2>2, <3>3
    <3>4. CASE HasReply(m) \/ Owes(r, m)
      BY <2>2, <3>1, <3>4
    <3>5. ASSUME NEW q \in Reqs \ {r}, Owes(q, m), ~Rewords(r, m)
          PROVE  Owes(q, m)'
      <4>1. chat'[m].version = chat[m].version /\ req'[q] = req[q]
        BY <2>2, <3>5
      <4> QED
        BY <3>5, <4>1 DEF Owes, Pending
    <3> QED
      BY <3>2, <3>3, <3>4, <3>5
  <2> QED
    BY <2>1, <2>2
<1> QED
  BY <1>3, <1>4, <1>5, <1>6, <1>7 DEF MessagesInv, TheMessage

(* A step of another part, or a request that goes no further.              *)
LEMMA MessagesLeft ==
    ASSUME LocalsReady, LocalsReady', CouponsInv, PricesInv, MessagesInv, OffChat, UNCHANGED chat,
           mixed \subseteq mixed',
           stopped' = stopped \cup ({Working(r) : r \in {r \in Reqs : GivesUp(r)}} \ {NULL})
    PROVE  MessagesInv'
<1>1. /\ \A q \in Reqs : req'[q].pc \in MessagePcs => req'[q] = req[q]
      /\ \A q \in Reqs : req[q].pc \in Answering => req'[q] \in {req[q], Idle}
  BY ChatLeft
<1>2. Answering \subseteq MessagePcs /\ UNCHANGED Messages
  BY DEF MessagePcs, Messages
<1>3. ASSUME NEW m \in DOMAIN chat, chat[m].role = "user", TheMessage(m) \notin mixed' \cup stopped'
      PROVE  Fits(m)' \/ \E q \in Reqs : Pending(q, m)'
  <2>1. Fits(m) \/ \E q \in Reqs : Pending(q, m)
    BY <1>3 DEF MessagesInv
  <2>2. CASE Fits(m)
    BY <2>2 DEF Fits, Answers
  <2>3. ASSUME NEW q \in Reqs, Pending(q, m)
        PROVE  Pending(q, m)'
    <3>1. CASE req'[q] = req[q]
      BY <2>3, <3>1 DEF Pending
    <3>2. CASE req'[q] = Idle
      <4>1. GivesUp(q)
        BY <2>3, <3>2 DEF GivesUp, Pending, Answering, HalfDone, At
      <4>2. Working(q) = TheMessage(m)
        BY <1>2, <2>3, MessageWork DEF Pending
      <4>3. TheMessage(m) # NULL
        <5>1. m \in Nat
          BY LenProperties DEF MessagesInv
        <5> QED
          BY <5>1, SomeWork DEF TheMessage
      <4> QED
        BY <1>3, <4>1, <4>2, <4>3
    <3> QED
      BY <1>1, <2>3, <3>1, <3>2 DEF Pending
  <2> QED
    BY <2>1, <2>2, <2>3
<1>4. chat' \in Seq(Messages)
  BY DEF MessagesInv
<1>5. \A q \in Reqs : req'[q].pc \in MessagePcs =>
          req'[q].message \in DOMAIN chat' /\ chat'[req'[q].message].role = "user"
  BY <1>1 DEF MessagesInv
<1>6. \A q \in Reqs : req'[q].pc \in Answering =>
          /\ req'[q].version \in Nat
          /\ TheMessage(req'[q].message) \notin mixed' => req'[q].version = chat'[req'[q].message].version
  BY <1>1, <1>2 DEF MessagesInv
<1>7. \A p, q \in Reqs :
          (p # q /\ req'[p].pc \in MessagePcs /\ req'[q].pc \in MessagePcs /\ req'[p].message = req'[q].message) =>
             TheMessage(req'[p].message) \in mixed'
  BY <1>1 DEF MessagesInv
<1>8. ASSUME NEW m \in DOMAIN chat, chat[m].role = "user", TheMessage(m) \notin stopped'
      PROVE  HasReply(m)' \/ \E q \in Reqs : Owes(q, m)'
  <2>1. HasReply(m) \/ \E q \in Reqs : Owes(q, m)
    BY <1>8 DEF MessagesInv
  <2>2. CASE HasReply(m)
    BY <2>2 DEF HasReply, Answers
  <2>3. ASSUME NEW q \in Reqs, Owes(q, m)
        PROVE  Owes(q, m)'
    <3>1. Pending(q, m)
      BY <2>3 DEF Owes
    <3>2. CASE req'[q] = req[q]
      BY <2>3, <3>2 DEF Owes, Pending
    <3>3. CASE req'[q] = Idle
      <4>1. GivesUp(q)
        BY <3>1, <3>3 DEF GivesUp, Pending, Answering, HalfDone, At
      <4>2. Working(q) = TheMessage(m)
        BY <1>2, <3>1, MessageWork DEF Pending
      <4>3. TheMessage(m) # NULL
        <5>1. m \in Nat
          BY LenProperties DEF MessagesInv
        <5> QED
          BY <5>1, SomeWork DEF TheMessage
      <4> QED
        BY <1>8, <4>1, <4>2, <4>3
    <3> QED
      BY <1>1, <3>1, <3>2, <3>3 DEF Pending
  <2> QED
    BY <2>1, <2>2, <2>3
<1> QED
  BY <1>3, <1>4, <1>5, <1>6, <1>7, <1>8 DEF MessagesInv, TheMessage

(* What the steps of the chat do to its messages.                          *)
LEMMA Rows ==
    ASSUME NEW s \in Seq(Messages), NEW row \in Messages, NEW t, t = Append(s, row)
    PROVE  /\ t \in Seq(Messages) /\ Len(t) = Len(s) + 1 /\ Len(s) \in Nat
           /\ DOMAIN s = 1 .. Len(s) /\ DOMAIN t \ DOMAIN s = {Len(t)} /\ t[Len(t)] = row
           /\ \A n \in DOMAIN s : t[n] = s[n]
<1>1. t \in Seq(Messages) /\ Len(t) = Len(s) + 1 /\ Len(s) \in Nat
  OBVIOUS
<1>2. DOMAIN s = 1 .. Len(s) /\ DOMAIN t = 1 .. Len(t)
  BY <1>1, LenProperties
<1>3. t[Len(t)] = row /\ \A n \in DOMAIN s : t[n] = s[n]
  BY <1>1, <1>2
<1> QED
  BY <1>1, <1>2, <1>3

LEMMA RowAltered ==
    ASSUME NEW s \in Seq(Messages), NEW t, DOMAIN t = DOMAIN s, NEW h,
           \A n \in DOMAIN s \ {h} : t[n] = s[n],
           h \in DOMAIN s => t[h] \in Messages /\ t[h].role = s[h].role /\ t[h].reply_to = s[h].reply_to,
           t = [n \in DOMAIN t |-> t[n]]
    PROVE  /\ t \in Seq(Messages) /\ Len(t) = Len(s)
           /\ \A n \in DOMAIN s : t[n].role = s[n].role /\ t[n].reply_to = s[n].reply_to
<1>1. DOMAIN s = 1 .. Len(s) /\ Len(s) \in Nat /\ \A n \in DOMAIN s : s[n] \in Messages
  BY LenProperties
<1>2. \A n \in DOMAIN s : t[n] \in Messages /\ t[n].role = s[n].role /\ t[n].reply_to = s[n].reply_to
  BY <1>1
<1>3. t \in [1 .. Len(s) -> Messages]
  BY <1>1, <1>2
<1>4. t \in Seq(Messages) /\ Len(t) = Len(s)
  BY <1>1, <1>3, SeqDef, LenProperties
<1> QED
  BY <1>2, <1>4

LEMMA MessagesKept ==
    ASSUME LocalsReady, LocalsReady', CouponsInv, PricesInv, MessagesInv, HNext
    PROVE  MessagesInv'
<1> USE DEF MessagePcs, Answering
<1>0. /\ DeskNext /\ mixed' = mixed \cup SharedWork'
      /\ stopped' = stopped \cup ({Working(r) : r \in {r \in Reqs : GivesUp(r)}} \ {NULL})
      /\ DOMAIN req = Reqs /\ chat \in Seq(Messages)
  BY DEF HNext, LocalsReady, MessagesInv
<1>1. ASSUME NEW r \in Reqs, NEW l, Joins(r, l) \/ Goes(r, l)
      PROVE  req'[r] = l /\ \A q \in Reqs \ {r} : req'[q] = req[q]
  BY <1>0, <1>1 DEF Joins, Goes, Begin, Keep
<1>2. ASSUME NEW r \in Reqs, NEW l, Joins(r, l) PROVE req[r].pc = "idle"
  BY <1>2 DEF Joins, Begin, At
<1>3. CASE OffChat
  <2>1. UNCHANGED chat
    BY <1>3, ChatLeft DEF chatVars
  <2> QED
    BY <1>0, <1>3, <2>1, MessagesLeft
(* The chat is only read.                                                  *)
<1>4. ASSUME NEW r \in Reqs, UNCHANGED chat, \A q \in Reqs \ {r} : req'[q] = req[q],
             req'[r].pc \in MessagePcs =>
                req'[r].message \in DOMAIN chat /\ chat[req'[r].message].role = "user",
             req'[r].pc \in Answering =>
                /\ req'[r].version \in Nat
                /\ TheMessage(req'[r].message) \notin mixed => req'[r].version = chat[req'[r].message].version,
             \A m : Pending(r, m) => Pending(r, m)' /\ req'[r].version = req[r].version,
             req[r].pc # "edit_message"
      PROVE  MessagesInv'
  <2>1. chat' \in Seq(Messages) /\ Len(chat) <= Len(chat')
    BY <1>0, <1>4, LenProperties
  <2>2. \A m \in DOMAIN chat : (Fits(m) \/ Pending(r, m)) => Fits(m)' \/ Pending(r, m)'
    BY <1>4 DEF Fits, Answers
  <2>3. \A m \in DOMAIN chat : (HasReply(m) \/ Owes(r, m)) => HasReply(m)' \/ Owes(r, m)'
    BY <1>4 DEF HasReply, Answers, Owes
  <2>4. \A m : ~Rewords(r, m)
    BY <1>4 DEF Rewords, At
  <2> QED
    BY <1>0, <1>4, <2>1, <2>2, <2>3, <2>4, MessagesMove
<1>5. ASSUME NEW r \in Reqs, NEW live, BeginMessage(r, live)
      PROVE  MessagesInv'
  <2>1. PICK l : /\ Joins(r, l) /\ l.pc = "read_context" /\ l.message = Len(chat') /\ l.version = 0
                 /\ "assistant" \in l.replies
    BY <1>5, BeginMessageSo
  <2>2. req'[r] = l /\ (\A q \in Reqs \ {r} : req'[q] = req[q]) /\ req[r].pc = "idle"
    BY <1>1, <1>2, <2>1
  <2>3. PICK row : row = Row("user", 0, 0)
    OBVIOUS
  <2>4. row \in Messages /\ row.role = "user" /\ row.version = 0
    BY <2>3 DEF Row, Messages
  <2>5. chat' = Append(chat, row)
    BY <1>5, <2>3 DEF BeginMessage
  <2>6. /\ chat' \in Seq(Messages) /\ Len(chat') = Len(chat) + 1 /\ Len(chat) \in Nat
        /\ DOMAIN chat = 1 .. Len(chat) /\ DOMAIN chat' \ DOMAIN chat = {Len(chat')} /\ chat'[Len(chat')] = row
        /\ \A n \in DOMAIN chat : chat'[n] = chat[n]
    BY <1>0, <2>4, <2>5, Rows
  <2>7. \A m \in DOMAIN chat : Fits(m) => Fits(m)'
    BY <1>0, <2>4, <2>6, FitsStays
  <2>8. \A n \in DOMAIN chat' \ DOMAIN chat : Owes(r, n)'
    BY <2>1, <2>2, <2>4, <2>6 DEF Pending, Owes
  <2>9. \A m : ~Pending(r, m) /\ ~Owes(r, m) /\ ~Rewords(r, m)
    BY <2>2 DEF Pending, Owes, Rewords, At
  <2>10. \A m \in DOMAIN chat : HasReply(m) => HasReply(m)'
    BY <2>6, HasReplyStays
  <2> QED
    BY <1>0, <2>1, <2>2, <2>4, <2>6, <2>7, <2>8, <2>9, <2>10, MessagesMove
<1>6. ASSUME NEW r \in Reqs, NEW m \in DOMAIN chat, NEW live, BeginEditMessage(r, m, live)
      PROVE  MessagesInv'
  <2>1. PICK l : Joins(r, l) /\ l.pc = "edit_message" /\ l.message = m
    BY <1>6, BeginEditMessageSo
  <2>2. req'[r] = l /\ (\A q \in Reqs \ {r} : req'[q] = req[q]) /\ req[r].pc = "idle"
    BY <1>1, <1>2, <2>1
  <2>3. UNCHANGED chat /\ chat[m].role = "user"
    BY <1>6 DEF BeginEditMessage, assistantVars
  <2> QED
    BY <1>4, <2>1, <2>2, <2>3 DEF Pending
<1>7. ASSUME NEW r \in Reqs, EditMessage(r)
      PROVE  MessagesInv'
  <2>1. PICK m : m = req[r].message
    OBVIOUS
  <2>2. PICK l : /\ Goes(r, l) /\ l.pc = "read_context" /\ l.message = m /\ l.version = chat'[m].version
                 /\ "assistant" \in l.replies
    BY <1>7, <2>1, EditMessageSo
  <2>3. req'[r] = l /\ \A q \in Reqs \ {r} : req'[q] = req[q]
    BY <1>1, <2>2
  <2>4. At(r, "edit_message") /\ chat' = [chat EXCEPT ![m].version = @ + 1]
    BY <1>7, <2>1 DEF EditMessage
  <2>5. m \in DOMAIN chat /\ chat[m].role = "user"
    BY <2>1, <2>4 DEF MessagesInv, At
  <2>6. /\ chat' \in Seq(Messages) /\ Len(chat') = Len(chat) /\ Len(chat) \in Nat
        /\ DOMAIN chat' = DOMAIN chat
        /\ \A n \in DOMAIN chat : chat'[n].role = chat[n].role /\ chat'[n].reply_to = chat[n].reply_to
        /\ \A n \in DOMAIN chat \ {m} : chat'[n] = chat[n]
    <3>1. PICK v, row : v = chat[m].version + 1 /\ row = [chat[m] EXCEPT !.version = v]
      OBVIOUS
    <3>2. chat[m] \in Messages
      BY <1>0, <2>5, LenProperties
    <3>3. v \in Nat
      BY <3>1, <3>2 DEF Messages
    <3>4. row \in Messages /\ row.role = chat[m].role /\ row.reply_to = chat[m].reply_to
      BY <3>1, <3>2, <3>3 DEF Messages
    <3>5. /\ DOMAIN chat' = DOMAIN chat /\ chat' = [n \in DOMAIN chat' |-> chat'[n]]
          /\ chat'[m] = row /\ \A n \in DOMAIN chat \ {m} : chat'[n] = chat[n]
      BY <2>4, <2>5, <3>1
    <3> QED
      BY <1>0, <3>4, <3>5, RowAltered
  <2>7. chat'[m].version \in Nat
    <3>1. m \in 1 .. Len(chat')
      BY <2>5, <2>6, LenProperties
    <3>2. chat'[m] \in Messages
      BY <2>6, <3>1
    <3> QED
      BY <3>2 DEF Messages
  <2>8. \A n \in DOMAIN chat : chat'[n].version = chat[n].version \/ Rewords(r, n)
    BY <2>1, <2>4, <2>5, <2>6 DEF Rewords
  <2>9. ASSUME NEW n \in DOMAIN chat, Fits(n) \/ Pending(r, n)
        PROVE  Fits(n)' \/ Pending(r, n)'
    <3>1. Pending(r, m)'
      BY <2>2, <2>3 DEF Pending
    <3>2. CASE n # m
      <4>1. ~Pending(r, n)
        BY <2>4 DEF Pending, At
      <4>2. chat'[n].version = chat[n].version
        BY <2>6, <3>2
      <4>3. \A k \in DOMAIN chat : chat[k].role = "assistant" => chat'[k].version = chat[k].version
        BY <2>5, <2>6
      <4> QED
        BY <1>0, <2>6, <2>9, <4>1, <4>2, <4>3, FitsStays
    <3> QED
      BY <3>1, <3>2
  <2>10. Owes(r, m)'
    BY <2>2, <2>3 DEF Owes, Pending
  <2>11. ASSUME NEW n \in DOMAIN chat, HasReply(n) \/ Owes(r, n)
         PROVE  HasReply(n)' \/ Owes(r, n)'
    <3>1. CASE n # m
      <4>1. ~Owes(r, n)
        BY <2>4 DEF Owes, Pending, At
      <4>2. /\ chat'[n].version = chat[n].version
            /\ \A k \in DOMAIN chat : chat[k].role = "assistant" => chat'[k].version = chat[k].version
        BY <2>5, <2>6, <3>1
      <4> QED
        BY <2>6, <2>11, <4>1, <4>2, HasReplyStays
    <3> QED
      BY <2>10, <3>1
  <2>12. \A n : Rewords(r, n) => Owes(r, n)'
    BY <2>1, <2>10 DEF Rewords
  <2> QED
    BY <1>0, <2>2, <2>3, <2>5, <2>6, <2>7, <2>8, <2>9, <2>11, <2>12, MessagesMove
<1>8. ASSUME NEW r \in Reqs, ReadContext(r)
      PROVE  MessagesInv'
  <2>1. PICK l : /\ Goes(r, l) /\ l.pc = "reply" /\ l.message = req[r].message /\ l.version = req[r].version
                 /\ l.replies = req[r].replies
    BY <1>8, ReadContextSo
  <2>2. req'[r] = l /\ \A q \in Reqs \ {r} : req'[q] = req[q]
    BY <1>1, <2>1
  <2>3. UNCHANGED chat /\ req[r].pc = "read_context"
    BY <1>8 DEF ReadContext, assistantVars, At
  <2>4. /\ l.message \in DOMAIN chat /\ chat[l.message].role = "user" /\ l.version \in Nat
        /\ TheMessage(l.message) \notin mixed => l.version = chat[l.message].version
    BY <2>1, <2>3 DEF MessagesInv
  <2>5. \A m : Pending(r, m) => Pending(r, m)' /\ req'[r].version = req[r].version
    BY <2>1, <2>2 DEF Pending
  <2> QED
    BY <1>4, <2>2, <2>3, <2>4, <2>5
<1>9. ASSUME NEW r \in Reqs, InsertReply(r)
      PROVE  MessagesInv'
  <2>1. PICK m, v : m = req[r].message /\ v = req[r].version
    OBVIOUS
  <2>2. PICK role \in req[r].replies : \E l :
           /\ chat' = Append(chat, Row(role, m, v))
           /\ role \in {"assistant", "insight"}
           /\ Goes(r, l) /\ l.pc \in {"reply", "list_chat"}
           /\ l.message = m /\ l.version = v
           /\ l.replies = req[r].replies \ {role}
           /\ l.replies # {} => l.pc = "reply"
    BY <1>9, <2>1, InsertReplySo
  <2>3. PICK l :
           /\ chat' = Append(chat, Row(role, m, v))
           /\ role \in {"assistant", "insight"}
           /\ Goes(r, l) /\ l.pc \in {"reply", "list_chat"}
           /\ l.message = m /\ l.version = v
           /\ l.replies = req[r].replies \ {role}
           /\ l.replies # {} => l.pc = "reply"
    BY <2>2
  <2>4. req'[r] = l /\ \A q \in Reqs \ {r} : req'[q] = req[q]
    BY <1>1, <2>3
  <2>5. req[r].pc = "reply"
    BY <1>9 DEF InsertReply, At
  <2>6. /\ m \in DOMAIN chat /\ chat[m].role = "user" /\ v \in Nat
        /\ TheMessage(m) \notin mixed => v = chat[m].version
    BY <2>1, <2>5 DEF MessagesInv
  <2>7. PICK row : row = Row(role, m, v)
    OBVIOUS
  <2>8. m \in Nat
    BY <1>0, <2>6, LenProperties
  <2>9. row \in Messages /\ row.role = role /\ row.reply_to = m /\ row.version = v
    BY <2>3, <2>6, <2>7, <2>8 DEF Row, Messages
  <2>10. /\ chat' \in Seq(Messages) /\ Len(chat') = Len(chat) + 1 /\ Len(chat) \in Nat
         /\ DOMAIN chat = 1 .. Len(chat) /\ DOMAIN chat' \ DOMAIN chat = {Len(chat')} /\ chat'[Len(chat')] = row
         /\ \A n \in DOMAIN chat : chat'[n] = chat[n]
    <3>1. chat' = Append(chat, row)
      BY <2>3, <2>7
    <3> QED
      BY <1>0, <2>9, <3>1, Rows
  <2>11. ASSUME NEW n \in DOMAIN chat, TheMessage(n) \notin mixed, Fits(n) \/ Pending(r, n)
         PROVE  Fits(n)' \/ Pending(r, n)'
    <3>1. CASE role = "assistant" /\ n = m
      <4>1. row.version = chat'[m].version
        BY <2>6, <2>9, <2>10, <2>11, <3>1
      <4> QED
        BY <2>9, <2>10, <3>1, <4>1, FitsNow
    <3>2. CASE Fits(n) /\ ~(role = "assistant" /\ n = m)
      <4>1. \A k \in DOMAIN chat' \ DOMAIN chat : ~(chat'[k].role = "assistant" /\ chat'[k].reply_to = n)
        BY <2>9, <2>10, <3>2
      <4>2. /\ chat'[n].version = chat[n].version /\ Len(chat) <= Len(chat')
            /\ \A k \in DOMAIN chat : /\ chat'[k].role = chat[k].role /\ chat'[k].reply_to = chat[k].reply_to
                                      /\ chat[k].role = "assistant" => chat'[k].version = chat[k].version
        BY <2>10
      <4> QED
        BY <1>0, <2>10, <3>2, <4>1, <4>2, FitsStays
    <3>3. CASE Pending(r, n) /\ ~(role = "assistant" /\ n = m)
      <4>1. n = m /\ role = "insight" /\ "assistant" \in l.replies
        BY <2>1, <2>3, <3>3 DEF Pending
      <4> QED
        BY <2>3, <2>4, <4>1 DEF Pending
    <3> QED
      BY <2>11, <3>1, <3>2, <3>3
  <2>12. \A n \in DOMAIN chat' \ DOMAIN chat : chat'[n].role # "user"
    BY <2>3, <2>9, <2>10
  <2>13. m \in DOMAIN chat' /\ chat'[m].role = "user" /\ chat'[m].version = chat[m].version
    BY <2>6, <2>10, LenProperties
  <2>14. \A n \in DOMAIN chat : chat'[n].role = chat[n].role /\ chat'[n].version = chat[n].version
    BY <2>10
  <2>15. ASSUME NEW n \in DOMAIN chat, HasReply(n) \/ Owes(r, n)
         PROVE  HasReply(n)' \/ Owes(r, n)'
    <3>1. CASE HasReply(n)
      BY <2>10, <3>1, HasReplyStays
    <3>2. CASE Owes(r, n)
      <4>1. n = m /\ v = chat[m].version
        BY <2>1, <3>2 DEF Owes, Pending
      <4>2. CASE role = "assistant"
        <5>1. Len(chat') \in DOMAIN chat' /\ row.version = chat'[m].version
          BY <2>9, <2>10, <2>13, <4>1
        <5> QED
          BY <2>9, <2>10, <4>1, <4>2, <5>1 DEF HasReply, Answers
      <4>3. CASE role = "insight"
        <5>1. "assistant" \in l.replies
          BY <2>3, <3>2, <4>3 DEF Owes, Pending
        <5> QED
          BY <2>3, <2>4, <2>13, <4>1, <5>1 DEF Owes, Pending
      <4> QED
        BY <2>3, <4>2, <4>3
    <3> QED
      BY <2>15, <3>1, <3>2
  <2>16. \A n : ~Rewords(r, n)
    BY <2>5 DEF Rewords, At
  <2> QED
    BY <1>0, <2>3, <2>4, <2>6, <2>10, <2>11, <2>12, <2>13, <2>14, <2>15, <2>16, MessagesMove
(* The request is past its answer, and the chat at most translated.        *)
<1>10. ASSUME NEW r \in Reqs, chat' \in Seq(Messages), Len(chat') = Len(chat),
              \A n \in DOMAIN chat : /\ chat'[n].role = chat[n].role /\ chat'[n].reply_to = chat[n].reply_to
                                     /\ chat'[n].version = chat[n].version,
              \A q \in Reqs \ {r} : req'[q] = req[q], req[r].pc \notin MessagePcs, req'[r].pc \notin MessagePcs
       PROVE  MessagesInv'
  <2>1. Len(chat) \in Nat /\ DOMAIN chat = 1 .. Len(chat) /\ DOMAIN chat' = DOMAIN chat
    BY <1>0, <1>10, LenProperties
  <2>2. \A m : ~Pending(r, m) /\ ~Owes(r, m) /\ ~Rewords(r, m)
    BY <1>10 DEF Pending, Owes, Rewords, At
  <2>3. \A m \in DOMAIN chat : Fits(m) => Fits(m)'
    BY <1>0, <1>10, <2>1, FitsStays
  <2>4. \A m \in DOMAIN chat : HasReply(m) => HasReply(m)'
    BY <1>10, <2>1, HasReplyStays
  <2> QED
    BY <1>0, <1>10, <2>1, <2>2, <2>3, <2>4, MessagesMove
<1>11. ASSUME NEW r \in Reqs, BeginHistory(r) \/ ListChat(r) \/ ReadMemory(r) \/ WriteMemory(r)
       PROVE  MessagesInv'
  <2>1. PICK l : (Joins(r, l) \/ Goes(r, l)) /\ l.pc \in {"ask", "broadcast", "read_memory", "write_memory", "answered"}
    BY <1>11, BeginHistorySo, ListChatSo, ReadMemorySo, WriteMemorySo
  <2>2. UNCHANGED chat /\ req[r].pc \in {"idle", "list_chat", "read_memory", "write_memory"}
    BY <1>11 DEF BeginHistory, ListChat, ReadMemory, WriteMemory, assistantVars, Begin, At
  <2> QED
    BY <1>0, <1>1, <1>10, <2>1, <2>2
<1>12. ASSUME NEW r \in Reqs, Broadcast(r) \/ Answered(r)
       PROVE  MessagesInv'
  <2>1. Done(r) /\ UNCHANGED chat /\ req[r].pc \in {"broadcast", "answered"}
    BY <1>12 DEF Broadcast, Answered, assistantVars, At
  <2>2. req'[r].pc = "idle" /\ \A q \in Reqs \ {r} : req'[q] = req[q]
    BY <1>0, <2>1, Idles DEF Done
  <2> QED
    BY <1>0, <1>10, <2>1, <2>2
<1>13. ASSUME NEW r \in Reqs, WriteTranslation(r)
       PROVE  MessagesInv'
  <2>1. PICK l : Goes(r, l) /\ l.pc \in {"ask", "broadcast"}
    BY <1>13, WriteTranslationSo
  <2>2. PICK h : h = Head(req[r].todo)
    OBVIOUS
  <2>3. chat' = [chat EXCEPT ![h].translated = TRUE] /\ req[r].pc = "write_translation"
    BY <1>13, <2>2 DEF WriteTranslation, At
  <2>4. /\ chat' \in Seq(Messages) /\ Len(chat') = Len(chat)
        /\ \A n \in DOMAIN chat : /\ chat'[n].role = chat[n].role /\ chat'[n].reply_to = chat[n].reply_to
                                  /\ chat'[n].version = chat[n].version
    <3>1. PICK row : row = [chat[h] EXCEPT !.translated = TRUE]
      OBVIOUS
    <3>2. h \in DOMAIN chat => /\ row \in Messages /\ row.role = chat[h].role
                               /\ row.reply_to = chat[h].reply_to /\ row.version = chat[h].version
      <4>1. h \in DOMAIN chat => chat[h] \in Messages
        BY <1>0, LenProperties
      <4> QED
        BY <3>1, <4>1 DEF Messages
    <3>3. /\ DOMAIN chat' = DOMAIN chat /\ chat' = [n \in DOMAIN chat' |-> chat'[n]]
          /\ h \in DOMAIN chat => chat'[h] = row
          /\ \A n \in DOMAIN chat \ {h} : chat'[n] = chat[n]
      BY <2>3, <3>1
    <3>4. \A n \in DOMAIN chat : chat'[n].version = chat[n].version
      BY <3>2, <3>3
    <3> QED
      BY <1>0, <3>2, <3>3, <3>4, RowAltered
  <2> QED
    BY <1>1, <1>10, <2>1, <2>3, <2>4
<1> QED
  BY <1>0, <1>3, <1>5, <1>6, <1>7, <1>8, <1>9, <1>11, <1>12, <1>13, ChatOrNot DEF ChatArrive, ChatStep

-----------------------------------------------------------------------------
DeskInv ==
    /\ LocalsReady /\ PricesInv /\ CouponsInv
    /\ GenerationInv /\ InsightInv /\ ExpiryInv /\ CustomerInv
    /\ ListedInv /\ MessagesInv

LEMMA DeskStarts == HInit => DeskInv
<1> SUFFICES ASSUME HInit PROVE DeskInv
  OBVIOUS
<1>1. DeskInit /\ mixed = {} /\ met = {}
  BY DEF HInit
<1>2. DOMAIN req = Reqs /\ \A r \in Reqs : req[r] = Idle
  BY <1>1 DEF DeskInit, RequestsInit
<1>3. LocalsReady
  BY <1>2, IdleReady DEF LocalsReady
<1>4. PricesInv
  <2>1. PICK key : key = [singleton_key |-> "default_plan"]
    OBVIOUS
  <2>2. DOMAIN key = {"singleton_key"}
    BY <2>1
  <2>3. PICK plan : plan = With(DefaultPlan, key)
    OBVIOUS
  <2>4. "price" \in DOMAIN plan /\ plan.price \in Nat
    BY <2>2, <2>3, PricesAssumption DEF With
  <2>5. plans = <<plan>>
    BY <1>1, <2>1, <2>3 DEF DeskInit, PlansInit
  <2>6. DOMAIN plans = {1} /\ plans[1] = plan /\ plans \in Seq({plan}) /\ plan \in Range(plans)
    BY <2>5 DEF Range
  <2>7. Range(plans) = {plan}
    BY <2>6 DEF Range
  <2> QED
    BY <2>4, <2>6, <2>7 DEF PricesInv
<1>5. CouponsInv
  BY <1>1, CouponsAssumption DEF DeskInit, CouponsInit, CouponsInv, Redeemable, CodesDiffer
<1>6. GenerationInv
  <2>1. inflight = [k \in Keys |-> NULL]
    BY <1>1 DEF DeskInit, GenerationsInit
  <2>2. \A r \in Reqs : ~At(r, "await_text")
    BY <1>2, Idles DEF At
  <2> QED
    BY <2>1, <2>2 DEF GenerationInv
<1>7. InsightInv
  <2>1. insights = <<>>
    BY <1>1 DEF DeskInit, AssistantInit
  <2>2. \A r \in Reqs : ~Newest(r)
    BY <1>2, Idles DEF Newest, Plain
  <2>3. insights \in Seq(Range(insights)) /\ Len(insights) = 0
    BY <2>1
  <2> QED
    BY <2>2, <2>3 DEF InsightInv
<1>8. ExpiryInv
  BY <1>2, Idles DEF ExpiryInv, At
<1>9. CustomerInv
  <2>1. customer = NULL /\ stripe = [customers |-> 0, sessions |-> {}]
    BY <1>1 DEF DeskInit, CouponsInit
  <2>2. \A r \in Reqs : req[r].pc = "idle"
    BY <1>2, Idles
  <2> QED
    BY <2>1, <2>2 DEF CustomerInv, At, Firsts
<1>10. ListedInv
  BY <1>2, Idles DEF ListedInv, At, Plain
<1>11. MessagesInv
  <2>1. chat \in Seq(Messages)
    BY <1>1, MessagesAssumption DEF DeskInit, AssistantInit
  <2>2. \A r \in Reqs : req[r].pc \notin MessagePcs \cup Answering
    BY <1>2, Idles DEF MessagePcs, Answering
  <2>3. ASSUME NEW m \in DOMAIN chat, chat[m].role = "user", TheMessage(m) \notin mixed \cup stopped
        PROVE  Fits(m)
    BY <2>3 DEF HInit
  <2>4. ASSUME NEW m \in DOMAIN chat, chat[m].role = "user", TheMessage(m) \notin stopped
        PROVE  HasReply(m)
    <3>1. TheMessage(m) \notin mixed \cup stopped
      BY <1>1, <2>4
    <3> QED
      BY <2>3, <2>4, <3>1 DEF Fits, HasReply
  <2> QED
    BY <2>1, <2>2, <2>3, <2>4 DEF MessagesInv
<1> QED
  BY <1>3, <1>4, <1>5, <1>6, <1>7, <1>8, <1>9, <1>10, <1>11 DEF DeskInv

LEMMA DeskKept == DeskInv /\ [HNext]_vars => DeskInv'
<1> SUFFICES ASSUME DeskInv, [HNext]_vars PROVE DeskInv'
  OBVIOUS
<1> USE DEF DeskInv
<1>1. CASE HNext
  <2>1. DeskNext
    BY <1>1 DEF HNext
  <2>2. LocalsReady'
    BY <2>1, LocalsKept
  <2> QED
    BY <1>1, <2>1, <2>2, PricesKept, CouponsKept, GenerationKept, InsightsKept, ExpiryKept, CustomerKept,
       ListedKept, MessagesKept DEF MessagesInv
<1>2. CASE UNCHANGED vars
  <2>1. UNCHANGED <<req, plans, coupons, inflight, insights, customer, stripe, mixed, stopped, met, chat, memory>>
    BY <1>2 DEF vars, deskVars, historyVars, restaurantVars, officeVars, generationVars, assistantVars,
       couponVars, checkoutVars
  <2>2. LocalsReady' /\ PricesInv'
    BY <2>1 DEF LocalsReady, PricesInv
  <2>3. CouponsInv'
    BY <2>1 DEF CouponsInv, Redeemable, CodesDiffer
  <2>4. GenerationInv' /\ InsightInv'
    BY <2>1 DEF GenerationInv, Led, At, Running, InsightInv, Newest
  <2>5. ExpiryInv'
    BY <2>1 DEF ExpiryInv, At, Stale, Redeemable
  <2>6. CustomerInv'
    BY <2>1 DEF CustomerInv, At
  <2>7. ListedInv'
    BY <2>1 DEF ListedInv, At
  <2>8. MessagesInv'
    <3>1. /\ UNCHANGED Messages
          /\ \A m : (Fits(m) => Fits(m)') /\ (HasReply(m) => HasReply(m)')
          /\ \A m : \A r \in Reqs : (Pending(r, m) => Pending(r, m)') /\ (Owes(r, m) => Owes(r, m)')
      BY <2>1 DEF Fits, HasReply, Answers, Pending, Owes, Messages
    <3> QED
      BY <2>1, <3>1 DEF MessagesInv, TheMessage
  <2> QED
    BY <2>2, <2>3, <2>4, <2>5, <2>6, <2>7, <2>8
<1> QED
  BY <1>1, <1>2

(* Requests share the generation of a text while it runs, at most one of   *)
(* them leading it, and it does not outlive its leader, however it ends    *)
(* and whoever gives up; and there is one insight, if the requests for the *)
(* first did not overlap (_run_cached_generation and                       *)
(* _get_or_generate_insights), whatever else is served meanwhile.          *)
THEOREM TextsShared == HSpec => []GenerationsShared
<1>1. DeskInv => GenerationsShared
  <2> SUFFICES ASSUME DeskInv PROVE GenerationsShared
    OBVIOUS
  <2>1. OneGenerationAtATime /\ NoOrphanGeneration
    BY GenerationsOk DEF DeskInv
  <2>2. OneInsight
    BY DEF DeskInv, InsightInv, OneInsight, Insight
  <2> QED
    BY <2>1, <2>2 DEF GenerationsShared
<1>2. HInit => DeskInv
  BY DeskStarts
<1>3. DeskInv /\ [HNext]_vars => DeskInv'
  BY DeskKept
<1> QED
  BY <1>1, <1>2, <1>3, PTL DEF HSpec

(* A code means one coupon, however many are created, edited and deleted   *)
(* at once; a quote is between nothing and the price of the plan; a coupon *)
(* with a date is not redeemed after it unless another request ran between *)
(* the mark and the look-up; and a user is one customer of Stripe unless   *)
(* two first checkouts overlap or one ends between Stripe and the database *)
(* (create_coupon, preview_user_discount, create_checkout_session).        *)
THEOREM CheckoutIsSound == HSpec => []CheckoutSound
<1>1. DeskInv => CheckoutSound
  <2> SUFFICES ASSUME DeskInv PROVE CheckoutSound
    OBVIOUS
  <2>1. CodesDiffer
    BY DEF DeskInv, CouponsInv
  <2>2. QuotesInRange
    BY DEF DeskInv, LocalsReady, Ready, CouponReady, QuotesInRange, At
  <2>3. DatedCouponsExpire
    BY DEF DeskInv, ExpiryInv, Stale, DatedCouponsExpire
  <2>4. OneCustomer
    <3>1. SUFFICES ASSUME Customer \notin mixed \cup stopped
                   PROVE  stripe.customers <= 1 /\ stripe.sessions \subseteq {customer}
      BY DEF OneCustomer, Customer
    <3>2. CASE customer = NULL
      <4>1. stripe.sessions = {} /\ (stripe.customers = 0 \/ stripe.customers = 1)
        BY <3>1, <3>2 DEF DeskInv, CustomerInv
      <4> QED
        BY <4>1
    <3>3. CASE customer # NULL
      BY <3>1, <3>3 DEF DeskInv, CustomerInv
    <3> QED
      BY <3>2, <3>3
  <2> QED
    BY <2>1, <2>2, <2>3, <2>4 DEF CheckoutSound
<1>2. HInit => DeskInv
  BY DeskStarts
<1>3. DeskInv /\ [HNext]_vars => DeskInv'
  BY DeskKept
<1> QED
  BY <1>1, <1>2, <1>3, PTL DEF HSpec

(* What the apps show of the chat goes back, and the memory loses what it  *)
(* covered, only if requests overlap (_broadcast_conversation and          *)
(* _refresh_chat_memory, which use the chat and memory they read earlier). *)
THEOREM ChatGoesOn == HSpec => ChatMovesOn
<1>1. ASSUME DeskInv, HNext
      PROVE  ShownIsCurrent /\ MemoryIsKept
  <2>0. LocalsReady /\ DeskNext /\ CouponsInv /\ PricesInv
    BY <1>1 DEF DeskInv, HNext
  <2>1. CASE OffChat
    <3>1. UNCHANGED <<memory, shown>>
      BY <2>0, <2>1, ChatLeft DEF chatVars
    <3> QED
      BY <3>1 DEF ShownIsCurrent, MemoryIsKept
  <2>2. ASSUME NEW r \in Reqs, ChatArrive(r) \/ ChatStep(r)
        PROVE  ShownIsCurrent /\ MemoryIsKept
    <3>1. (memory' # memory => WriteMemory(r)) /\ (shown' # shown => Broadcast(r))
      BY <2>0, <2>2, ChatLists
    <3>2. ASSUME Broadcast(r), r \notin met PROVE shown' = Len(chat)
      <4>1. "upto" \in DOMAIN req[r]
        BY <2>0, <3>2, ChatFrom DEF Broadcast, At, ChatReady, ChatPcs, ListedPcs
      <4> QED
        BY <1>1, <3>2, <4>1 DEF DeskInv, ListedInv, Broadcast
    <3>3. ASSUME WriteMemory(r), r \notin met PROVE memory \subseteq memory'
      BY <1>1, <3>3 DEF DeskInv, ListedInv, WriteMemory
    <3>4. ShownIsCurrent
      BY <3>1, <3>2 DEF ShownIsCurrent, Broadcast
    <3>5. MemoryIsKept
      BY <3>1, <3>3 DEF MemoryIsKept, WriteMemory
    <3> QED
      BY <3>4, <3>5
  <2> QED
    BY <2>0, <2>1, <2>2, ChatOrNot
<1>2. DeskInv /\ [HNext]_vars => [ShownIsCurrent /\ MemoryIsKept]_vars
  BY <1>1
<1>3. HInit => DeskInv
  BY DeskStarts
<1>4. DeskInv /\ [HNext]_vars => DeskInv'
  BY DeskKept
<1> QED
  BY <1>2, <1>3, <1>4, PTL DEF HSpec, ChatMovesOn

(* The text a message has now is answered, whoever edits it and whenever,  *)
(* unless a request on it does not come to its end; and by the newest      *)
(* reply, unless two requests work on the message at once                  *)
(* (create_chat_message, update_chat_message and generate_chat_reply).     *)
THEOREM RepliesFit == HSpec => []NewestReplyFits
<1>1. DeskInv => NewestReplyFits
  <2> SUFFICES ASSUME DeskInv,
                      NEW m \in DOMAIN chat, chat[m].role = "user", Quiet(TheMessage(m)),
                      TheMessage(m) \notin stopped
               PROVE  HasReply(m) /\ (TheMessage(m) \notin mixed => Fits(m))
    BY DEF NewestReplyFits
  <2>1. ASSUME NEW r \in Reqs, Pending(r, m) PROVE FALSE
    <3>1. Working(r) = TheMessage(m)
      BY <2>1, MessageWork DEF DeskInv, Pending, MessagePcs
    <3>2. TheMessage(m) # NULL
      <4>1. m \in Nat
        BY LenProperties DEF DeskInv, MessagesInv
      <4> QED
        BY <4>1, SomeWork DEF TheMessage
    <3> QED
      BY <3>1, <3>2 DEF Quiet, InWork
  <2>2. HasReply(m)
    BY <2>1 DEF DeskInv, MessagesInv, Owes
  <2>3. TheMessage(m) \notin mixed => Fits(m)
    BY <2>1 DEF DeskInv, MessagesInv
  <2> QED
    BY <2>2, <2>3
<1>2. HInit => DeskInv
  BY DeskStarts
<1>3. DeskInv /\ [HNext]_vars => DeskInv'
  BY DeskKept
<1> QED
  BY <1>1, <1>2, <1>3, PTL DEF HSpec

-----------------------------------------------------------------------------
(* What the steps of handlers are.                                         *)
LEMMA Steps ==
    ASSUME LocalsReady, NEW r \in Reqs
    PROVE  /\ \A l : (Keep(r, l) \/ Begin(r, l)) =>
                 req'[r] = l /\ DOMAIN req' = Reqs /\ \A q \in Reqs \ {r} : req'[q] = req[q]
           /\ Done(r) => req'[r] = Idle /\ DOMAIN req' = Reqs /\ \A q \in Reqs \ {r} : req'[q] = req[q]
           /\ \A p : Goto(r, p) =>
                 /\ req'[r].pc = p /\ DOMAIN req'[r] = DOMAIN req[r] /\ DOMAIN req' = Reqs
                 /\ \A f \in DOMAIN req[r] \ {"pc"} : req'[r][f] = req[r][f]
                 /\ \A q \in Reqs \ {r} : req'[q] = req[q]
           /\ \A l : Begin(r, l) => req[r].pc = "idle"
           /\ "pc" \in DOMAIN req[r]
  BY DEF LocalsReady, Ready, Keep, Begin, Done, Goto, At

BeginsAt(r, pcs) == \E l : Begin(r, l) /\ l.pc \in pcs

LEMMA Begun ==
    ASSUME LocalsReady, NEW r \in Reqs, NEW pcs, BeginsAt(r, pcs)
    PROVE  req[r].pc = "idle" /\ req'[r].pc \in pcs
  BY Steps DEF BeginsAt

(* A record written over.                                                  *)
LEMMA WithSo ==
    ASSUME NEW f, NEW fields, NEW x
    PROVE  /\ x \in DOMAIN With(f, fields) <=> x \in DOMAIN f \cup DOMAIN fields
           /\ x \in DOMAIN f \cup DOMAIN fields =>
                 With(f, fields)[x] = IF x \in DOMAIN fields THEN fields[x] ELSE f[x]
  BY DEF With

-----------------------------------------------------------------------------
(* The administrators' side.                                               *)
(* Where the requests of administrators are.                               *)
PlanPcs == {"read_best", "clear_plan", "insert_plan", "write_plan"}
SettingsPcs == {"get_settings", "create_settings", "upgrade_settings", "write_legal", "write_general"}
TicketPcs == {"insert_ticket", "add_message", "resolve", "gather", "show_page"}
OfficePcs == PlanPcs \cup {"write_default"} \cup SettingsPcs \cup TicketPcs

(* The requests of the restaurant stay out of the office.                  *)
LEMMA NamesAside ==
    ASSUME LocalsReady, NEW r \in Reqs, NamesArrive(r) \/ NamesStep(r)
    PROVE  req[r].pc \notin OfficePcs /\ req'[r].pc \notin OfficePcs
<1> USE DEF OfficePcs, PlanPcs, SettingsPcs, TicketPcs
<1>1. CASE NamesArrive(r)
  <2>1. ASSUME NEW n, BeginCreateAccount(r, n) PROVE BeginsAt(r, {"insert_account"})
    BY <2>1 DEF BeginCreateAccount, BeginsAt
  <2>2. ASSUME NEW i, BeginDeleteAccount(r, i) PROVE BeginsAt(r, {"delete_account"})
    BY <2>2 DEF BeginDeleteAccount, BeginsAt
  <2>3. ASSUME NEW i, NEW n, BeginRenameAccount(r, i, n) PROVE BeginsAt(r, {"rename_account"})
    BY <2>3 DEF BeginRenameAccount, BeginsAt
  <2>4. ASSUME NEW c, NEW n, CreateName(r, c, n) PROVE BeginsAt(r, {"find_name"})
    BY <2>4 DEF CreateName, BeginsAt
  <2>5. \E p \in {"insert_account", "rename_account", "delete_account", "find_name"} : BeginsAt(r, {p})
    BY <1>1, <2>1, <2>2, <2>3, <2>4 DEF NamesArrive
  <2> QED
    BY <2>5, Begun
<1>2. CASE InsertAccount(r) \/ RenameAccount(r) \/ DeleteAccount(r) \/ Answer(r)
  BY <1>2, Steps, Idles DEF InsertAccount, RenameAccount, DeleteAccount, Answer, At
<1>3. ASSUME AfterNames(r), req[r].pc \in {"find_name", "insert_name"}
      PROVE  req'[r].pc \notin OfficePcs
  <2>1. PICK rest : Keep(r, [req[r] EXCEPT !.todo = rest, !.pc = IF rest = <<>> THEN req[r].next ELSE "find_name"])
    BY <1>3 DEF AfterNames
  <2>2. PICK m : m = [req[r] EXCEPT !.todo = rest, !.pc = IF rest = <<>> THEN req[r].next ELSE "find_name"]
    OBVIOUS
  <2>3. m.pc \in {req[r].next, "find_name"} /\ req'[r] = m
    BY <2>1, <2>2, Steps
  <2>4. req[r].next \in {"answer", "insert_item", "find_expense"}
    BY <1>3 DEF LocalsReady, Ready, NamesReady
  <2> QED
    BY <2>3, <2>4
<1>4. CASE FindName(r) \/ InsertName(r)
  <2>1. req[r].pc \in {"find_name", "insert_name"} /\ (AfterNames(r) \/ Goto(r, "insert_name") \/ Done(r))
    BY <1>4 DEF FindName, InsertName, Raised, At
  <2> QED
    BY <1>3, <2>1, Steps, Idles
<1> QED
  BY <1>1, <1>2, <1>4 DEF NamesStep

LEMMA InventoryAside ==
    ASSUME LocalsReady, NEW r \in Reqs, InventoryArrive(r) \/ InventoryStep(r) \/ InventoryPush(r)
    PROVE  req[r].pc \notin OfficePcs /\ req'[r].pc \notin OfficePcs
<1> USE DEF OfficePcs, PlanPcs, SettingsPcs, TicketPcs
<1>1. CASE InventoryArrive(r)
  <2>1. ASSUME NEW form, BeginCreateItem(r, form) PROVE BeginsAt(r, {"find_name"})
    BY <2>1 DEF BeginCreateItem, BeginsAt
  <2>2. ASSUME NEW i, NEW a, NEW m, BeginUpdateStock(r, i, a, m) PROVE BeginsAt(r, {"write_stock"})
    BY <2>2 DEF BeginUpdateStock, BeginsAt
  <2>3. ASSUME NEW i, NEW edit, BeginUpdateItem(r, i, edit) PROVE BeginsAt(r, {"write_item"})
    BY <2>3 DEF BeginUpdateItem, BeginsAt
  <2>4. ASSUME NEW i, BeginDeleteItem(r, i) PROVE BeginsAt(r, {"delete_expense"})
    BY <2>4 DEF BeginDeleteItem, BeginsAt
  <2>5. \E p \in {"find_name", "write_stock", "write_item", "delete_expense"} : BeginsAt(r, {p})
    BY <1>1, <2>1, <2>2, <2>3, <2>4 DEF InventoryArrive
  <2> QED
    BY <2>5, Begun
<1>2. CASE InsertItem(r)
  <2>1. PICK l : Keep(r, l) /\ l.pc = "find_expense" /\ req[r].pc = "insert_item"
    BY <1>2 DEF InsertItem, At
  <2> QED
    BY <2>1, Steps
<1>3. CASE FindExpense(r) \/ DeleteExpense(r)
  <2>1. PICK p \in {"insert_expense", "update_expense", "delete_item"} : Goto(r, p)
    BY <1>3 DEF FindExpense, DeleteExpense
  <2>2. req[r].pc \in {"find_expense", "delete_expense"}
    BY <1>3 DEF FindExpense, DeleteExpense, At
  <2> QED
    BY <2>1, <2>2, Steps
<1>4. CASE InsertExpense(r) \/ UpdateExpense(r)
  <2>1. req[r].pc \in {"insert_expense", "update_expense"} /\ (Goto(r, req[r].after) \/ Done(r))
    BY <1>4 DEF InsertExpense, UpdateExpense, Raised, At
  <2>2. req[r].after \in {"answer", "push_item"}
    BY <2>1 DEF LocalsReady, Ready, NamesReady, Spends
  <2> QED
    BY <2>1, <2>2, Steps, Idles
<1>5. CASE WriteStock(r) \/ PushItem(r) \/ PushLowStock(r) \/ DeleteItem(r)
  <2>1. /\ req[r].pc \in {"write_stock", "push_item", "push_low_stock", "delete_item"}
        /\ Goto(r, "push_low_stock") \/ Done(r)
    BY <1>5 DEF WriteStock, PushItem, PushLowStock, DeleteItem, Raised, At
  <2> QED
    BY <2>1, Steps, Idles
<1>6. CASE WriteItem(r)
  <2>1. req[r].pc = "write_item" /\ (Done(r) \/ \E l : Keep(r, l) /\ l.pc = "find_name")
    BY <1>6 DEF WriteItem, Raised, At
  <2> QED
    BY <2>1, Steps, Idles
<1> QED
  BY <1>1, <1>2, <1>3, <1>4, <1>5, <1>6 DEF InventoryStep, InventoryPush

LEMMA NoticesAside ==
    ASSUME LocalsReady, NEW r \in Reqs, DevicesArrive(r) \/ BeginAnalytics(r) \/ DevicesStep(r) \/ AlertsStep(r)
    PROVE  req[r].pc \notin OfficePcs /\ req'[r].pc \notin OfficePcs
<1> USE DEF OfficePcs, PlanPcs, SettingsPcs, TicketPcs
<1>1. CASE DevicesArrive(r) \/ BeginAnalytics(r)
  <2>1. ASSUME NEW d, BeginRegister(r, d) PROVE BeginsAt(r, {"write_devices"})
    BY <2>1 DEF BeginRegister, BeginsAt
  <2>2. ASSUME NEW id, BeginUnregister(r, id) PROVE BeginsAt(r, {"write_devices"})
    BY <2>2 DEF BeginUnregister, BeginsAt
  <2>3. ASSUME NEW field, NEW on, BeginSettings(r, field, on) PROVE BeginsAt(r, {"write_settings"})
    BY <2>3 DEF BeginSettings, BeginsAt
  <2>4. BeginAnalytics(r) => BeginsAt(r, {"ask"})
    BY DEF BeginAnalytics, BeginsAt
  <2>5. \E p \in {"write_devices", "write_settings", "ask"} : BeginsAt(r, {p})
    BY <1>1, <2>1, <2>2, <2>3, <2>4 DEF DevicesArrive
  <2> QED
    BY <2>5, Begun
<1>2. CASE DevicesStep(r)
  BY <1>2, Steps, Idles DEF DevicesStep, WriteDevices, WriteSettings, At
<1>3. CASE AskOther(r)
  <2>1. PICK l : l = [req[r] EXCEPT !.alerts = req[r].text]
    OBVIOUS
  <2>2. PICK m : m = [l EXCEPT !.pc = "ask", !.key = Languages[2], !.next = "find_alert"]
    OBVIOUS
  <2>3. Keep(r, m) /\ req[r].pc = "ask_other"
    BY <1>3, <2>1, <2>2 DEF AskOther, Asking, At
  <2>4. m.pc = "ask"
    BY <2>1, <2>2, Steps
  <2> QED
    BY <2>3, <2>4, Steps
<1>4. ASSUME NextAlert(r) PROVE req'[r].pc \notin OfficePcs
  <2>1. CASE Keep(r, Idle)
    BY <2>1, Steps, Idles
  <2>2. CASE ~Keep(r, Idle)
    <3>1. PICK rest : Keep(r, [req[r] EXCEPT !.pc = "find_alert", !.alerts = rest])
      BY <1>4, <2>2 DEF NextAlert
    <3>2. PICK m : m = [req[r] EXCEPT !.pc = "find_alert", !.alerts = rest]
      OBVIOUS
    <3>3. m.pc = "find_alert" /\ req'[r] = m
      BY <3>1, <3>2, Steps
    <3> QED
      BY <3>3
  <2> QED
    BY <2>1, <2>2
<1>5. CASE FindAlert(r) \/ InsertAlert(r) \/ PushAlert(r)
  <2>1. req[r].pc \in {"find_alert", "insert_alert", "push_alert"}
    BY <1>5 DEF FindAlert, InsertAlert, PushAlert, At
  <2>2. NextAlert(r) \/ Goto(r, "insert_alert") \/ Goto(r, "push_alert") \/ Done(r)
    BY <1>5 DEF FindAlert, InsertAlert, PushAlert, Raised
  <2> QED
    BY <1>4, <2>1, <2>2, Steps, Idles
<1> QED
  BY <1>1, <1>2, <1>3, <1>5 DEF AlertsStep

LEMMA ChatAside ==
    ASSUME LocalsReady, NEW r \in Reqs, ChatArrive(r) \/ ChatStep(r)
    PROVE  req[r].pc \notin OfficePcs /\ req'[r].pc \notin OfficePcs
<1> USE DEF OfficePcs, PlanPcs, SettingsPcs, TicketPcs
<1>1. ASSUME NEW l, Joins(r, l) \/ Goes(r, l), l.pc \in ChatPcs \cup {"ask"}
      PROVE  req'[r].pc \notin OfficePcs
  BY <1>1, Steps DEF Joins, Goes, ChatPcs, MessagePcs, Answering, ListedPcs
<1>2. CASE ChatArrive(r)
  <2>1. req[r].pc = "idle"
    BY <1>2, Steps, BeginMessageSo, BeginEditMessageSo, BeginHistorySo DEF ChatArrive, Joins
  <2>2. \E l : (Joins(r, l) \/ Goes(r, l)) /\ l.pc \in ChatPcs \cup {"ask"}
    BY <1>2, BeginMessageSo, BeginEditMessageSo, BeginHistorySo
       DEF ChatArrive, ChatPcs, MessagePcs, Answering, ListedPcs
  <2> QED
    BY <1>1, <2>1, <2>2
<1>3. CASE Broadcast(r) \/ Answered(r)
  <2>1. req[r].pc \in {"broadcast", "answered"} /\ Done(r)
    BY <1>3 DEF Broadcast, Answered, At
  <2> QED
    BY <2>1, Steps, Idles
<1>4. CASE ChatStep(r) /\ ~Broadcast(r) /\ ~Answered(r)
  <2>1. req[r].pc \in ChatPcs
    BY <1>4 DEF ChatStep, EditMessage, ReadContext, InsertReply, ListChat, ReadMemory, WriteMemory,
       WriteTranslation, At, ChatPcs, MessagePcs, Answering, ListedPcs
  <2>2. \E l : (Joins(r, l) \/ Goes(r, l)) /\ l.pc \in ChatPcs \cup {"ask"}
    <3>1. CASE EditMessage(r) \/ ReadContext(r) \/ InsertReply(r)
      BY <3>1, EditMessageSo, ReadContextSo, InsertReplySo DEF ChatPcs, MessagePcs, Answering, ListedPcs
    <3>2. CASE ListChat(r) \/ ReadMemory(r) \/ WriteMemory(r) \/ WriteTranslation(r)
      BY <3>2, ListChatSo, ReadMemorySo, WriteMemorySo, WriteTranslationSo
         DEF ChatPcs, MessagePcs, Answering, ListedPcs
    <3> QED
      BY <1>4, <3>1, <3>2 DEF ChatStep
  <2> QED
    BY <1>1, <2>1, <2>2 DEF ChatPcs, MessagePcs, Answering, ListedPcs
<1> QED
  BY <1>2, <1>3, <1>4

(* Whoever is not at work in the office changes nothing there and does not *)
(* get in; a request of the office that does not go on ends.               *)
officeRows == <<plans, settings, tickets>>
OnPlans(r) == (PlansArrive(r) \/ PlansStep(r)) /\ UNCHANGED <<settings, tickets>>
OnSettings(r) == (SettingsArrive(r) \/ SettingsStep(r)) /\ UNCHANGED <<plans, tickets>>
OnTickets(r) == (TicketsArrive(r) \/ TicketsStep(r)) /\ UNCHANGED <<plans, settings>>
Aside(q) ==
    \/ req'[q] = req[q]
    \/ req'[q].pc \notin OfficePcs /\ (req[q].pc \in OfficePcs => req'[q] = Idle /\ UNCHANGED officeVars)

LEMMA OfficeOrNot ==
    ASSUME LocalsReady, CouponsInv, PricesInv, DeskNext
    PROVE  \/ \E r \in Reqs : OnPlans(r) \/ OnSettings(r) \/ OnTickets(r)
           \/ UNCHANGED officeRows /\ \A q \in Reqs : Aside(q)
<1> DEFINE Left == UNCHANGED officeRows /\ \A q \in Reqs : Aside(q)
<1> USE DEF OfficePcs, PlanPcs, SettingsPcs, TicketPcs, officeRows
<1>1. ASSUME NEW r \in Reqs, NEW l, req' = [req EXCEPT ![r] = l], UNCHANGED officeRows,
             req[r].pc \notin OfficePcs, l.pc \notin OfficePcs
      PROVE  Left
  BY <1>1 DEF Aside, LocalsReady
<1>2. ASSUME NEW r \in Reqs, NEW l, Moves(r, l), UNCHANGED officeRows,
             req[r].pc \notin OfficePcs, req'[r].pc \notin OfficePcs
      PROVE  Left
  BY <1>1, <1>2 DEF Moves, LocalsReady
<1>3. ASSUME NEW r \in Reqs, CouponsArrive(r) \/ CouponsStep(r), UNCHANGED officeRows PROVE Left
  <2>1. PICK l : Moves(r, l) /\ l.pc \in {"idle"} \cup CouponPcs
    BY <1>3, CouponMoves
  <2> QED
    BY <1>1, <1>3, <2>1, CouponMoves DEF CouponPcs, Moves
<1>4. ASSUME NEW r \in Reqs, BeginCheckout(r) \/ CheckoutStep(r), UNCHANGED officeRows PROVE Left
  <2>1. PICK l : Moves(r, l) /\ l.pc \in {"idle"} \cup CheckoutPcs
    BY <1>4, CheckoutMoves
  <2> QED
    BY <1>1, <1>4, <2>1, CheckoutMoves DEF CheckoutPcs, Moves
<1>5. ASSUME NEW r \in Reqs, BeginInsight(r) \/ InsightStep(r), UNCHANGED officeRows PROVE Left
  <2>1. PICK l : Moves(r, l) /\ l.pc \in {"idle", "ask"}
    BY <1>5, InsightMoves
  <2> QED
    BY <1>1, <1>5, <2>1, InsightMoves DEF InsightNexts, Moves
<1>6. ASSUME NEW r \in Reqs, NamesArrive(r) \/ NamesStep(r), UNCHANGED officeRows PROVE Left
  BY <1>2, <1>6, NamesAside, NamesArriveSo, NamesStepSo DEF Silent
<1>7. ASSUME NEW r \in Reqs, InventoryArrive(r) \/ InventoryStep(r) \/ InventoryPush(r), UNCHANGED officeRows
      PROVE  Left
  BY <1>2, <1>7, InventoryAside, InventoryArriveSo, InventoryStepSo DEF Silent
<1>8. ASSUME NEW r \in Reqs, UNCHANGED officeRows,
             DevicesArrive(r) \/ BeginAnalytics(r) \/ DevicesStep(r) \/ AlertsStep(r)
      PROVE  Left
  BY <1>2, <1>8, NoticesAside, DevicesArriveSo, AlertsStepSo DEF Silent
<1>9. ASSUME NEW r \in Reqs, ChatArrive(r) \/ ChatStep(r), UNCHANGED officeRows PROVE Left
  BY <1>2, <1>9, ChatAside, ChatMoves DEF Ordinary
<1>10. ASSUME NEW r \in Reqs, Stop(r) PROVE Left
  <2>1. UNCHANGED officeVars /\ req'[r] = Idle /\ \A q \in Reqs \ {r} : req'[q] = req[q]
    BY <1>10, Steps DEF Stop, Raised
  <2> QED
    BY <2>1, Idles DEF Aside, officeVars, settingsVars, ticketVars
<1>11. ASSUME OnGeneration, UNCHANGED officeRows PROVE Left
  <2>1. ASSUME NEW q \in Reqs, req[q].pc \in Generating, Follows(req[q], req'[q]) PROVE Aside(q)
    <3>1. CASE req'[q] = Idle
      BY <2>1, <3>1, Idles DEF Aside, Generating, Slept
    <3>2. CASE req'[q] # Idle
      BY <2>1, <3>2 DEF Follows, Aside, Generating, Slept, InsightNexts, OtherNexts, AlertNexts
    <3> QED
      BY <3>1, <3>2
  <2>2. ASSUME NEW q \in Reqs, req'[q] = req[q] PROVE Aside(q)
    BY <2>2 DEF Aside
  <2>3. ASSUME NEW r \in Reqs, Ask(r) \/ Wake(r), NEW q \in Reqs PROVE Aside(q)
    <3>1. PICK m : req' = [req EXCEPT ![r] = m] /\ Follows(req[r], m) /\ req[r].pc \in Generating
      BY <2>3, AskLocals
    <3>2. req'[r] = m /\ (q # r => req'[q] = req[q])
      BY <3>1 DEF LocalsReady
    <3> QED
      BY <2>1, <2>2, <3>1, <3>2
  <2>4. ASSUME NEW k, NEW text, Ends(k, text), NEW q \in Reqs PROVE Aside(q)
    BY <2>1, <2>2, <2>4, EndsLocals
  <2>5. CASE UNCHANGED req
    BY <1>11, <2>2, <2>5
  <2> QED
    BY <1>11, <2>3, <2>4, <2>5 DEF OnGeneration
<1>12. ASSUME NEW r \in Reqs, Arrive(r)
       PROVE  OnPlans(r) \/ OnSettings(r) \/ OnTickets(r) \/ Left
  <2>1. CASE ArriveAtRestaurant(r) /\ UNCHANGED officeVars
    <3>1. UNCHANGED officeRows
      BY <2>1 DEF officeVars, settingsVars, ticketVars
    <3>2. \/ NamesArrive(r) \/ InventoryArrive(r) \/ DevicesArrive(r) \/ BeginAnalytics(r)
          \/ ChatArrive(r) \/ BeginInsight(r)
      BY <2>1 DEF ArriveAtRestaurant
    <3> QED
      BY <1>5, <1>6, <1>7, <1>8, <1>9, <3>1, <3>2
  <2>2. CASE ArriveAtOffice(r) /\ UNCHANGED restaurantVars
    <3>1. \/ OnPlans(r) \/ OnSettings(r) \/ OnTickets(r)
          \/ /\ CouponsArrive(r) \/ BeginCheckout(r)
             /\ UNCHANGED officeRows
      BY <2>2 DEF ArriveAtOffice, OnPlans, OnSettings, OnTickets, settingsVars, ticketVars
    <3> QED
      BY <1>3, <1>4, <3>1
  <2> QED
    BY <1>12, <2>1, <2>2 DEF Arrive
<1>13. ASSUME NEW r \in Reqs, Step(r)
       PROVE  OnPlans(r) \/ OnSettings(r) \/ OnTickets(r) \/ Left
  <2>1. CASE RestaurantStep(r) /\ UNCHANGED officeVars
    <3>1. UNCHANGED officeRows
      BY <2>1 DEF officeVars, settingsVars, ticketVars
    <3>2. \/ NamesStep(r) \/ InventoryStep(r) \/ InventoryPush(r) \/ DevicesStep(r) \/ AlertsStep(r)
          \/ ChatStep(r) \/ InsightStep(r)
          \/ (Ask(r) \/ Wake(r)) /\ UNCHANGED restaurantVars
      BY <2>1 DEF RestaurantStep
    <3>3. CASE (Ask(r) \/ Wake(r)) /\ UNCHANGED restaurantVars
      <4>1. OnGeneration
        BY <2>1, <3>3 DEF OnGeneration, restaurantVars, assistantVars, chatVars, officeVars, couponVars, checkoutVars
      <4> QED
        BY <1>11, <3>1, <4>1
    <3> QED
      BY <1>5, <1>6, <1>7, <1>8, <1>9, <3>1, <3>2, <3>3
  <2>2. CASE OfficeStep(r) /\ UNCHANGED <<restaurantVars, generationVars>>
    <3>1. \/ OnPlans(r) \/ OnSettings(r) \/ OnTickets(r)
          \/ /\ CouponsStep(r) \/ CheckoutStep(r)
             /\ UNCHANGED officeRows
      BY <2>2 DEF OfficeStep, OnPlans, OnSettings, OnTickets, settingsVars, ticketVars
    <3> QED
      BY <1>3, <1>4, <3>1
  <2> QED
    BY <1>13, <2>1, <2>2 DEF Step
<1>14. ASSUME (\E k \in Keys : ModelAnswers(k)) \/ GenerationLost PROVE Left
  <2>1. UNCHANGED officeRows
    BY <1>14 DEF ModelAnswers, GenerationLost, deskButGenerations, officeVars, settingsVars, ticketVars
  <2>2. OnGeneration
    <3>1. UNCHANGED <<chatVars, insights, coupons, customer, stripe, plans>>
      BY <1>14 DEF ModelAnswers, GenerationLost, deskButGenerations, officeVars, couponVars, checkoutVars,
         restaurantVars, assistantVars, chatVars
    <3>2. ASSUME NEW r \in Reqs, CancelAwait(r) PROVE Ends(req[r].key, NULL) /\ req[r].key \in Keys
      BY <3>2 DEF CancelAwait, At, LocalsReady, Ready, GenerationReady, Generating, Slept
    <3>3. ASSUME NEW k \in Keys, ModelAnswers(k) PROVE OnGeneration
      BY <3>1, <3>3 DEF ModelAnswers, Generate, OnGeneration
    <3>4. CASE GenerationLost
      BY <3>1, <3>2, <3>4 DEF GenerationLost, Expire, OnGeneration
    <3> QED
      BY <1>14, <3>3, <3>4
  <2> QED
    BY <1>11, <2>1, <2>2
<1> QED
  BY <1>10, <1>12, <1>13, <1>14 DEF DeskNext

-----------------------------------------------------------------------------
(* What the administrators want changes with what they have, as the one    *)
(* request that moves asks.                                                *)
SameWishes ==
    /\ ordered'.best = ordered.best /\ ordered'.general = ordered.general
    /\ ordered'.legal = ordered.legal /\ ordered'.replies = ordered.replies
NewReplies == [t \in 1 .. Len(tickets') - Len(tickets) |-> 0]

LEMMA OrderedBy ==
    ASSUME OrderedNext, NEW r \in Reqs, \A q \in Reqs \ {r} : req'[q] = req[q]
    PROVE  \/ SameWishes /\ (req'[r] = req[r] \/ officeVars' = officeVars)
           \/ /\ ordered'.best = IF plans' = plans THEN ordered.best ELSE BestAfter(r)
              /\ ordered'.general = IF At(r, "write_general") THEN req[r].edit.content ELSE ordered.general
              /\ ordered'.legal = IF At(r, "write_legal")
                                  THEN [ordered.legal EXCEPT ![req[r].edit.key] = req[r].edit.content]
                                  ELSE ordered.legal
              /\ ordered'.replies = IF At(r, "add_message")
                                    THEN [ordered.replies EXCEPT ![req[r].ticket] = @ + 1]
                                    ELSE ordered.replies \o NewReplies
<1>1. PICK by : by = {q \in Reqs : req'[q] # req[q] /\ officeVars' # officeVars}
  OBVIOUS
<1>2. CASE by = {}
  BY <1>1, <1>2 DEF OrderedNext, SameWishes
<1>3. CASE by # {}
  <2>1. by = {r}
    BY <1>1, <1>3
  <2>2. (CHOOSE q \in by : TRUE) = r
    BY <2>1
  <2> QED
    BY <1>1, <1>3, <2>2 DEF OrderedNext, NewReplies
<1> QED
  BY <1>2, <1>3

LEMMA NoReplies ==
    ASSUME ordered.replies \in Seq(Nat), UNCHANGED tickets, tickets \in Seq(Range(tickets))
    PROVE  ordered.replies \o NewReplies = ordered.replies
<1>1. Len(tickets) \in Nat /\ Len(tickets') = Len(tickets)
  OBVIOUS
<1>2. 1 .. Len(tickets') - Len(tickets) = {}
  BY <1>1
<1>3. NewReplies = << >>
  BY <1>2 DEF NewReplies
<1> QED
  BY <1>3

LEMMA OrderedLeft ==
    ASSUME OrderedNext, UNCHANGED officeRows, \A q \in Reqs : Aside(q),
           ordered.replies \in Seq(Nat), tickets \in Seq(Range(tickets))
    PROVE  SameWishes
<1>1. PICK by : by = {q \in Reqs : req'[q] # req[q] /\ officeVars' # officeVars}
  OBVIOUS
<1>2. CASE by = {}
  BY <1>1, <1>2 DEF OrderedNext, SameWishes
<1>3. CASE by # {}
  <2>1. PICK r \in by : r = CHOOSE q \in by : TRUE
    BY <1>3
  <2>2. req[r].pc \notin OfficePcs
    BY <1>1, <2>1 DEF Aside
  <2>3. ~At(r, "write_general") /\ ~At(r, "write_legal") /\ ~At(r, "add_message")
    BY <2>2 DEF At, OfficePcs, SettingsPcs, TicketPcs
  <2>4. UNCHANGED plans /\ UNCHANGED tickets
    BY DEF officeRows
  <2> QED
    BY <1>1, <1>3, <2>1, <2>3, <2>4, NoReplies DEF OrderedNext, SameWishes, NewReplies
<1> QED
  BY <1>2, <1>3

-----------------------------------------------------------------------------
(* Plans.                                                                  *)
PlanWork == <<"plans", 0>>
Asks(form) == "best" \in DOMAIN form /\ form.best

(* What a request that changes plans carries.                              *)
PlanLocal(l) ==
    l.pc \in PlanPcs =>
       /\ {"form", "plan", "next"} \subseteq DOMAIN l /\ "id" \notin DOMAIN l
       /\ \/ l.next = "insert_plan" /\ l.plan = 0 /\ l.form \in PlanForms
          \/ l.next = "write_plan" /\ l.plan \in DOMAIN plans /\ l.form \in PlanEdits
       /\ l.pc \in {"read_best", "clear_plan", l.next}
       /\ l.pc \in {"read_best", "clear_plan"} => Asks(l.form)
       /\ l.pc = "clear_plan" => "todo" \in DOMAIN l /\ l.todo \subseteq DOMAIN plans /\ l.todo # {}

PlansShaped ==
    /\ 1 \in DOMAIN plans
    /\ \A i \in DOMAIN plans : {"name", "best"} \subseteq DOMAIN plans[i] /\ plans[i].best \in BOOLEAN
    /\ \A r \in Reqs : PlanLocal(req[r])

LEMMA Least ==
    ASSUME NEW S, S \subseteq Nat, S # {}
    PROVE  Min(S) \in S
<1>1. PICK R : R = {ss \in Nat \X Nat : ss[1] < ss[2]} /\ IsWellFoundedOn(R, Nat)
  BY NatLessThanWellFounded DEF OpToRel
<1>2. PICK n \in S : \A j \in S : <<j, n>> \notin R
  BY <1>1, WFMin
<1>3. ASSUME NEW j \in S PROVE n <= j
  <2>1. j \in Nat /\ n \in Nat /\ <<j, n>> \notin R
    BY <1>2
  <2>2. \A x, y \in Nat : x < y => <<x, y>> \in R
    BY <1>1
  <2> QED
    BY <2>1, <2>2
<1> QED
  BY <1>3 DEF Min

(* What the steps of a request that changes plans do to it.                *)
PlanBegins(r) ==
    /\ req[r].pc = "idle" /\ UNCHANGED plans
    /\ req'[r].pc \in {"read_best", "insert_plan", "write_plan"}
    /\ PlanLocal(req'[r])
    /\ Asks(req'[r].form) => req'[r].pc = "read_best"
    /\ "name" \in DOMAIN req'[r].form => NameFree(req'[r].form.name, {req'[r].plan})

LEMMA PlanBegun ==
    ASSUME LocalsReady, PricesInv, NEW r \in Reqs, PlansArrive(r)
    PROVE  PlanBegins(r) \/ (req[r].pc = "idle" /\ UNCHANGED plans /\ req'[r].pc = "write_default")
<1>1. ASSUME NEW form \in PlanForms, BeginCreatePlan(r, form) PROVE PlanBegins(r)
  <2>1. PICK l : l = [pc |-> AfterCheck(form.best, "insert_plan"), plan |-> 0, form |-> form, next |-> "insert_plan"]
    OBVIOUS
  <2>2. Begin(r, l) /\ UNCHANGED plans /\ NameFree(form.name, {})
    BY <1>1, <2>1 DEF BeginCreatePlan
  <2>3. req'[r] = l /\ req[r].pc = "idle"
    BY <2>2, Steps
  <2>4. "best" \in DOMAIN form /\ form.best \in BOOLEAN
    BY FormsAssumption
  <2>5. l.pc = IF form.best THEN "read_best" ELSE "insert_plan"
    BY <2>1 DEF AfterCheck
  <2>6. DOMAIN l = {"pc", "plan", "form", "next"} /\ l.plan = 0 /\ l.form = form /\ l.next = "insert_plan"
    BY <2>1
  <2>7. NameFree(form.name, {0})
    BY <2>2 DEF NameFree
  <2> QED
    BY <2>2, <2>3, <2>4, <2>5, <2>6, <2>7 DEF PlanBegins, PlanLocal, Asks, PlanPcs
<1>2. ASSUME NEW i \in DOMAIN plans, NEW updates \in PlanEdits, BeginUpdatePlan(r, i, updates)
      PROVE  PlanBegins(r)
  <2>1. PICK l : l = [pc |-> AfterCheck("best" \in DOMAIN updates /\ updates.best, "write_plan"),
                      plan |-> i, form |-> updates, next |-> "write_plan"]
    OBVIOUS
  <2>2. Begin(r, l) /\ UNCHANGED plans /\ ("name" \in DOMAIN updates => NameFree(updates.name, {i}))
    BY <1>2, <2>1 DEF BeginUpdatePlan
  <2>3. req'[r] = l /\ req[r].pc = "idle"
    BY <2>2, Steps
  <2>5. l.pc = IF Asks(updates) THEN "read_best" ELSE "write_plan"
    BY <2>1 DEF AfterCheck, Asks
  <2>6. DOMAIN l = {"pc", "plan", "form", "next"} /\ l.plan = i /\ l.form = updates /\ l.next = "write_plan"
    BY <2>1
  <2> QED
    BY <2>2, <2>3, <2>5, <2>6 DEF PlanBegins, PlanLocal, PlanPcs
<1>3. CASE BeginStart(r)
  BY <1>3, Steps DEF BeginStart
<1> QED
  BY <1>1, <1>2, <1>3 DEF PlansArrive

Carries(r) ==
    /\ {"form", "plan", "next"} \subseteq DOMAIN req'[r] /\ "id" \notin DOMAIN req'[r]
    /\ req'[r].form = req[r].form /\ req'[r].plan = req[r].plan /\ req'[r].next = req[r].next
PlanReads(r) ==
    /\ req[r].pc = "read_best" /\ UNCHANGED plans /\ Carries(r)
    /\ \/ req'[r].pc = req[r].next /\ Flagged \subseteq {req[r].plan}
       \/ /\ req'[r].pc = "clear_plan" /\ "todo" \in DOMAIN req'[r]
          /\ req'[r].todo = Flagged \ {req[r].plan} /\ req'[r].todo # {}

LEMMA PlanRead ==
    ASSUME LocalsReady, PlansShaped, NEW r \in Reqs, ReadBest(r)
    PROVE  PlanReads(r)
<1>1. /\ req[r].pc = "read_best" /\ {"form", "plan", "next"} \subseteq DOMAIN req[r] /\ "id" \notin DOMAIN req[r]
      /\ UNCHANGED plans
  BY DEF ReadBest, At, PlansShaped, PlanLocal, PlanPcs
<1>2. CASE Flagged \ {req[r].plan} = {}
  <2>1. Goto(r, req[r].next)
    BY <1>2 DEF ReadBest
  <2> QED
    BY <1>1, <1>2, <2>1, Steps DEF PlanReads, Carries
<1>3. CASE Flagged \ {req[r].plan} # {}
  <2>1. PICK fields : fields = [todo |-> Flagged \ {req[r].plan}, pc |-> "clear_plan"]
    OBVIOUS
  <2>2. Keep(r, With(req[r], fields))
    BY <1>3, <2>1 DEF ReadBest
  <2>3. PICK m : m = With(req[r], fields)
    OBVIOUS
  <2>4. DOMAIN fields = {"todo", "pc"} /\ fields.todo = Flagged \ {req[r].plan} /\ fields.pc = "clear_plan"
    BY <2>1
  <2>5. /\ DOMAIN m = DOMAIN req[r] \cup {"todo", "pc"} /\ m.todo = fields.todo /\ m.pc = fields.pc
        /\ m.form = req[r].form /\ m.plan = req[r].plan /\ m.next = req[r].next
    BY <1>1, <2>3, <2>4 DEF With
  <2>6. req'[r] = m
    BY <2>2, <2>3, Steps
  <2> QED
    BY <1>1, <1>3, <2>4, <2>5, <2>6 DEF PlanReads, Carries
<1> QED
  BY <1>2, <1>3

(* The plans but one stay as they are, and that keeps what is not given.   *)
Same(i, f) == plans'[i][f] = plans[i][f]
Rewritten(i, form) ==
    /\ i \in DOMAIN plans
    /\ DOMAIN plans' = DOMAIN plans
    /\ \A j \in DOMAIN plans \ {i} : plans'[j] = plans[j]
    /\ {"name", "best"} \subseteq DOMAIN plans'[i]
    /\ \A f \in {"name", "best"} : IF f \in DOMAIN form THEN plans'[i][f] = form[f] ELSE Same(i, f)

LEMMA RewrittenSo ==
    ASSUME PlansShaped, NEW i \in DOMAIN plans, NEW form, plans' = [plans EXCEPT ![i] = With(@, form)]
    PROVE  Rewritten(i, form)
<1>1. PICK plan : plan = With(plans[i], form)
  OBVIOUS
<1>2. plans' = [plans EXCEPT ![i] = plan]
  BY <1>1
<1>3. DOMAIN plans' = DOMAIN plans /\ plans'[i] = plan /\ \A j \in DOMAIN plans \ {i} : plans'[j] = plans[j]
  BY <1>2
<1>4. {"name", "best"} \subseteq DOMAIN plans[i]
  BY DEF PlansShaped
<1>5. /\ {"name", "best"} \subseteq DOMAIN plan
      /\ \A f \in {"name", "best"} : plan[f] = IF f \in DOMAIN form THEN form[f] ELSE plans[i][f]
  BY <1>1, <1>4, WithSo
<1> QED
  BY <1>3, <1>5 DEF Rewritten, Same

PlanClears(r) ==
    LET h == Min(req[r].todo) IN
    /\ req[r].pc = "clear_plan" /\ Carries(r) /\ "todo" \in DOMAIN req'[r]
    /\ h \in req[r].todo /\ Rewritten(h, [best |-> FALSE])
    /\ req'[r].todo = req[r].todo \ {h}
    /\ req'[r].pc = IF req'[r].todo = {} THEN req[r].next ELSE "clear_plan"

LEMMA PlanCleared ==
    ASSUME LocalsReady, PricesInv, PlansShaped, NEW r \in Reqs, ClearPlan(r)
    PROVE  PlanClears(r)
<1>1. /\ req[r].pc = "clear_plan" /\ {"form", "plan", "next", "todo"} \subseteq DOMAIN req[r] /\ "id" \notin DOMAIN req[r]
      /\ req[r].todo \subseteq DOMAIN plans /\ req[r].todo # {}
  BY DEF ClearPlan, At, PlansShaped, PlanLocal, PlanPcs
<1>2. PICK h : h = Min(req[r].todo)
  OBVIOUS
<1>3. h \in req[r].todo /\ h \in DOMAIN plans
  BY <1>1, <1>2, Least DEF PricesInv
<1>4. Rewritten(h, [best |-> FALSE])
  <2>1. plans' = [plans EXCEPT ![h].best = FALSE]
    BY <1>2 DEF ClearPlan
  <2>2. PICK plan : plan = [plans[h] EXCEPT !.best = FALSE]
    OBVIOUS
  <2>3. {"name", "best"} \subseteq DOMAIN plans[h]
    BY <1>3 DEF PlansShaped
  <2>4. DOMAIN plan = DOMAIN plans[h] /\ plan.best = FALSE /\ plan.name = plans[h].name
    BY <2>2, <2>3
  <2>5. plans' = [plans EXCEPT ![h] = plan]
    BY <2>1, <2>2
  <2>6. DOMAIN plans' = DOMAIN plans /\ plans'[h] = plan /\ \A j \in DOMAIN plans \ {h} : plans'[j] = plans[j]
    BY <1>3, <2>5
  <2>7. PICK form : form = [best |-> FALSE]
    OBVIOUS
  <2>8. DOMAIN form = {"best"} /\ form.best = FALSE
    BY <2>7
  <2>9. Rewritten(h, form)
    BY <1>3, <2>3, <2>4, <2>6, <2>8 DEF Rewritten, Same
  <2> QED
    BY <2>7, <2>9
<1>5. PICK rest : rest = req[r].todo \ {h}
  OBVIOUS
<1>6. PICK m : m = [req[r] EXCEPT !.todo = rest, !.pc = IF rest = {} THEN req[r].next ELSE "clear_plan"]
  OBVIOUS
<1>7. req'[r] = m
  BY <1>2, <1>5, <1>6, Steps DEF ClearPlan
<1>8. /\ DOMAIN m = DOMAIN req[r] /\ m.todo = rest /\ m.pc = IF rest = {} THEN req[r].next ELSE "clear_plan"
      /\ m.form = req[r].form /\ m.plan = req[r].plan /\ m.next = req[r].next
  BY <1>1, <1>6, Steps
<1> QED
  BY <1>1, <1>2, <1>3, <1>4, <1>5, <1>7, <1>8 DEF PlanClears, Carries

(* A plan more, or none if there is one without a key already.             *)
Added(form) ==
    /\ Len(plans') = Len(plans) + 1 /\ DOMAIN plans' = 1 .. Len(plans) + 1 /\ DOMAIN plans = 1 .. Len(plans)
    /\ \A j \in DOMAIN plans : plans'[j] = plans[j]
    /\ {"name", "best"} \subseteq DOMAIN plans'[Len(plans) + 1]
    /\ plans'[Len(plans) + 1].name = form.name /\ plans'[Len(plans) + 1].best = form.best

LEMMA PlanInserted ==
    ASSUME LocalsReady, PricesInv, PlansShaped, NEW r \in Reqs, InsertPlan(r)
    PROVE  req[r].pc = "insert_plan" /\ req'[r] = Idle /\ (UNCHANGED plans \/ Added(req[r].form))
<1>1. req[r].pc = "insert_plan" /\ req[r].form \in PlanForms
  BY DEF InsertPlan, At, LocalsReady, Ready, PlansReady
<1>2. req'[r] = Idle
  BY Steps DEF InsertPlan
<1>3. CASE plans' # plans
  <2>1. PICK plan : plan = With(req[r].form, [singleton_key |-> NULL])
    OBVIOUS
  <2>2. plans' = Append(plans, plan)
    BY <1>3, <2>1 DEF InsertPlan
  <2>3. {"name", "best"} \subseteq DOMAIN req[r].form
    BY <1>1, FormsAssumption
  <2>4. PICK key : key = [singleton_key |-> NULL]
    OBVIOUS
  <2>5. DOMAIN key = {"singleton_key"}
    BY <2>4
  <2>6. {"name", "best"} \subseteq DOMAIN plan /\ plan.name = req[r].form.name /\ plan.best = req[r].form.best
    BY <2>1, <2>3, <2>4, <2>5, WithSo
  <2>7. plans \in Seq(Range(plans) \cup {plan})
    BY DEF PricesInv
  <2> QED
    BY <1>1, <1>2, <2>2, <2>6, <2>7 DEF Added
<1> QED
  BY <1>1, <1>2, <1>3

LEMMA PlanWritten ==
    ASSUME LocalsReady, PlansShaped, NEW r \in Reqs, WritePlan(r)
    PROVE  /\ req[r].pc = "write_plan" /\ req'[r] = Idle
           /\ req[r].form \in PlanEdits /\ Rewritten(req[r].plan, req[r].form)
<1>1. req[r].pc = "write_plan" /\ req[r].form \in PlanEdits
  BY DEF WritePlan, At, LocalsReady, Ready, PlansReady
<1>2. req[r].plan \in DOMAIN plans
  BY <1>1 DEF PlansShaped, PlanLocal, PlanPcs
<1> QED
  BY <1>1, <1>2, Steps, RewrittenSo DEF WritePlan

LEMMA DefaultWritten ==
    ASSUME LocalsReady, PlansShaped, NEW r \in Reqs, WriteDefault(r)
    PROVE  req[r].pc = "write_default" /\ req'[r] = Idle /\ Rewritten(1, DefaultPlan)
<1>1. 1 \in DOMAIN plans
  BY DEF PlansShaped
<1> QED
  BY <1>1, Steps, RewrittenSo DEF WriteDefault, At

LEMMA PlanSteps ==
    ASSUME LocalsReady, PricesInv, PlansShaped, NEW r \in Reqs, OnPlans(r)
    PROVE  \/ PlanBegins(r)
           \/ req[r].pc = "idle" /\ UNCHANGED plans /\ req'[r].pc = "write_default"
           \/ PlanReads(r) \/ PlanClears(r)
           \/ req[r].pc = "insert_plan" /\ req'[r] = Idle /\ (UNCHANGED plans \/ Added(req[r].form))
           \/ /\ req[r].pc = "write_plan" /\ req'[r] = Idle
              /\ req[r].form \in PlanEdits /\ Rewritten(req[r].plan, req[r].form)
           \/ req[r].pc = "write_default" /\ req'[r] = Idle /\ Rewritten(1, DefaultPlan)
  BY PlanBegun, PlanRead, PlanCleared, PlanInserted, PlanWritten, DefaultWritten DEF OnPlans, PlansStep

(* The part of a request of the office is one, and nobody else moves.      *)
Only(r) == \A q \in Reqs \ {r} : req'[q] = req[q]
Part(r, pcs) == {req[r].pc, req'[r].pc} \subseteq {"idle"} \cup pcs /\ Only(r)

LEMMA PlansPart ==
    ASSUME LocalsReady, PricesInv, PlansShaped, NEW r \in Reqs, OnPlans(r)
    PROVE  Part(r, PlanPcs \cup {"write_default"})
<1>1. Only(r)
  <2>1. Silent(r)
    BY PlansArriveSo, PlansStepSo DEF OnPlans
  <2> QED
    BY <2>1 DEF Silent, Moves, Only, LocalsReady
<1>2. req[r].pc \in {"read_best", "clear_plan"} => req[r].next \in PlanPcs
  BY DEF PlansShaped, PlanLocal, PlanPcs
<1> QED
  BY <1>1, <1>2, PlanSteps, Idles DEF Part, PlanPcs, PlanBegins, PlanReads, PlanClears

LEMMA SettingsPart ==
    ASSUME LocalsReady, NEW r \in Reqs, OnSettings(r)
    PROVE  Part(r, SettingsPcs)
<1> USE DEF SettingsPcs
<1>1. Only(r)
  <2>1. Silent(r)
    BY SettingsArriveSo, SettingsStepSo DEF OnSettings
  <2> QED
    BY <2>1 DEF Silent, Moves, Only, LocalsReady
<1>2. CASE SettingsArrive(r)
  <2>1. BeginsAt(r, {"get_settings"})
    <3>1. ASSUME NEW then, NEW edit, BeginSettingsRequest(r, then, edit) PROVE BeginsAt(r, {"get_settings"})
      BY <3>1 DEF BeginSettingsRequest, BeginsAt
    <3> QED
      BY <1>2, <3>1 DEF SettingsArrive
  <2> QED
    BY <1>1, <2>1, Begun DEF Part
<1>3. ASSUME NEW doc, NEW legal, Continue(r, doc, legal),
             req[r].pc \in {"get_settings", "create_settings", "upgrade_settings"}
      PROVE  req'[r].pc \in {"idle"} \cup SettingsPcs
  <2>1. req[r].then \in {"answer", "write_general", "write_legal"}
    BY <1>3 DEF LocalsReady, Ready, SettingsReady
  <2>2. Done(r) \/ \E l : Keep(r, l) /\ l.pc = req[r].then /\ req[r].then # "answer"
    BY <1>3 DEF Continue
  <2> QED
    BY <2>1, <2>2, Steps, Idles
<1>4. CASE SettingsStep(r)
  <2>1. CASE GetSettings(r)
    <3>1. ASSUME NEW legal, Keep(r, With(req[r], [legal |-> legal, pc |-> "upgrade_settings"]))
          PROVE  req'[r].pc = "upgrade_settings"
      <4>1. PICK fields : fields = [legal |-> legal, pc |-> "upgrade_settings"]
        OBVIOUS
      <4>2. "pc" \in DOMAIN fields /\ fields.pc = "upgrade_settings"
        BY <4>1
      <4>3. req'[r] = With(req[r], fields)
        BY <3>1, <4>1, Steps
      <4> QED
        BY <4>2, <4>3, WithSo
    <3>2. req[r].pc = "get_settings"
      BY <2>1 DEF GetSettings, At
    <3>3. \/ Goto(r, "create_settings")
          \/ Continue(r, 1, settings[1].legal)
          \/ Keep(r, With(req[r], [legal |-> Upgraded(settings[1].legal), pc |-> "upgrade_settings"]))
      BY <2>1 DEF GetSettings
    <3> QED
      BY <1>1, <1>3, <3>1, <3>2, <3>3, Steps DEF Part
  <2>2. CASE CreateSettings(r) \/ UpgradeSettings(r)
    <3>1. req[r].pc \in {"create_settings", "upgrade_settings"} /\ \E doc, legal : Continue(r, doc, legal)
      BY <2>2 DEF CreateSettings, UpgradeSettings, At
    <3> QED
      BY <1>1, <1>3, <3>1 DEF Part
  <2>3. CASE WriteLegal(r) \/ WriteGeneral(r)
    <3>1. req[r].pc \in {"write_legal", "write_general"} /\ \E l : Keep(r, l) /\ l.pc = "get_settings"
      BY <2>3 DEF WriteLegal, WriteGeneral, At
    <3> QED
      BY <1>1, <3>1, Steps DEF Part
  <2> QED
    BY <1>4, <2>1, <2>2, <2>3 DEF SettingsStep
<1> QED
  BY <1>2, <1>4 DEF OnSettings

LEMMA TicketsPart ==
    ASSUME LocalsReady, NEW r \in Reqs, OnTickets(r)
    PROVE  Part(r, TicketPcs)
<1> USE DEF TicketPcs
<1>1. Only(r)
  <2>1. Silent(r)
    BY TicketsSo DEF OnTickets
  <2> QED
    BY <2>1 DEF Silent, Moves, Only, LocalsReady
<1>2. CASE TicketsArrive(r)
  <2>1. BeginTicket(r) => BeginsAt(r, {"insert_ticket"})
    BY DEF BeginTicket, BeginsAt
  <2>2. BeginManagementPage(r) => BeginsAt(r, {"gather"})
    BY DEF BeginManagementPage, BeginsAt
  <2>3. ASSUME NEW t, BeginReply(r, t) PROVE BeginsAt(r, {"add_message"})
    BY <2>3 DEF BeginReply, BeginsAt
  <2>4. ASSUME NEW t, BeginResolve(r, t) PROVE BeginsAt(r, {"resolve"})
    BY <2>4 DEF BeginResolve, BeginsAt
  <2>5. \E p \in {"insert_ticket", "gather", "add_message", "resolve"} : BeginsAt(r, {p})
    BY <1>2, <2>1, <2>2, <2>3, <2>4 DEF TicketsArrive
  <2> QED
    BY <1>1, <2>5, Begun DEF Part
<1>3. CASE Gather(r)
  <2>1. req[r].pc = "gather" /\ \E l : Keep(r, l) /\ l.pc \in {"gather", "show_page"}
    BY <1>3 DEF Gather, At
  <2> QED
    BY <1>1, <2>1, Steps DEF Part
<1>4. CASE InsertTicket(r) \/ AddMessage(r) \/ ResolveTicket(r) \/ ShowPage(r)
  <2>1. req[r].pc \in {"insert_ticket", "add_message", "resolve", "show_page"} /\ Done(r)
    BY <1>4 DEF InsertTicket, AddMessage, ResolveTicket, ShowPage, At
  <2> QED
    BY <1>1, <2>1, Steps, Idles DEF Part
<1> QED
  BY <1>2, <1>3, <1>4 DEF OnTickets, TicketsStep

(* A step of another part.                                                 *)
Off(pcs) ==
    \A q \in Reqs : \/ req'[q] = req[q]
                    \/ req'[q].pc \notin pcs /\ (req[q].pc \in pcs => req'[q] = Idle)
PlansLeft == UNCHANGED plans /\ Off(PlanPcs \cup {"write_default"}) /\ ordered'.best = ordered.best
SettingsLeft ==
    UNCHANGED settings /\ Off(SettingsPcs) /\ ordered'.general = ordered.general /\ ordered'.legal = ordered.legal
TicketsLeft == UNCHANGED tickets /\ Off(TicketPcs) /\ ordered'.replies = ordered.replies
TicketsTyped == tickets \in Seq(Range(tickets)) /\ ordered.replies \in Seq(Nat)

LEMMA OfficeMoves ==
    ASSUME LocalsReady, CouponsInv, PricesInv, PlansShaped, TicketsTyped, HNext
    PROVE  /\ PlansLeft \/ \E r \in Reqs : OnPlans(r)
           /\ SettingsLeft \/ \E r \in Reqs : OnSettings(r)
           /\ TicketsLeft \/ \E r \in Reqs : OnTickets(r)
<1> USE DEF PlanPcs, SettingsPcs, TicketPcs
<1>1. DeskNext /\ OrderedNext
  BY DEF HNext
<1>2. ASSUME UNCHANGED officeRows, \A q \in Reqs : Aside(q)
      PROVE  PlansLeft /\ SettingsLeft /\ TicketsLeft
  <2>1. SameWishes
    BY <1>1, <1>2, OrderedLeft DEF TicketsTyped
  <2>2. \A q \in Reqs : req'[q] = req[q] \/ (req'[q].pc \notin OfficePcs /\ (req[q].pc \in OfficePcs => req'[q] = Idle))
    BY <1>2 DEF Aside
  <2> QED
    BY <1>2, <2>1, <2>2 DEF PlansLeft, SettingsLeft, TicketsLeft, Off, OfficePcs, SameWishes, officeRows
<1>3. ASSUME NEW r \in Reqs, NEW pcs, NEW off, Part(r, pcs), pcs \cap off = {}, "idle" \notin off
      PROVE  Off(off)
  BY <1>3 DEF Part, Only, Off
<1>4. ASSUME NEW r \in Reqs, OnPlans(r)
      PROVE  SettingsLeft /\ TicketsLeft
  <2>1. Part(r, PlanPcs \cup {"write_default"})
    BY <1>4, PlansPart
  <2>2. Off(SettingsPcs) /\ Off(TicketPcs)
    BY <1>3, <2>1
  <2>3. ~At(r, "write_general") /\ ~At(r, "write_legal") /\ ~At(r, "add_message")
    BY <2>1 DEF Part, At
  <2>4. UNCHANGED <<settings, tickets>>
    BY <1>4 DEF OnPlans
  <2> QED
    BY <1>1, <2>1, <2>2, <2>3, <2>4, OrderedBy, NoReplies
       DEF Part, Only, SettingsLeft, TicketsLeft, SameWishes, TicketsTyped
<1>5. ASSUME NEW r \in Reqs, OnSettings(r)
      PROVE  PlansLeft /\ TicketsLeft
  <2>1. Part(r, SettingsPcs)
    BY <1>5, SettingsPart
  <2>2. Off(PlanPcs \cup {"write_default"}) /\ Off(TicketPcs)
    BY <1>3, <2>1
  <2>3. ~At(r, "add_message")
    BY <2>1 DEF Part, At
  <2>4. UNCHANGED <<plans, tickets>>
    BY <1>5 DEF OnSettings
  <2> QED
    BY <1>1, <2>1, <2>2, <2>3, <2>4, OrderedBy, NoReplies
       DEF Part, Only, PlansLeft, TicketsLeft, SameWishes, TicketsTyped
<1>6. ASSUME NEW r \in Reqs, OnTickets(r)
      PROVE  PlansLeft /\ SettingsLeft
  <2>1. Part(r, TicketPcs)
    BY <1>6, TicketsPart
  <2>2. Off(PlanPcs \cup {"write_default"}) /\ Off(SettingsPcs)
    BY <1>3, <2>1
  <2>3. ~At(r, "write_general") /\ ~At(r, "write_legal")
    BY <2>1 DEF Part, At
  <2>4. UNCHANGED <<plans, settings>>
    BY <1>6 DEF OnTickets
  <2> QED
    BY <1>1, <2>1, <2>2, <2>3, <2>4, OrderedBy DEF Part, Only, PlansLeft, SettingsLeft, SameWishes
<1> QED
  BY <1>1, <1>2, <1>4, <1>5, <1>6, OfficeOrNot

(* Plans are never lost, and what a request carries stays good.            *)
LEMMA ShapedKept ==
    ASSUME LocalsReady, CouponsInv, PricesInv, PlansShaped, TicketsTyped, HNext
    PROVE  PlansShaped' /\ DOMAIN plans \subseteq DOMAIN plans'
<1> DEFINE Fine(ps) == \A i \in DOMAIN ps : {"name", "best"} \subseteq DOMAIN ps[i] /\ ps[i].best \in BOOLEAN
<1>1. Fine(plans) /\ 1 \in DOMAIN plans /\ \A r \in Reqs : PlanLocal(req[r])
  BY DEF PlansShaped
<1>2. ASSUME PlansLeft PROVE PlansShaped' /\ DOMAIN plans \subseteq DOMAIN plans'
  <2>1. Fine(plans') /\ 1 \in DOMAIN plans' /\ DOMAIN plans \subseteq DOMAIN plans'
    BY <1>1, <1>2 DEF PlansLeft
  <2>2. ASSUME NEW q \in Reqs PROVE PlanLocal(req[q])'
    <3>1. CASE req'[q] = req[q]
      BY <1>1, <2>1, <3>1 DEF PlanLocal
    <3>2. CASE req'[q] # req[q]
      BY <1>2, <3>2 DEF PlansLeft, Off, PlanLocal
    <3> QED
      BY <3>1, <3>2
  <2> QED
    BY <2>1, <2>2 DEF PlansShaped
<1>3. ASSUME NEW r \in Reqs, OnPlans(r) PROVE PlansShaped' /\ DOMAIN plans \subseteq DOMAIN plans'
  <2>1. Only(r)
    BY <1>3, PlansPart DEF Part
  <2>2. ASSUME NEW i, NEW form, Rewritten(i, form), "best" \in DOMAIN form => form.best \in BOOLEAN
        PROVE  Fine(plans') /\ DOMAIN plans' = DOMAIN plans
    BY <1>1, <2>2 DEF Rewritten, Same
  <2>3. ASSUME Added(req[r].form), req[r].form \in PlanForms
        PROVE  Fine(plans') /\ DOMAIN plans \subseteq DOMAIN plans'
    <3>1. req[r].form.best \in BOOLEAN
      BY <2>3, FormsAssumption
    <3>2. ASSUME NEW i \in DOMAIN plans' PROVE i \in DOMAIN plans \/ i = Len(plans) + 1
      BY <2>3, <3>2 DEF Added, PricesInv
    <3>3. DOMAIN plans \subseteq DOMAIN plans'
      BY <2>3 DEF Added, PricesInv
    <3> QED
      BY <1>1, <2>3, <3>1, <3>2, <3>3 DEF Added
  <2>4. UNCHANGED plans => Fine(plans') /\ DOMAIN plans \subseteq DOMAIN plans'
    BY <1>1
  <2>5. Fine(plans') /\ DOMAIN plans \subseteq DOMAIN plans'
    <3>1. PlanBegins(r) \/ PlanReads(r) => UNCHANGED plans
      BY DEF PlanBegins, PlanReads
    <3>2. PlanClears(r) => Fine(plans') /\ DOMAIN plans \subseteq DOMAIN plans'
      <4>1. PICK form : form = [best |-> FALSE]
        OBVIOUS
      <4>2. form.best \in BOOLEAN
        BY <4>1
      <4> QED
        BY <2>2, <4>1, <4>2 DEF PlanClears
    <3>3. req[r].form \in PlanEdits => ("best" \in DOMAIN req[r].form => req[r].form.best \in BOOLEAN)
      BY FormsAssumption
    <3>4. DefaultPlan.best \in BOOLEAN
      BY FormsAssumption
    <3>5. req[r].pc = "insert_plan" => req[r].form \in PlanForms
      BY DEF LocalsReady, Ready, PlansReady
    <3> QED
      BY <1>3, <2>2, <2>3, <2>4, <3>1, <3>2, <3>3, <3>4, <3>5, PlanSteps
  <2>6. PlanLocal(req[r])'
    <3>1. PlanBegins(r) => PlanLocal(req[r])'
      BY DEF PlanBegins, PlanLocal
    <3>2. PlanReads(r) => PlanLocal(req[r])'
      BY <1>1, <2>5 DEF PlanReads, Carries, PlanLocal, PlanPcs, Flagged
    <3>3. PlanClears(r) => PlanLocal(req[r])'
      BY <1>1, <2>5 DEF PlanClears, Carries, PlanLocal, PlanPcs
    <3>4. req'[r] = Idle \/ req'[r].pc = "write_default" => PlanLocal(req[r])'
      BY Idles DEF PlanLocal, PlanPcs
    <3> QED
      BY <1>3, <3>1, <3>2, <3>3, <3>4, PlanSteps
  <2>7. ASSUME NEW q \in Reqs \ {r} PROVE PlanLocal(req[q])'
    BY <1>1, <2>1, <2>5 DEF Only, PlanLocal
  <2>8. 1 \in DOMAIN plans'
    BY <1>1, <2>5
  <2> QED
    BY <2>5, <2>6, <2>7, <2>8 DEF PlansShaped
<1> QED
  BY <1>2, <1>3, OfficeMoves

(* One request changes plans at a time, and knows: that the best plan is   *)
(* as asked when it begins; which plans have the flag while it takes it    *)
(* away; and that at its write nobody has it, itself and the default plan  *)
(* excepted.                                                               *)
DefaultToo == {i \in {1} : DefaultPlan.best}
BestOK == Flagged = ordered.best \/ Flagged = ordered.best \cup DefaultToo
Knows(l) ==
    /\ l.pc = "read_best" => BestOK
    /\ l.pc = "clear_plan" => Flagged \subseteq l.todo \cup {l.plan} \cup DefaultToo
    /\ l.pc \in {"insert_plan", "write_plan"} =>
          IF Asks(l.form) THEN Flagged \subseteq {l.plan} \cup DefaultToo ELSE BestOK

AloneInv ==
    PlanWork \notin mixed => \A p, q \in Reqs : req[p].pc \in PlanPcs /\ req[q].pc \in PlanPcs => p = q
BestInv ==
    PlanWork \notin mixed \cup stopped =>
       /\ (\A r \in Reqs : req[r].pc \notin PlanPcs) => BestOK
       /\ \A r \in Reqs : Knows(req[r])

LEMMA PlanWorks ==
    ASSUME NEW r \in Reqs
    PROVE  /\ LocalsReady /\ PlansShaped /\ req[r].pc \in PlanPcs => Working(r) = PlanWork
           /\ LocalsReady' /\ PlansShaped' /\ req'[r].pc \in PlanPcs => Working(r)' = PlanWork
<1>1. ASSUME LocalsReady, PlansShaped, req[r].pc \in PlanPcs PROVE Working(r) = PlanWork
  <2>1. "id" \notin DOMAIN req[r]
    BY <1>1 DEF PlansShaped, PlanLocal
  <2>2. "newest" \notin DOMAIN req[r]
    BY <1>1 DEF LocalsReady, Ready, GenerationReady, PlanPcs, Generating, Slept, InsightNexts
  <2> QED
    BY <1>1, <2>1, <2>2 DEF Working, PlanWork, PlanPcs
<1>2. ASSUME LocalsReady', PlansShaped', req'[r].pc \in PlanPcs PROVE Working(r)' = PlanWork
  <2>1. "id" \notin DOMAIN req'[r]
    BY <1>2 DEF PlansShaped, PlanLocal
  <2>2. "newest" \notin DOMAIN req'[r]
    BY <1>2 DEF LocalsReady, Ready, GenerationReady, PlanPcs, Generating, Slept, InsightNexts
  <2> QED
    BY <1>2, <2>1, <2>2 DEF Working, PlanWork, PlanPcs
<1> QED
  BY <1>1, <1>2

LEMMA AloneKept ==
    ASSUME LocalsReady', PlansShaped', HNext
    PROVE  AloneInv'
<1>1. PlanWork # NULL
  BY NothingAssumption, SMT DEF PlanWork
<1>2. ASSUME NEW p \in Reqs, NEW q \in Reqs, req'[p].pc \in PlanPcs, req'[q].pc \in PlanPcs, p # q
      PROVE  PlanWork \in mixed'
  <2>1. Working(p)' = PlanWork /\ Working(q)' = PlanWork
    BY <1>2, PlanWorks
  <2>2. PlanWork \in SharedWork'
    BY <1>1, <1>2, <2>1, WorkShared
  <2> QED
    BY <2>2 DEF HNext
<1> QED
  BY <1>2 DEF AloneInv

(* A request that gives up a change of plans is in the history.            *)
LEMMA PlanGivenUp ==
    ASSUME LocalsReady, PlansShaped, HNext, NEW r \in Reqs, req'[r] = Idle,
           \/ req[r].pc = "clear_plan"
           \/ req[r].pc \in {"insert_plan", "write_plan"} /\ UNCHANGED plans
    PROVE  PlanWork \in stopped'
<1>1. PlanWork # NULL
  BY NothingAssumption, SMT DEF PlanWork
<1>2. GivesUp(r)
  BY DEF GivesUp, HalfDone, At
<1>3. Working(r) = PlanWork
  BY PlanWorks DEF PlanPcs
<1> QED
  BY <1>1, <1>2, <1>3 DEF HNext

LEMMA FlaggedAfter ==
    ASSUME PlansShaped
    PROVE  /\ \A i, form : Rewritten(i, form) =>
                 Flagged' = IF "best" \notin DOMAIN form THEN Flagged
                            ELSE IF form.best THEN Flagged \cup {i} ELSE Flagged \ {i}
           /\ \A form : Added(form) =>
                 Flagged' = IF form.best THEN Flagged \cup {Len(plans) + 1} ELSE Flagged
<1>1. ASSUME NEW i, NEW form, Rewritten(i, form)
      PROVE  Flagged' = IF "best" \notin DOMAIN form THEN Flagged
                        ELSE IF form.best THEN Flagged \cup {i} ELSE Flagged \ {i}
  BY <1>1 DEF Rewritten, Same, Flagged
<1>2. ASSUME NEW form, Added(form)
      PROVE  Flagged' = IF form.best THEN Flagged \cup {Len(plans) + 1} ELSE Flagged
  BY <1>2 DEF Added, Flagged
<1> QED
  BY <1>1, <1>2

(* A step on plans, in the terms of who has the flag and who should.       *)
LEMMA BestMoves ==
    ASSUME PlansShaped, PricesInv, LocalsReady, HNext, NEW r \in Reqs, OnPlans(r)
    PROVE  /\ plans' = plans => ordered'.best = ordered.best
           /\ plans' # plans /\ req'[r] # req[r] => ordered'.best = BestAfter(r)
<1>1. \A q \in Reqs \ {r} : req'[q] = req[q]
  BY PlansPart DEF Part, Only
<1>2. OrderedNext
  BY DEF HNext
<1>3. officeVars' = officeVars => plans' = plans
  BY DEF officeVars
<1> QED
  BY <1>1, <1>2, <1>3, OrderedBy DEF SameWishes

LEMMA BestKept ==
    ASSUME LocalsReady, CouponsInv, PricesInv, PlansShaped, TicketsTyped, AloneInv, BestInv, HNext,
           LocalsReady', PlansShaped', AloneInv'
    PROVE  BestInv'
<1>1. SUFFICES ASSUME PlanWork \notin mixed' \cup stopped'
               PROVE  /\ (\A r \in Reqs : req'[r].pc \notin PlanPcs) => BestOK'
                      /\ \A r \in Reqs : Knows(req[r])'
  BY DEF BestInv
<1>2. PlanWork \notin mixed \cup stopped
  BY <1>1 DEF HNext
<1>3. /\ (\A r \in Reqs : req[r].pc \notin PlanPcs) => BestOK
      /\ \A r \in Reqs : Knows(req[r])
  BY <1>2 DEF BestInv
<1>4. \A p, q \in Reqs : req[p].pc \in PlanPcs /\ req[q].pc \in PlanPcs => p = q
  BY <1>2 DEF AloneInv
<1>5. \A p, q \in Reqs : req'[p].pc \in PlanPcs /\ req'[q].pc \in PlanPcs => p = q
  BY <1>1 DEF AloneInv
<1> DEFINE Good ==
      /\ (\A r \in Reqs : req'[r].pc \notin PlanPcs) => BestOK'
      /\ \A r \in Reqs : Knows(req[r])'
<1>6. ASSUME PlansLeft PROVE Good
  <2>1. Flagged' = Flagged /\ ordered'.best = ordered.best
    BY <1>6 DEF PlansLeft, Flagged
  <2>2. (BestOK => BestOK')
    BY <2>1 DEF BestOK, DefaultToo
  <2>3. ASSUME NEW q \in Reqs PROVE Knows(req[q])'
    <3>1. CASE req'[q] = req[q]
      BY <1>3, <2>1, <2>2, <3>1 DEF Knows, DefaultToo, Asks
    <3>2. CASE req'[q] # req[q]
      BY <1>6, <3>2 DEF PlansLeft, Off, Knows, PlanPcs
    <3> QED
      BY <3>1, <3>2
  <2>4. ASSUME NEW q \in Reqs, req[q].pc \in PlanPcs, req'[q].pc \notin PlanPcs PROVE BestOK
    <3>1. req'[q] = Idle /\ UNCHANGED plans
      BY <1>6, <2>4 DEF PlansLeft, Off
    <3>2. req[q].pc = "read_best"
      BY <1>1, <2>4, <3>1, PlanGivenUp DEF PlanPcs
    <3> QED
      BY <1>3, <3>2 DEF Knows
  <2> QED
    BY <1>3, <2>2, <2>3, <2>4
<1>7. ASSUME NEW r \in Reqs, OnPlans(r) PROVE Good
  <2>1. Only(r)
    BY <1>7, PlansPart DEF Part
  <2>2. /\ plans' = plans => ordered'.best = ordered.best
        /\ plans' # plans /\ req'[r] # req[r] => ordered'.best = BestAfter(r)
    BY <1>7, BestMoves
  <2>3. plans' = plans => Flagged' = Flagged /\ (BestOK => BestOK')
    BY <2>2 DEF Flagged, BestOK, DefaultToo
  <2>4. req[r].pc \in PlanPcs \/ req'[r].pc \in PlanPcs => \A q \in Reqs \ {r} : req'[q].pc \notin PlanPcs
    BY <1>4, <1>5, <2>1 DEF Only
  <2>5. ASSUME NEW q \in Reqs, req'[q].pc \notin PlanPcs PROVE Knows(req[q])'
    BY <2>5 DEF Knows, PlanPcs
  <2>6. Flagged \subseteq DOMAIN plans /\ DefaultToo \subseteq {1} /\ DefaultPlan.best \in BOOLEAN
        /\ (DefaultPlan.best => DefaultToo = {1}) /\ (~DefaultPlan.best => DefaultToo = {})
    BY FormsAssumption DEF Flagged, DefaultToo
  <2>7. CASE PlanBegins(r)
    <3>1. BestOK' /\ req'[r].pc \in {"read_best", "insert_plan", "write_plan"}
      BY <1>3, <2>1, <2>3, <2>4, <2>7 DEF PlanBegins, Only, PlanPcs
    <3>2. Knows(req[r])'
      BY <2>7, <3>1 DEF PlanBegins, Knows
    <3> QED
      BY <2>4, <2>5, <3>1, <3>2 DEF PlanPcs
  <2>8. CASE req[r].pc = "idle" /\ UNCHANGED plans /\ req'[r].pc = "write_default"
    <3>1. ASSUME NEW q \in Reqs PROVE Knows(req[q])'
      BY <1>3, <2>1, <2>2, <2>3, <2>5, <2>8 DEF Only, Knows, DefaultToo, Asks, PlanPcs
    <3>2. (\A q \in Reqs : req'[q].pc \notin PlanPcs) => BestOK'
      BY <1>3, <2>1, <2>3, <2>8 DEF Only, PlanPcs
    <3> QED
      BY <3>1, <3>2
  <2>9. CASE PlanReads(r)
    <3>1. req[r].pc = "read_best" /\ Asks(req[r].form) /\ req[r].next \in {"insert_plan", "write_plan"}
      BY <2>9 DEF PlanReads, PlansShaped, PlanLocal, PlanPcs
    <3>2. Flagged' = Flagged
      BY <2>3, <2>9 DEF PlanReads
    <3>3. Knows(req[r])' /\ req'[r].pc \in PlanPcs
      BY <2>9, <3>1, <3>2 DEF PlanReads, Carries, Knows, PlanPcs
    <3> QED
      BY <2>4, <2>5, <3>3
  <2>10. CASE PlanClears(r)
    <3>1. req[r].pc = "clear_plan" /\ Asks(req[r].form) /\ req[r].next \in {"insert_plan", "write_plan"}
      BY <2>10 DEF PlanClears, PlansShaped, PlanLocal, PlanPcs
    <3>2. PICK h : Rewritten(h, [best |-> FALSE]) /\ h \in req[r].todo /\ req'[r].todo = req[r].todo \ {h}
      BY <2>10 DEF PlanClears
    <3>3. PICK form : form = [best |-> FALSE]
      OBVIOUS
    <3>4. "best" \in DOMAIN form /\ form.best = FALSE
      BY <3>3
    <3>5. Flagged' = Flagged \ {h}
      BY <3>2, <3>3, <3>4, FlaggedAfter
    <3>6. Flagged \subseteq req[r].todo \cup {req[r].plan} \cup DefaultToo
      BY <1>3, <3>1 DEF Knows
    <3>7. Knows(req[r])' /\ req'[r].pc \in PlanPcs
      BY <2>10, <3>1, <3>2, <3>5, <3>6 DEF PlanClears, Carries, Knows, PlanPcs, DefaultToo
    <3> QED
      BY <2>4, <2>5, <3>7
  <2>11. CASE req[r].pc = "insert_plan" /\ req'[r] = Idle /\ (UNCHANGED plans \/ Added(req[r].form))
    <3>1. Added(req[r].form) /\ req[r].form \in PlanForms
      BY <1>1, <2>11, PlanGivenUp DEF LocalsReady, Ready, PlansReady
    <3>2. plans' # plans /\ req'[r] # req[r] /\ Len(plans') = Len(plans) + 1
      BY <2>11, <3>1, Idles DEF Added, PricesInv
    <3>3. req[r].form.best \in BOOLEAN /\ (Asks(req[r].form) <=> req[r].form.best)
      BY <3>1, FormsAssumption DEF Asks
    <3>4. ordered'.best = IF req[r].form.best THEN {Len(plans) + 1} ELSE ordered.best
      BY <2>2, <2>11, <3>2, <3>3 DEF BestAfter, At
    <3>5. Flagged' = IF req[r].form.best THEN Flagged \cup {Len(plans) + 1} ELSE Flagged
      BY <3>1, FlaggedAfter
    <3>6. req[r].plan = 0 /\ 0 \notin DOMAIN plans
      BY <2>11, <3>1 DEF PlansShaped, PlanLocal, PlanPcs, Added, PricesInv
    <3>7. IF Asks(req[r].form) THEN Flagged \subseteq DefaultToo ELSE BestOK
      BY <1>3, <2>6, <2>11, <3>6 DEF Knows
    <3>8. BestOK'
      BY <2>6, <3>3, <3>4, <3>5, <3>7 DEF BestOK, DefaultToo
    <3> QED
      BY <2>4, <2>5, <2>11, <3>8, Idles DEF PlanPcs
  <2>12. CASE /\ req[r].pc = "write_plan" /\ req'[r] = Idle
              /\ req[r].form \in PlanEdits /\ Rewritten(req[r].plan, req[r].form)
    <3>1. plans' # plans /\ req'[r] # req[r]
      BY <1>1, <2>12, PlanGivenUp, Idles
    <3>2. PICK form, i : form = req[r].form /\ i = req[r].plan
      OBVIOUS
    <3>3. "best" \in DOMAIN form => form.best \in BOOLEAN
      BY <2>12, <3>2, FormsAssumption
    <3>4. ordered'.best = IF "best" \in DOMAIN form
                          THEN IF form.best THEN {i} ELSE ordered.best \ {i}
                          ELSE ordered.best
      BY <2>2, <2>12, <3>1, <3>2 DEF BestAfter, At
    <3>5. Flagged' = IF "best" \notin DOMAIN form THEN Flagged
                     ELSE IF form.best THEN Flagged \cup {i} ELSE Flagged \ {i}
      BY <2>12, <3>2, FlaggedAfter
    <3>6. IF Asks(form) THEN Flagged \subseteq {i} \cup DefaultToo ELSE BestOK
      BY <1>3, <2>12, <3>2 DEF Knows
    <3>7. BestOK'
      BY <2>6, <3>3, <3>4, <3>5, <3>6 DEF BestOK, DefaultToo, Asks
    <3> QED
      BY <2>4, <2>5, <2>12, <3>7, Idles DEF PlanPcs
  <2>13. CASE req[r].pc = "write_default" /\ req'[r] = Idle /\ Rewritten(1, DefaultPlan)
    <3>1. "best" \in DOMAIN DefaultPlan
      BY FormsAssumption
    <3>2. Flagged' = IF DefaultPlan.best THEN Flagged \cup {1} ELSE Flagged \ {1}
      BY <2>13, <3>1, FlaggedAfter
    <3>3. req'[r] # req[r]
      BY <2>13, Idles
    <3>4. plans' # plans => ordered'.best = (ordered.best \ {1}) \cup DefaultToo
      BY <2>2, <2>13, <3>3 DEF BestAfter, At, DefaultToo
    <3>5. BestOK => BestOK'
      BY <2>3, <2>6, <3>2, <3>4 DEF BestOK, DefaultToo
    <3>6. Flagged' \subseteq Flagged \cup DefaultToo
      BY <2>6, <3>2
    <3>7. ASSUME NEW q \in Reqs \ {r} PROVE Knows(req[q])'
      <4>1. req'[q] = req[q] /\ DefaultToo' = DefaultToo
        BY <2>1 DEF Only, DefaultToo
      <4> QED
        BY <1>3, <3>5, <3>6, <4>1 DEF Knows, Asks
    <3>8. (\A q \in Reqs : req'[q].pc \notin PlanPcs) => BestOK'
      BY <1>3, <2>1, <2>13, <3>5 DEF Only, PlanPcs
    <3> QED
      BY <2>5, <2>13, <3>7, <3>8, Idles DEF PlanPcs
  <2> QED
    BY <1>7, <2>7, <2>8, <2>9, <2>10, <2>11, <2>12, <2>13, PlanSteps
<1> QED
  BY <1>6, <1>7, OfficeMoves

(* Names.  The one request that changes plans has found its name free,     *)
(* and nobody but a start takes it meanwhile, for the default plan.        *)
Taken(i, name) == LowerCase[plans[i].name] = LowerCase[name]
Excused(i) == i = 1 /\ plans[1].name = DefaultPlan.name
Free(l) ==
    (l.pc \in PlanPcs /\ "name" \in DOMAIN l.form) =>
       \A i \in DOMAIN plans \ {l.plan} : Taken(i, l.form.name) => Excused(i)
Differ == \A i, j \in DOMAIN plans : Taken(i, plans[j].name) => (i = j \/ Excused(i) \/ Excused(j))
NamesInv == PlanWork \notin mixed => Differ /\ \A r \in Reqs : Free(req[r])

LEMMA NamesDiffer == NamesInv => PlanNamesDiffer
  BY DEF NamesInv, PlanNamesDiffer, Differ, Taken, Excused, PlanWork

SameNames == DOMAIN plans' = DOMAIN plans /\ \A i \in DOMAIN plans : plans'[i].name = plans[i].name

LEMMA NamesStay ==
    ASSUME SameNames, 1 \in DOMAIN plans, Differ
    PROVE  Differ'
  BY DEF SameNames, Differ, Taken, Excused

LEMMA FreeStays ==
    ASSUME SameNames, 1 \in DOMAIN plans, NEW r, Free(req[r]),
           \/ req'[r] = req[r] \/ req'[r].pc \notin PlanPcs
           \/ req[r].pc \in PlanPcs /\ req'[r].form = req[r].form /\ req'[r].plan = req[r].plan
    PROVE  Free(req[r])'
  BY DEF SameNames, Free, Taken, Excused

LEMMA NamesKept ==
    ASSUME LocalsReady, CouponsInv, PricesInv, PlansShaped, TicketsTyped, AloneInv, NamesInv, HNext, AloneInv'
    PROVE  NamesInv'
<1>1. SUFFICES ASSUME PlanWork \notin mixed'
               PROVE  Differ' /\ \A r \in Reqs : Free(req[r])'
  BY DEF NamesInv
<1>2. PlanWork \notin mixed
  BY <1>1 DEF HNext
<1>3. Differ /\ \A r \in Reqs : Free(req[r])
  BY <1>2 DEF NamesInv
<1>4. \A p, q \in Reqs : req[p].pc \in PlanPcs /\ req[q].pc \in PlanPcs => p = q
  BY <1>2 DEF AloneInv
<1>5. \A p, q \in Reqs : req'[p].pc \in PlanPcs /\ req'[q].pc \in PlanPcs => p = q
  BY <1>1 DEF AloneInv
<1>6. 1 \in DOMAIN plans
  BY DEF PlansShaped
<1>7. UNCHANGED plans => SameNames
  BY DEF SameNames
<1>8. SameNames => Differ'
  BY <1>3, <1>6, NamesStay
<1> DEFINE Fine == Differ' /\ \A r \in Reqs : Free(req[r])'
<1>9. ASSUME PlansLeft PROVE Fine
  <2>1. SameNames
    BY <1>7, <1>9 DEF PlansLeft
  <2>2. ASSUME NEW q \in Reqs PROVE Free(req[q])'
    <3>1. req'[q] = req[q] \/ req'[q].pc \notin PlanPcs
      BY <1>9 DEF PlansLeft, Off
    <3> QED
      BY <1>3, <1>6, <2>1, <3>1, FreeStays
  <2> QED
    BY <1>8, <2>1, <2>2
<1>10. ASSUME NEW r \in Reqs, OnPlans(r) PROVE Fine
  <2>1. Only(r)
    BY <1>10, PlansPart DEF Part
  <2>2. \A q \in Reqs : req'[q].pc \notin PlanPcs => Free(req[q])'
    BY DEF Free
  <2>3. req[r].pc \in PlanPcs \/ req'[r].pc \in PlanPcs => \A q \in Reqs \ {r} : req'[q].pc \notin PlanPcs
    BY <1>4, <1>5, <2>1 DEF Only
  <2>4. ASSUME SameNames, NEW q \in Reqs \ {r} PROVE Free(req[q])'
    BY <1>3, <1>6, <2>1, <2>4, FreeStays DEF Only
  <2>5. CASE PlanBegins(r)
    <3>1. SameNames
      BY <1>7, <2>5 DEF PlanBegins
    <3>2. "name" \in DOMAIN req'[r].form => NameFree(req'[r].form.name, {req'[r].plan})
      BY <2>5 DEF PlanBegins
    <3>3. plans' = plans
      BY <2>5 DEF PlanBegins
    <3>4. Free(req[r])'
      BY <3>2, <3>3 DEF Free, NameFree, Taken
    <3> QED
      BY <1>8, <2>4, <3>1, <3>4
  <2>6. CASE UNCHANGED plans /\ req'[r].pc \notin PlanPcs
    BY <1>7, <1>8, <2>2, <2>4, <2>6
  <2>7. CASE PlanReads(r)
    <3>1. SameNames /\ req[r].pc \in PlanPcs
      BY <1>7, <2>7 DEF PlanReads, PlanPcs
    <3>2. Free(req[r])'
      BY <1>3, <1>6, <2>7, <3>1, FreeStays DEF PlanReads, Carries
    <3> QED
      BY <1>8, <2>4, <3>1, <3>2
  <2>8. CASE PlanClears(r)
    <3>1. PICK form, h : form = [best |-> FALSE] /\ Rewritten(h, form)
      BY <2>8 DEF PlanClears
    <3>2. "name" \notin DOMAIN form
      BY <3>1
    <3>3. SameNames /\ req[r].pc \in PlanPcs
      BY <2>8, <3>1, <3>2 DEF PlanClears, PlanPcs, Rewritten, Same, SameNames
    <3>4. Free(req[r])'
      BY <1>3, <1>6, <2>8, <3>3, FreeStays DEF PlanClears, Carries
    <3> QED
      BY <1>8, <2>4, <3>3, <3>4
  <2>9. CASE req[r].pc = "insert_plan" /\ req'[r] = Idle /\ Added(req[r].form)
    <3>1. req[r].form \in PlanForms /\ req[r].plan = 0 /\ "name" \in DOMAIN req[r].form
      BY <2>9, FormsAssumption DEF PlansShaped, PlanLocal, PlanPcs, LocalsReady, Ready, PlansReady
    <3>2. PICK form : form = req[r].form
      OBVIOUS
    <3>3. PICK n : n = Len(plans) + 1
      OBVIOUS
    <3>4. \A i \in DOMAIN plans : Taken(i, form.name) => Excused(i)
      <4>1. 0 \notin DOMAIN plans
        BY <2>9 DEF Added, PricesInv
      <4> QED
        BY <1>3, <2>9, <3>1, <3>2, <4>1 DEF Free, PlanPcs
    <3>5. /\ DOMAIN plans' = DOMAIN plans \cup {n} /\ plans'[n].name = form.name /\ n # 1 /\ n \notin DOMAIN plans
          /\ \A j \in DOMAIN plans : plans'[j] = plans[j]
      BY <1>6, <2>9, <3>2, <3>3 DEF Added, PricesInv
    <3>6. ASSUME NEW i \in DOMAIN plans', NEW j \in DOMAIN plans', Taken(i, plans[j].name)'
          PROVE  i = j \/ Excused(i)' \/ Excused(j)'
      <4>1. CASE i \in DOMAIN plans /\ j \in DOMAIN plans
        BY <1>3, <1>6, <3>5, <3>6, <4>1 DEF Differ, Taken, Excused
      <4>2. CASE i \in DOMAIN plans /\ j = n
        BY <1>6, <3>4, <3>5, <3>6, <4>2 DEF Taken, Excused
      <4>3. CASE i = n /\ j \in DOMAIN plans
        BY <1>6, <3>4, <3>5, <3>6, <4>3 DEF Taken, Excused
      <4> QED
        BY <3>5, <4>1, <4>2, <4>3
    <3>7. Differ'
      BY <3>6 DEF Differ
    <3> QED
      BY <2>2, <2>3, <2>9, <3>7, Idles DEF PlanPcs
  <2>10. CASE /\ req[r].pc = "write_plan" /\ req'[r] = Idle
              /\ req[r].form \in PlanEdits /\ Rewritten(req[r].plan, req[r].form)
    <3>1. PICK form, p : form = req[r].form /\ p = req[r].plan
      OBVIOUS
    <3>2. CASE "name" \notin DOMAIN form
      <4>1. SameNames
        BY <2>10, <3>1, <3>2 DEF Rewritten, Same, SameNames
      <4> QED
        BY <1>8, <2>2, <2>4, <2>10, <4>1, Idles DEF PlanPcs
    <3>3. CASE "name" \in DOMAIN form
      <4>1. \A i \in DOMAIN plans \ {p} : Taken(i, form.name) => Excused(i)
        BY <1>3, <2>10, <3>1, <3>3 DEF Free, PlanPcs
      <4>2. /\ DOMAIN plans' = DOMAIN plans /\ p \in DOMAIN plans /\ plans'[p].name = form.name
            /\ \A j \in DOMAIN plans \ {p} : plans'[j] = plans[j]
        BY <2>10, <3>1, <3>3 DEF Rewritten
      <4>3. ASSUME NEW i \in DOMAIN plans', NEW j \in DOMAIN plans', Taken(i, plans[j].name)'
            PROVE  i = j \/ Excused(i)' \/ Excused(j)'
        <5>1. CASE i # p /\ j # p
          BY <1>3, <1>6, <4>2, <4>3, <5>1 DEF Differ, Taken, Excused
        <5>2. CASE i # p /\ j = p
          BY <1>6, <4>1, <4>2, <4>3, <5>2 DEF Taken, Excused
        <5>3. CASE i = p /\ j # p
          BY <1>6, <4>1, <4>2, <4>3, <5>3 DEF Taken, Excused
        <5> QED
          BY <5>1, <5>2, <5>3
      <4>4. Differ'
        BY <4>3 DEF Differ
      <4> QED
        BY <2>2, <2>3, <2>10, <4>4, Idles DEF PlanPcs
    <3> QED
      BY <3>2, <3>3
  <2>11. CASE req[r].pc = "write_default" /\ req'[r] = Idle /\ Rewritten(1, DefaultPlan)
    <3>1. "name" \in DOMAIN DefaultPlan
      BY FormsAssumption
    <3>2. /\ DOMAIN plans' = DOMAIN plans /\ plans'[1].name = DefaultPlan.name
          /\ \A j \in DOMAIN plans \ {1} : plans'[j] = plans[j]
      BY <2>11, <3>1 DEF Rewritten
    <3>3. Excused(1)'
      BY <3>2 DEF Excused
    <3>4. Differ'
      BY <1>3, <3>2, <3>3 DEF Differ, Taken, Excused
    <3>5. ASSUME NEW q \in Reqs \ {r} PROVE Free(req[q])'
      BY <1>3, <2>1, <3>2, <3>3 DEF Only, Free, Taken, Excused
    <3> QED
      BY <2>2, <2>11, <3>4, <3>5, Idles DEF PlanPcs
  <2>12. UNCHANGED plans /\ (req'[r] = Idle \/ req'[r].pc = "write_default") => Fine
    BY <2>6, Idles DEF PlanPcs
  <2> QED
    BY <1>10, <2>5, <2>7, <2>8, <2>9, <2>10, <2>11, <2>12, PlanSteps
<1> QED
  BY <1>9, <1>10, OfficeMoves

(* A plan that is the only one on offer under its name gives the price.    *)
LEMMA OnlyOneNamed ==
    ASSUME NEW name, {i \in Active : plans[i].name = name} = {1}
    PROVE  name \in DOMAIN PlanMap /\ PlanMap[name] = plans[1].price
<1>1. LastNamed(name) = 1
  <2>1. PICK named : named = {i \in Active : plans[i].name = name}
    OBVIOUS
  <2>2. PICK last : last = IF named \subseteq Flagged THEN named ELSE named \ Flagged
    OBVIOUS
  <2>3. last = {1}
    BY <2>1, <2>2
  <2>4. (CHOOSE i \in last : \A j \in last : j <= i) = 1
    BY <2>3
  <2> QED
    BY <2>1, <2>2, <2>4 DEF LastNamed
<1>2. 1 \in Active /\ plans[1].name = name
  OBVIOUS
<1> QED
  BY <1>1, <1>2 DEF PlanMap

LEMMA Counted == SubscriberCounted
<1>1. ASSUME {i \in Active : plans[i].name = SubscribedTo} = {1}, NEW unknown
      PROVE  PriceOf(SubscribedTo, unknown) = plans[1].price
  BY <1>1, OnlyOneNamed DEF PriceOf
<1>2. ASSUME Active = {1}, NEW unknown
      PROVE  PriceOf(SubscribedTo, unknown) = plans[1].price
  <2>1. {i \in Active : plans[i].name = plans[1].name} = {1}
    BY <1>2
  <2>2. PlanMap[plans[1].name] = plans[1].price
    BY <2>1, OnlyOneNamed
  <2>3. DOMAIN PlanMap = {plans[1].name}
    BY <1>2 DEF PlanMap
  <2>4. Cardinality(DOMAIN PlanMap) = 1
    BY <2>3, FS_Singleton
  <2>5. (CHOOSE n \in DOMAIN PlanMap : TRUE) = plans[1].name
    BY <2>3
  <2> QED
    BY <2>2, <2>3, <2>4, <2>5 DEF PriceOf
<1> QED
  BY <1>1, <1>2 DEF SubscriberCounted, OverviewRevenue, DashboardRevenue

LEMMA BestAsAsked == BestInv /\ PlansShaped /\ LocalsReady => BestPlanAsAsked
<1>1. SUFFICES ASSUME BestInv, PlansShaped, LocalsReady, Quiet(PlanWork), PlanWork \notin mixed \cup stopped
               PROVE  Flagged = ordered.best \/ (DefaultPlan.best /\ Flagged = ordered.best \cup {1})
  BY DEF BestPlanAsAsked, PlanWork
<1>2. PlanWork # NULL
  BY NothingAssumption, SMT DEF PlanWork
<1>3. ASSUME NEW r \in Reqs PROVE req[r].pc \notin PlanPcs
  BY <1>1, <1>2, PlanWorks DEF Quiet, InWork
<1>4. BestOK
  BY <1>1, <1>3 DEF BestInv
<1> QED
  BY <1>4, FormsAssumption DEF BestOK, DefaultToo

-----------------------------------------------------------------------------
(* Settings.                                                               *)
Created == <<"settings", "created">>
Legal == <<"settings", "legal">>
LegalPcs == {"upgrade_settings", "write_legal"}
Defaults == [k \in LegalDocuments |-> "default"]

(* What a request for the settings carries.                                *)
Keyed(edit) == edit.key \in LegalDocuments
SettingsLocal(l) ==
    l.pc \in SettingsPcs =>
       /\ "id" \notin DOMAIN l /\ "edit" \in DOMAIN l
       /\ l.pc \in {"get_settings", "create_settings", "upgrade_settings"} =>
             "then" \in DOMAIN l /\ (l.then = "write_legal" => Keyed(l.edit))
       /\ l.pc = "write_legal" => Keyed(l.edit)
       /\ l.pc \in {"write_general", "write_legal"} => "doc" \in DOMAIN l /\ l.doc \in DOMAIN settings
       /\ l.pc \in LegalPcs => "legal" \in DOMAIN l /\ DOMAIN l.legal = LegalDocuments
       /\ l.pc = "upgrade_settings" => settings # <<>>

Document(doc) == DOMAIN doc = {"general", "legal"} /\ DOMAIN doc.legal = LegalDocuments
SettingsShaped ==
    /\ settings \in Seq(Range(settings))
    /\ \A i \in DOMAIN settings : Document(settings[i])
    /\ DOMAIN ordered.legal = LegalDocuments
    /\ settings = <<>> => ordered.general = "default" /\ \A k \in LegalDocuments : ordered.legal[k] = "default"
    /\ \A r \in Reqs : SettingsLocal(req[r])

LEMMA OneThere ==
    ASSUME NEW s, s \in Seq(Range(s))
    PROVE  s # <<>> <=> 1 \in DOMAIN s
  OBVIOUS

(* The settings are as they were but for one document.                     *)
Filed(i, general, legal) ==
    /\ i \in DOMAIN settings /\ DOMAIN settings' = DOMAIN settings
    /\ settings' = [j \in DOMAIN settings' |-> settings'[j]]
    /\ \A j \in DOMAIN settings \ {i} : settings'[j] = settings[j]
    /\ DOMAIN settings'[i] = {"general", "legal"}
    /\ settings'[i].general = general /\ settings'[i].legal = legal

LEMMA FiledSo ==
    ASSUME SettingsShaped, NEW i \in DOMAIN settings
    PROVE  /\ \A legal : settings' = [settings EXCEPT ![i].legal = legal] => Filed(i, settings[i].general, legal)
           /\ \A content : settings' = [settings EXCEPT ![i].general = content] => Filed(i, content, settings[i].legal)
<1>0. DOMAIN settings[i] = {"general", "legal"}
  BY DEF SettingsShaped, Document
<1>1. ASSUME NEW legal, settings' = [settings EXCEPT ![i].legal = legal]
      PROVE  Filed(i, settings[i].general, legal)
  <2>1. PICK doc : doc = [settings[i] EXCEPT !.legal = legal]
    OBVIOUS
  <2>2. DOMAIN doc = {"general", "legal"} /\ doc.legal = legal /\ doc.general = settings[i].general
    BY <1>0, <2>1
  <2>3. settings' = [settings EXCEPT ![i] = doc]
    BY <1>1, <2>1
  <2> QED
    BY <2>2, <2>3 DEF Filed
<1>2. ASSUME NEW content, settings' = [settings EXCEPT ![i].general = content]
      PROVE  Filed(i, content, settings[i].legal)
  <2>1. PICK doc : doc = [settings[i] EXCEPT !.general = content]
    OBVIOUS
  <2>2. DOMAIN doc = {"general", "legal"} /\ doc.general = content /\ doc.legal = settings[i].legal
    BY <1>0, <2>1
  <2>3. settings' = [settings EXCEPT ![i] = doc]
    BY <1>2, <2>1
  <2> QED
    BY <2>2, <2>3 DEF Filed
<1> QED
  BY <1>1, <1>2

(* What the steps of such a request do to it.                              *)
Continues(r, doc, legal) ==
    \/ req'[r] = Idle
    \/ /\ req'[r].pc \in {"write_general", "write_legal"} /\ req'[r].pc = req[r].then
       /\ {"edit", "doc", "legal"} \subseteq DOMAIN req'[r] /\ "id" \notin DOMAIN req'[r]
       /\ req'[r].edit = req[r].edit /\ req'[r].doc = doc /\ req'[r].legal = legal

LEMMA ContinuesSo ==
    ASSUME LocalsReady, NEW r \in Reqs, NEW doc, NEW legal, Continue(r, doc, legal),
           req[r].pc \in {"get_settings", "create_settings", "upgrade_settings"}
    PROVE  Continues(r, doc, legal)
<1>1. CASE req[r].then = "answer"
  BY <1>1, Steps DEF Continue, Continues
<1>2. CASE req[r].then # "answer"
  <2>1. PICK m : m = [pc |-> req[r].then, edit |-> req[r].edit, doc |-> doc, legal |-> legal]
    OBVIOUS
  <2>2. req'[r] = m
    BY <1>2, <2>1, Steps DEF Continue
  <2>3. DOMAIN m = {"pc", "edit", "doc", "legal"} /\ m.pc = req[r].then /\ m.edit = req[r].edit /\ m.doc = doc /\ m.legal = legal
    BY <2>1
  <2>4. req[r].then \in {"write_general", "write_legal"}
    BY <1>2 DEF LocalsReady, Ready, SettingsReady
  <2> QED
    BY <2>2, <2>3, <2>4 DEF Continues
<1> QED
  BY <1>1, <1>2

SettingsBegins(r) ==
    /\ req[r].pc \in {"idle", "write_legal", "write_general"} /\ req'[r].pc = "get_settings"
    /\ {"then", "edit"} \subseteq DOMAIN req'[r] /\ "id" \notin DOMAIN req'[r]
    /\ req'[r].then = "write_legal" => Keyed(req'[r].edit)

LEMMA SettingsBegun ==
    ASSUME LocalsReady, NEW r \in Reqs, SettingsArrive(r)
    PROVE  SettingsBegins(r) /\ req[r].pc = "idle" /\ UNCHANGED settings
<1>1. ASSUME NEW then, NEW edit, BeginSettingsRequest(r, then, edit), then = "write_legal" => Keyed(edit)
      PROVE  SettingsBegins(r) /\ req[r].pc = "idle" /\ UNCHANGED settings
  <2>1. PICK l : l = [pc |-> "get_settings", then |-> then, edit |-> edit]
    OBVIOUS
  <2>2. Begin(r, l) /\ UNCHANGED settings
    BY <1>1, <2>1 DEF BeginSettingsRequest
  <2>3. DOMAIN l = {"pc", "then", "edit"} /\ l.pc = "get_settings" /\ l.then = then /\ l.edit = edit
    BY <2>1
  <2> QED
    BY <1>1, <2>2, <2>3, Steps DEF SettingsBegins
<1>2. ASSUME NEW content, NEW key \in LegalDocuments PROVE Keyed([key |-> key, content |-> content])
  BY DEF Keyed
<1> QED
  BY <1>1, <1>2 DEF SettingsArrive

Sought(r) ==
    /\ req[r].pc = "get_settings" /\ UNCHANGED settings
    /\ \/ settings = <<>> /\ req'[r].pc = "create_settings"
       \/ settings # <<>> /\ req'[r].pc = "upgrade_settings"
          /\ "legal" \in DOMAIN req'[r] /\ req'[r].legal = Upgraded(settings[1].legal)
    /\ {"then", "edit"} \subseteq DOMAIN req'[r] /\ "id" \notin DOMAIN req'[r]
    /\ req'[r].then = req[r].then /\ req'[r].edit = req[r].edit

LEMMA SettingsSought ==
    ASSUME LocalsReady, SettingsShaped, NEW r \in Reqs, GetSettings(r)
    PROVE  /\ req[r].pc = "get_settings" /\ UNCHANGED settings
           /\ Sought(r) \/ (settings # <<>> /\ Continues(r, 1, settings[1].legal))
<1>1. /\ req[r].pc = "get_settings" /\ UNCHANGED settings
      /\ {"then", "edit"} \subseteq DOMAIN req[r] /\ "id" \notin DOMAIN req[r]
  BY DEF GetSettings, At, SettingsShaped, SettingsLocal, SettingsPcs
<1>2. CASE settings = <<>>
  <2>1. Goto(r, "create_settings")
    BY <1>2 DEF GetSettings
  <2> QED
    BY <1>1, <1>2, <2>1, Steps DEF Sought
<1>3. CASE settings # <<>> /\ Upgraded(settings[1].legal) = settings[1].legal
  <2>1. Continue(r, 1, settings[1].legal)
    BY <1>3 DEF GetSettings
  <2> QED
    BY <1>1, <1>3, <2>1, ContinuesSo
<1>4. CASE settings # <<>> /\ Upgraded(settings[1].legal) # settings[1].legal
  <2>1. PICK fields : fields = [legal |-> Upgraded(settings[1].legal), pc |-> "upgrade_settings"]
    OBVIOUS
  <2>2. DOMAIN fields = {"legal", "pc"} /\ fields.legal = Upgraded(settings[1].legal) /\ fields.pc = "upgrade_settings"
    BY <2>1
  <2>3. PICK m : m = With(req[r], fields)
    OBVIOUS
  <2>4. req'[r] = m
    BY <1>4, <2>1, <2>3, Steps DEF GetSettings
  <2>5. /\ DOMAIN m = DOMAIN req[r] \cup {"legal", "pc"} /\ m.legal = fields.legal /\ m.pc = fields.pc
        /\ m.then = req[r].then /\ m.edit = req[r].edit
    BY <1>1, <2>2, <2>3 DEF With
  <2> QED
    BY <1>1, <1>4, <2>2, <2>4, <2>5 DEF Sought
<1> QED
  BY <1>1, <1>2, <1>3, <1>4

(* A document more, with what a fresh one holds.                           *)
Founded ==
    /\ DOMAIN settings = 1 .. Len(settings) /\ DOMAIN settings' = 1 .. Len(settings) + 1
    /\ Len(settings') = Len(settings) + 1 /\ settings' \in Seq(Range(settings'))
    /\ \A j \in DOMAIN settings : settings'[j] = settings[j]
    /\ settings'[Len(settings) + 1] = [general |-> "default", legal |-> Defaults]

LEMMA SettingsCreated ==
    ASSUME LocalsReady, SettingsShaped, NEW r \in Reqs, CreateSettings(r)
    PROVE  req[r].pc = "create_settings" /\ Founded /\ Continues(r, Len(settings) + 1, Defaults)
<1>1. req[r].pc = "create_settings"
  BY DEF CreateSettings, At
<1>2. PICK doc : doc = [general |-> "default", legal |-> Defaults]
  OBVIOUS
<1>3. settings' = Append(settings, doc)
  BY <1>2 DEF CreateSettings, Defaults
<1>4. PICK s : s = settings'
  OBVIOUS
<1>5. /\ s \in Seq(Range(s)) /\ Len(s) = Len(settings) + 1 /\ s[Len(s)] = doc
      /\ \A j \in DOMAIN settings : s[j] = settings[j]
  BY <1>3, <1>4, Grown DEF SettingsShaped
<1>6. DOMAIN settings = 1 .. Len(settings) /\ DOMAIN s = 1 .. Len(s) /\ settings' \in Seq(Range(settings'))
  BY <1>4, <1>5 DEF SettingsShaped, Range
<1>7. Continue(r, Len(settings'), Defaults)
  BY DEF CreateSettings, Defaults
<1> QED
  BY <1>1, <1>2, <1>4, <1>5, <1>6, <1>7, ContinuesSo DEF Founded

LEMMA SettingsUpgraded ==
    ASSUME LocalsReady, SettingsShaped, NEW r \in Reqs, UpgradeSettings(r)
    PROVE  /\ req[r].pc = "upgrade_settings" /\ Filed(1, settings[1].general, req[r].legal)
           /\ Continues(r, 1, req[r].legal)
<1>1. req[r].pc = "upgrade_settings" /\ settings # <<>>
  BY DEF UpgradeSettings, At, SettingsShaped, SettingsLocal, SettingsPcs
<1>2. 1 \in DOMAIN settings
  BY <1>1, OneThere DEF SettingsShaped
<1> QED
  BY <1>1, <1>2, FiledSo, ContinuesSo DEF UpgradeSettings

LEMMA SettingsWritten ==
    ASSUME LocalsReady, SettingsShaped, NEW r \in Reqs, WriteLegal(r) \/ WriteGeneral(r)
    PROVE  /\ SettingsBegins(r) /\ req[r].doc \in DOMAIN settings
           /\ \/ /\ req[r].pc = "write_legal"
                 /\ Filed(req[r].doc, settings[req[r].doc].general,
                          [req[r].legal EXCEPT ![req[r].edit.key] = req[r].edit.content])
              \/ /\ req[r].pc = "write_general"
                 /\ Filed(req[r].doc, req[r].edit.content, settings[req[r].doc].legal)
<1>1. req[r].pc \in {"write_legal", "write_general"} /\ req[r].doc \in DOMAIN settings
  BY DEF WriteLegal, WriteGeneral, At, SettingsShaped, SettingsLocal, SettingsPcs
<1>2. PICK m : m = [pc |-> "get_settings", then |-> "answer", edit |-> NULL]
  OBVIOUS
<1>3. req'[r] = m
  BY <1>2, Steps DEF WriteLegal, WriteGeneral
<1>4. DOMAIN m = {"pc", "then", "edit"} /\ m.pc = "get_settings" /\ m.then = "answer"
  BY <1>2
<1>5. SettingsBegins(r)
  BY <1>1, <1>3, <1>4 DEF SettingsBegins
<1>6. CASE WriteLegal(r)
  BY <1>1, <1>5, <1>6, FiledSo DEF WriteLegal, At
<1>7. CASE WriteGeneral(r)
  BY <1>1, <1>5, <1>7, FiledSo DEF WriteGeneral, At
<1> QED
  BY <1>6, <1>7

LEMMA SettingsSteps ==
    ASSUME LocalsReady, SettingsShaped, NEW r \in Reqs, OnSettings(r)
    PROVE  \/ SettingsBegins(r) /\ req[r].pc = "idle" /\ UNCHANGED settings
           \/ Sought(r)
           \/ req[r].pc = "get_settings" /\ UNCHANGED settings /\ settings # <<>> /\ Continues(r, 1, settings[1].legal)
           \/ req[r].pc = "create_settings" /\ Founded /\ Continues(r, Len(settings) + 1, Defaults)
           \/ /\ req[r].pc = "upgrade_settings" /\ Filed(1, settings[1].general, req[r].legal)
              /\ Continues(r, 1, req[r].legal)
           \/ /\ SettingsBegins(r) /\ req[r].pc = "write_legal" /\ req[r].doc \in DOMAIN settings
              /\ Filed(req[r].doc, settings[req[r].doc].general,
                       [req[r].legal EXCEPT ![req[r].edit.key] = req[r].edit.content])
           \/ /\ SettingsBegins(r) /\ req[r].pc = "write_general" /\ req[r].doc \in DOMAIN settings
              /\ Filed(req[r].doc, req[r].edit.content, settings[req[r].doc].legal)
  BY SettingsBegun, SettingsSought, SettingsCreated, SettingsUpgraded, SettingsWritten
     DEF OnSettings, SettingsStep

LEMMA OneRewritten ==
    ASSUME SettingsShaped, NEW i, NEW general, NEW legal, Filed(i, general, legal)
    PROVE  /\ settings' \in Seq(Range(settings')) /\ Len(settings') = Len(settings)
           /\ 1 \in DOMAIN settings /\ settings # <<>>
<1>1. PICK s : s = settings'
  OBVIOUS
<1>2. s = [j \in DOMAIN s |-> s[j]] /\ DOMAIN s = DOMAIN settings
  BY <1>1 DEF Filed
<1>3. s \in Seq(Range(s)) /\ Len(s) = Len(settings)
  BY <1>2, Altered DEF SettingsShaped
<1>4. i \in 1 .. Len(settings) /\ Len(settings) \in Nat
  BY DEF Filed, SettingsShaped
<1> QED
  BY <1>1, <1>3, <1>4, OneThere DEF SettingsShaped

(* What the administrators want of the settings follows what is written.   *)
LEMMA SettingsWishes ==
    ASSUME LocalsReady, HNext, NEW r \in Reqs, OnSettings(r)
    PROVE  /\ req[r].pc # "write_general" => ordered'.general = ordered.general
           /\ req[r].pc # "write_legal" => ordered'.legal = ordered.legal
           /\ req[r].pc = "write_general" /\ req'[r] # req[r] =>
                 \/ ordered'.general = req[r].edit.content
                 \/ ordered'.general = ordered.general /\ UNCHANGED settings
           /\ req[r].pc = "write_legal" /\ req'[r] # req[r] =>
                 \/ ordered'.legal = [ordered.legal EXCEPT ![req[r].edit.key] = req[r].edit.content]
                 \/ ordered'.legal = ordered.legal /\ UNCHANGED settings
<1>1. \A q \in Reqs \ {r} : req'[q] = req[q]
  BY SettingsPart DEF Part, Only
<1>2. OrderedNext
  BY DEF HNext
<1>3. officeVars' = officeVars => settings' = settings
  BY DEF officeVars, settingsVars
<1> QED
  BY <1>1, <1>2, <1>3, OrderedBy DEF SameWishes, At

LEMMA SettingsShapedKept ==
    ASSUME LocalsReady, CouponsInv, PricesInv, PlansShaped, TicketsTyped, SettingsShaped, HNext
    PROVE  SettingsShaped' /\ DOMAIN settings \subseteq DOMAIN settings'
<1>1. /\ settings \in Seq(Range(settings)) /\ \A i \in DOMAIN settings : Document(settings[i])
      /\ DOMAIN ordered.legal = LegalDocuments
      /\ settings = <<>> => ordered.general = "default" /\ \A k \in LegalDocuments : ordered.legal[k] = "default"
      /\ \A r \in Reqs : SettingsLocal(req[r])
  BY DEF SettingsShaped
<1> DEFINE Fine == SettingsShaped' /\ DOMAIN settings \subseteq DOMAIN settings'
<1>2. ASSUME SettingsLeft PROVE Fine
  <2>1. ASSUME NEW q \in Reqs PROVE SettingsLocal(req[q])'
    <3>1. CASE req'[q] = req[q]
      BY <1>1, <1>2, <3>1 DEF SettingsLocal, SettingsLeft
    <3>2. CASE req'[q] # req[q]
      BY <1>2, <3>2 DEF SettingsLeft, Off, SettingsLocal
    <3> QED
      BY <3>1, <3>2
  <2> QED
    BY <1>1, <1>2, <2>1 DEF SettingsLeft, SettingsShaped
<1>3. ASSUME NEW r \in Reqs, OnSettings(r) PROVE Fine
  <2>1. Only(r)
    BY <1>3, SettingsPart DEF Part
  <2> DEFINE Tidy == /\ settings' \in Seq(Range(settings')) /\ \A i \in DOMAIN settings' : Document(settings'[i])
                     /\ DOMAIN settings \subseteq DOMAIN settings'
  <2>2. UNCHANGED settings => Tidy
    BY <1>1
  <2>3. ASSUME NEW i, NEW general, NEW legal, Filed(i, general, legal), DOMAIN legal = LegalDocuments PROVE Tidy
    BY <1>1, <2>3, OneRewritten DEF Filed, Document
  <2>4. ASSUME Founded PROVE Tidy
    <3>1. PICK doc : doc = [general |-> "default", legal |-> Defaults]
      OBVIOUS
    <3>2. Document(doc)
      BY <3>1 DEF Document, Defaults
    <3>3. ASSUME NEW j \in DOMAIN settings' PROVE j \in DOMAIN settings \/ j = Len(settings) + 1
      <4>1. Len(settings) \in Nat
        BY <1>1
      <4> QED
        BY <2>4, <3>3, <4>1 DEF Founded
    <3>4. DOMAIN settings \subseteq DOMAIN settings'
      <4>1. Len(settings) \in Nat
        BY <1>1
      <4> QED
        BY <2>4, <4>1 DEF Founded
    <3> QED
      BY <1>1, <2>4, <3>1, <3>2, <3>3, <3>4 DEF Founded
  <2>5. req[r].pc \in LegalPcs => DOMAIN req[r].legal = LegalDocuments
    BY <1>1 DEF SettingsLocal, SettingsPcs, LegalPcs
  <2>6. \A i \in DOMAIN settings : DOMAIN settings[i].legal = LegalDocuments
    BY <1>1 DEF Document
  <2>7. Tidy
    <3>1. \A key, content : req[r].pc \in LegalPcs => DOMAIN [req[r].legal EXCEPT ![key] = content] = LegalDocuments
      BY <2>5
    <3>2. Sought(r) => UNCHANGED settings
      BY DEF Sought
    <3>3. "upgrade_settings" \in LegalPcs /\ "write_legal" \in LegalPcs
      BY DEF LegalPcs
    <3> HIDE DEF Tidy
    <3> QED
      BY <1>3, <2>2, <2>3, <2>4, <2>5, <2>6, <3>1, <3>2, <3>3, SettingsSteps
  <2>8. settings # <<>> => settings' # <<>>
    BY <1>1, <2>7, OneThere
  <2>9. ASSUME NEW q \in Reqs \ {r} PROVE SettingsLocal(req[q])'
    BY <1>1, <2>1, <2>7, <2>8, <2>9 DEF Only, SettingsLocal
  <2>10. SettingsLocal(req[r])'
    <3>1. ASSUME NEW doc \in DOMAIN settings', NEW legal, Continues(r, doc, legal), DOMAIN legal = LegalDocuments,
                 req[r].pc \in {"get_settings", "create_settings", "upgrade_settings"}
          PROVE  SettingsLocal(req[r])'
      <4>1. req[r].then = "write_legal" => Keyed(req[r].edit)
        BY <1>1, <3>1 DEF SettingsLocal, SettingsPcs
      <4> QED
        BY <3>1, <4>1, Idles DEF Continues, SettingsLocal, SettingsPcs, LegalPcs
    <3>2. SettingsBegins(r) => SettingsLocal(req[r])'
      BY DEF SettingsBegins, SettingsLocal, LegalPcs
    <3>3. Sought(r) => SettingsLocal(req[r])'
      <4>1. Sought(r) => (req[r].then = "write_legal" => Keyed(req[r].edit))
        BY <1>1 DEF Sought, SettingsLocal, SettingsPcs
      <4>2. DOMAIN Upgraded(settings[1].legal) = LegalDocuments
        BY DEF Upgraded
      <4> QED
        BY <2>8, <4>1, <4>2 DEF Sought, SettingsLocal, LegalPcs
    <3>4. settings # <<>> => 1 \in DOMAIN settings /\ 1 \in DOMAIN settings'
      BY <1>1, <2>7, OneThere
    <3>5. Founded => Len(settings) + 1 \in DOMAIN settings'
      <4>1. Len(settings) \in Nat
        BY <1>1
      <4> QED
        BY <4>1 DEF Founded
    <3>6. DOMAIN Defaults = LegalDocuments
      BY DEF Defaults
    <3>7. \A general, legal : Filed(1, general, legal) => 1 \in DOMAIN settings'
      BY DEF Filed
    <3>8. "upgrade_settings" \in LegalPcs
      BY DEF LegalPcs
    <3> QED
      BY <1>3, <2>5, <2>6, <3>1, <3>2, <3>3, <3>4, <3>5, <3>6, <3>7, <3>8, SettingsSteps
  <2>11. DOMAIN ordered'.legal = LegalDocuments
    <3>1. CASE req[r].pc # "write_legal"
      BY <1>1, <1>3, <3>1, SettingsWishes
    <3>2. CASE req[r].pc = "write_legal"
      <4>1. req'[r] # req[r]
        BY <1>3, <3>2, Idles, SettingsSteps DEF SettingsBegins, Sought
      <4> QED
        BY <1>1, <1>3, <3>2, <4>1, SettingsWishes
    <3> QED
      BY <3>1, <3>2
  <2>12. ASSUME settings' = <<>>
         PROVE  ordered'.general = "default" /\ \A k \in LegalDocuments : ordered'.legal[k] = "default"
    <3>1. settings = <<>>
      BY <2>8, <2>12
    <3>2. 1 \notin DOMAIN settings
      BY <1>1, <3>1, OneThere
    <3>3. req[r].pc \notin {"write_general", "write_legal"}
      <4>1. req[r].pc \in {"write_general", "write_legal"} => req[r].doc \in DOMAIN settings
        BY <1>1 DEF SettingsLocal, SettingsPcs
      <4>2. DOMAIN settings = {}
        BY <3>1
      <4> QED
        BY <4>1, <4>2
    <3> QED
      BY <1>1, <1>3, <3>1, <3>3, SettingsWishes
  <2> QED
    BY <2>7, <2>9, <2>10, <2>11, <2>12 DEF SettingsShaped
<1> QED
  BY <1>2, <1>3, OfficeMoves

(* Whoever creates the settings, alone, still finds none; whoever brings   *)
(* the legal documents up to date or writes one, alone, has them as they   *)
(* are.                                                                    *)
Alike(a, b) == \A k \in LegalDocuments : Current(a[k]) = Current(b[k])
CreatedInv ==
    Created \notin mixed =>
       /\ Len(settings) <= 1
       /\ \A p, q \in Reqs : req[p].pc = "create_settings" /\ req[q].pc = "create_settings" => p = q
       /\ \A r \in Reqs : req[r].pc = "create_settings" => settings = <<>>
       /\ settings # <<>> => settings[1].general = ordered.general
LegalInv ==
    Created \notin mixed /\ Legal \notin mixed =>
       /\ \A p, q \in Reqs : req[p].pc \in LegalPcs /\ req[q].pc \in LegalPcs => p = q
       /\ settings # <<>> => Alike(settings[1].legal, ordered.legal)
       /\ \A r \in Reqs : req[r].pc \in LegalPcs => Alike(req[r].legal, settings[1].legal)

LEMMA SettingsWorks ==
    ASSUME LocalsReady', SettingsShaped', NEW r \in Reqs
    PROVE  /\ req'[r].pc = "create_settings" => Working(r)' = Created
           /\ req'[r].pc \in LegalPcs => Working(r)' = Legal
<1>1. ASSUME req'[r].pc \in {"create_settings"} \cup LegalPcs
      PROVE  "id" \notin DOMAIN req'[r] /\ "newest" \notin DOMAIN req'[r]
  <2>1. "id" \notin DOMAIN req'[r]
    BY <1>1 DEF SettingsShaped, SettingsLocal, SettingsPcs, LegalPcs
  <2>2. "newest" \notin DOMAIN req'[r]
    BY <1>1 DEF LocalsReady, Ready, GenerationReady, LegalPcs, Generating, Slept, InsightNexts
  <2> QED
    BY <2>1, <2>2
<1> QED
  BY <1>1 DEF Working, Created, Legal, LegalPcs

LEMMA SettingsAlone ==
    ASSUME LocalsReady', SettingsShaped', HNext
    PROVE  /\ Created \notin mixed' =>
                 \A p, q \in Reqs : req'[p].pc = "create_settings" /\ req'[q].pc = "create_settings" => p = q
           /\ Legal \notin mixed' =>
                 \A p, q \in Reqs : req'[p].pc \in LegalPcs /\ req'[q].pc \in LegalPcs => p = q
<1>1. Created # NULL /\ Legal # NULL
  BY NothingAssumption, SMT DEF Created, Legal
<1>2. SharedWork' \subseteq mixed'
  BY DEF HNext
<1>3. ASSUME NEW p \in Reqs, NEW q \in Reqs, p # q, req'[p].pc = "create_settings", req'[q].pc = "create_settings"
      PROVE  Created \in mixed'
  BY <1>1, <1>2, <1>3, SettingsWorks, WorkShared
<1>4. ASSUME NEW p \in Reqs, NEW q \in Reqs, p # q, req'[p].pc \in LegalPcs, req'[q].pc \in LegalPcs
      PROVE  Legal \in mixed'
  BY <1>1, <1>2, <1>4, SettingsWorks, WorkShared
<1> QED
  BY <1>3, <1>4

LEMMA CreatedKept ==
    ASSUME LocalsReady, CouponsInv, PricesInv, PlansShaped, TicketsTyped, SettingsShaped, CreatedInv, HNext,
           LocalsReady', SettingsShaped'
    PROVE  CreatedInv'
<1>1. SUFFICES ASSUME Created \notin mixed'
               PROVE  /\ Len(settings') <= 1
                      /\ \A r \in Reqs : req'[r].pc = "create_settings" => settings' = <<>>
                      /\ settings' # <<>> => settings'[1].general = ordered'.general
  BY SettingsAlone DEF CreatedInv
<1>2. Created \notin mixed
  BY <1>1 DEF HNext
<1>3. /\ Len(settings) <= 1
      /\ \A p, q \in Reqs : req[p].pc = "create_settings" /\ req[q].pc = "create_settings" => p = q
      /\ \A r \in Reqs : req[r].pc = "create_settings" => settings = <<>>
      /\ settings # <<>> => settings[1].general = ordered.general
  BY <1>2 DEF CreatedInv
<1>4. settings \in Seq(Range(settings)) /\ Len(settings) \in Nat /\ DOMAIN settings = 1 .. Len(settings)
      /\ (settings # <<>> <=> 1 \in DOMAIN settings)
  BY OneThere DEF SettingsShaped
<1> DEFINE Fine == /\ Len(settings') <= 1
                   /\ \A r \in Reqs : req'[r].pc = "create_settings" => settings' = <<>>
                   /\ settings' # <<>> => settings'[1].general = ordered'.general
<1>5. CASE SettingsLeft
  BY <1>3, <1>5 DEF SettingsLeft, Off, SettingsPcs
<1>6. ASSUME NEW r \in Reqs, OnSettings(r) PROVE Fine
  <2>1. Only(r)
    BY <1>6, SettingsPart DEF Part
  <2>2. /\ req[r].pc # "write_general" => ordered'.general = ordered.general
        /\ req[r].pc = "write_general" /\ req'[r] # req[r] =>
                 \/ ordered'.general = req[r].edit.content
                 \/ ordered'.general = ordered.general /\ UNCHANGED settings
    BY <1>6, SettingsWishes
  <2>3. ASSUME UNCHANGED settings, req'[r].pc = "create_settings" => settings = <<>>,
               req[r].pc # "write_general"
        PROVE  Fine
    BY <1>3, <2>1, <2>2, <2>3 DEF Only
  <2>4. ASSUME NEW i, NEW general, NEW legal, Filed(i, general, legal), req'[r].pc # "create_settings",
               general = ordered'.general
        PROVE  Fine
    <3>1. Len(settings') = Len(settings) /\ settings # <<>>
      BY <2>4, OneRewritten
    <3>2. i = 1
      BY <1>3, <1>4, <2>4 DEF Filed
    <3>3. \A q \in Reqs : req'[q].pc # "create_settings"
      BY <1>3, <2>1, <2>4, <3>1 DEF Only
    <3> QED
      BY <1>3, <2>4, <3>1, <3>2, <3>3 DEF Filed
  <2>5. ASSUME NEW doc, NEW legal, Continues(r, doc, legal) PROVE req'[r].pc # "create_settings"
    BY <2>5, Idles DEF Continues
  <2>6. SettingsBegins(r) => req'[r].pc # "create_settings" /\ req'[r] # req[r]
    BY DEF SettingsBegins
  <2>7. CASE req[r].pc = "create_settings" /\ Founded /\ Continues(r, Len(settings) + 1, Defaults)
    <3>1. settings = <<>> /\ Len(settings) = 0
      BY <1>3, <2>7
    <3>2. settings'[1].general = "default" /\ Len(settings') = 1
      BY <2>7, <3>1 DEF Founded
    <3>3. ordered'.general = "default"
      BY <2>2, <2>7, <3>1 DEF SettingsShaped
    <3>4. \A q \in Reqs : req'[q].pc # "create_settings"
      BY <1>3, <2>1, <2>5, <2>7 DEF Only
    <3> QED
      BY <3>2, <3>3, <3>4
  <2>8. CASE req[r].pc = "upgrade_settings" /\ Filed(1, settings[1].general, req[r].legal) /\ Continues(r, 1, req[r].legal)
    <3>1. settings # <<>>
      BY <2>8, OneRewritten
    <3> QED
      BY <1>3, <2>2, <2>4, <2>5, <2>8, <3>1
  <2>9. CASE /\ SettingsBegins(r) /\ req[r].pc = "write_legal" /\ req[r].doc \in DOMAIN settings
             /\ Filed(req[r].doc, settings[req[r].doc].general,
                      [req[r].legal EXCEPT ![req[r].edit.key] = req[r].edit.content])
    <3>1. settings # <<>>
      BY <2>9, OneRewritten
    <3>2. req[r].doc = 1
      BY <1>3, <1>4, <2>9
    <3> QED
      BY <1>3, <2>2, <2>4, <2>6, <2>9, <3>1, <3>2
  <2>10. CASE /\ SettingsBegins(r) /\ req[r].pc = "write_general" /\ req[r].doc \in DOMAIN settings
              /\ Filed(req[r].doc, req[r].edit.content, settings[req[r].doc].legal)
    <3>1. CASE ordered'.general = req[r].edit.content
      BY <2>4, <2>6, <2>10, <3>1
    <3>2. CASE ordered'.general = ordered.general /\ UNCHANGED settings
      BY <1>3, <2>1, <2>6, <2>10, <3>2 DEF Only
    <3> QED
      BY <2>2, <2>6, <2>10, <3>1, <3>2
  <2>11. CASE SettingsBegins(r) /\ req[r].pc = "idle" /\ UNCHANGED settings
    BY <2>3, <2>6, <2>11
  <2>12. CASE Sought(r)
    BY <2>3, <2>12 DEF Sought
  <2>13. CASE req[r].pc = "get_settings" /\ UNCHANGED settings /\ settings # <<>> /\ Continues(r, 1, settings[1].legal)
    BY <2>3, <2>5, <2>13
  <2> QED
    BY <1>6, <2>7, <2>8, <2>9, <2>10, <2>11, <2>12, <2>13, SettingsSteps
<1> QED
  BY <1>5, <1>6, OfficeMoves

LEMMA AlikeSo ==
    /\ \A a : Alike(a, a)
    /\ \A a, b, c : Alike(a, b) /\ Alike(b, c) => Alike(a, c)
    /\ \A a : Alike(Upgraded(a), a)
<1>1. \A x : Current(IF x = "legacy" THEN "default" ELSE x) = Current(x)
  BY DEF Current
<1> QED
  BY <1>1 DEF Alike, Upgraded

LEMMA LegalKept ==
    ASSUME LocalsReady, CouponsInv, PricesInv, PlansShaped, TicketsTyped, SettingsShaped, CreatedInv, LegalInv, HNext,
           LocalsReady', SettingsShaped'
    PROVE  LegalInv'
<1>1. SUFFICES ASSUME Created \notin mixed', Legal \notin mixed'
               PROVE  /\ settings' # <<>> => Alike(settings'[1].legal, ordered'.legal)
                      /\ \A r \in Reqs : req'[r].pc \in LegalPcs => Alike(req'[r].legal, settings'[1].legal)
  BY SettingsAlone DEF LegalInv, Alike
<1>2. Created \notin mixed /\ Legal \notin mixed
  BY <1>1 DEF HNext
<1>3. Len(settings) <= 1 /\ \A r \in Reqs : req[r].pc = "create_settings" => settings = <<>>
  BY <1>2 DEF CreatedInv
<1>4. settings \in Seq(Range(settings)) /\ Len(settings) \in Nat /\ DOMAIN settings = 1 .. Len(settings)
      /\ (settings # <<>> <=> 1 \in DOMAIN settings)
  BY OneThere DEF SettingsShaped
<1>5. /\ \A p, q \in Reqs : req[p].pc \in LegalPcs /\ req[q].pc \in LegalPcs => p = q
      /\ settings # <<>> => Alike(settings[1].legal, ordered.legal)
      /\ \A r \in Reqs : req[r].pc \in LegalPcs => Alike(req[r].legal, settings[1].legal)
  BY <1>2 DEF LegalInv
<1>6. \A r \in Reqs : req[r].pc \in LegalPcs => settings # <<>>
  <2>1. \A r \in Reqs : req[r].pc = "upgrade_settings" => settings # <<>>
    BY DEF SettingsShaped, SettingsLocal, SettingsPcs
  <2>2. \A r \in Reqs : req[r].pc = "write_legal" => req[r].doc \in DOMAIN settings
    BY DEF SettingsShaped, SettingsLocal, SettingsPcs
  <2>3. settings = <<>> => DOMAIN settings = {}
    OBVIOUS
  <2> QED
    BY <2>1, <2>2, <2>3 DEF LegalPcs
<1> DEFINE Fine == /\ settings' # <<>> => Alike(settings'[1].legal, ordered'.legal)
                   /\ \A r \in Reqs : req'[r].pc \in LegalPcs => Alike(req'[r].legal, settings'[1].legal)
<1>7. CASE SettingsLeft
  BY <1>5, <1>7 DEF SettingsLeft, Off, SettingsPcs, LegalPcs
<1>8. ASSUME NEW r \in Reqs, OnSettings(r) PROVE Fine
  <2>1. Only(r)
    BY <1>8, SettingsPart DEF Part
  <2>2. /\ req[r].pc # "write_legal" => ordered'.legal = ordered.legal
        /\ req[r].pc = "write_legal" /\ req'[r] # req[r] =>
                 \/ ordered'.legal = [ordered.legal EXCEPT ![req[r].edit.key] = req[r].edit.content]
                 \/ ordered'.legal = ordered.legal /\ UNCHANGED settings
    BY <1>8, SettingsWishes
  <2>3. \A q \in Reqs \ {r} : req[r].pc \in LegalPcs => req'[q].pc \notin LegalPcs
    BY <1>5, <2>1 DEF Only
  <2>4. ASSUME UNCHANGED settings, req'[r].pc \in LegalPcs => Alike(req'[r].legal, settings[1].legal),
               ordered'.legal = ordered.legal
        PROVE  Fine
    BY <1>5, <2>1, <2>4 DEF Only
  <2>5. CASE SettingsBegins(r) /\ req[r].pc = "idle" /\ UNCHANGED settings
    BY <2>2, <2>4, <2>5 DEF SettingsBegins, LegalPcs
  <2>6. CASE Sought(r)
    BY <2>2, <2>4, <2>6, AlikeSo DEF Sought, LegalPcs
  <2>7. CASE req[r].pc = "get_settings" /\ UNCHANGED settings /\ settings # <<>> /\ Continues(r, 1, settings[1].legal)
    BY <2>2, <2>4, <2>7, AlikeSo, Idles DEF Continues, LegalPcs
  <2>8. CASE req[r].pc = "create_settings" /\ Founded /\ Continues(r, Len(settings) + 1, Defaults)
    <3>1. settings = <<>> /\ Len(settings) = 0
      BY <1>3, <2>8
    <3>2. settings'[1].legal = Defaults
      BY <2>8, <3>1 DEF Founded
    <3>3. ordered'.legal = ordered.legal /\ \A k \in LegalDocuments : ordered.legal[k] = "default"
      BY <2>2, <2>8, <3>1 DEF SettingsShaped
    <3>4. Alike(Defaults, ordered'.legal)
      BY <3>3 DEF Alike, Defaults
    <3>5. req'[r].pc \in LegalPcs => req'[r].legal = Defaults
      BY <2>8, Idles DEF Continues, LegalPcs
    <3>6. \A q \in Reqs \ {r} : req'[q].pc \notin LegalPcs
      BY <1>6, <2>1, <3>1 DEF Only
    <3> QED
      BY <3>2, <3>4, <3>5, <3>6, AlikeSo
  <2>9. CASE req[r].pc = "upgrade_settings" /\ Filed(1, settings[1].general, req[r].legal) /\ Continues(r, 1, req[r].legal)
    <3>1. settings # <<>> /\ req[r].pc \in LegalPcs
      BY <2>9, OneRewritten DEF LegalPcs
    <3>2. Alike(req[r].legal, ordered.legal) /\ ordered'.legal = ordered.legal
      BY <1>5, <2>2, <2>9, <3>1, AlikeSo
    <3>3. settings'[1].legal = req[r].legal
      BY <2>9 DEF Filed
    <3>4. req'[r].pc \in LegalPcs => req'[r].legal = req[r].legal
      BY <2>9, Idles DEF Continues, LegalPcs
    <3> QED
      BY <2>3, <3>1, <3>2, <3>3, <3>4, AlikeSo
  <2>10. CASE /\ SettingsBegins(r) /\ req[r].pc = "write_legal" /\ req[r].doc \in DOMAIN settings
              /\ Filed(req[r].doc, settings[req[r].doc].general,
                       [req[r].legal EXCEPT ![req[r].edit.key] = req[r].edit.content])
    <3>1. settings # <<>> /\ req[r].pc \in LegalPcs
      BY <2>10, OneRewritten DEF LegalPcs
    <3>2. req[r].doc = 1
      BY <1>3, <1>4, <2>10
    <3>3. /\ Alike(req[r].legal, ordered.legal) /\ Keyed(req[r].edit)
          /\ DOMAIN req[r].legal = LegalDocuments /\ DOMAIN ordered.legal = LegalDocuments
      BY <1>5, <2>10, <3>1, AlikeSo DEF SettingsShaped, SettingsLocal, SettingsPcs
    <3>4. \A q \in Reqs : req'[q].pc \notin LegalPcs
      BY <2>3, <2>10, <3>1 DEF SettingsBegins, LegalPcs
    <3>5. PICK key, content : key = req[r].edit.key /\ content = req[r].edit.content
      OBVIOUS
    <3>6. CASE ordered'.legal = [ordered.legal EXCEPT ![key] = content]
      <4>1. settings'[1].legal = [req[r].legal EXCEPT ![key] = content]
        BY <2>10, <3>2, <3>5 DEF Filed
      <4>2. ASSUME NEW k \in LegalDocuments PROVE Current(settings'[1].legal[k]) = Current(ordered'.legal[k])
        BY <3>3, <3>6, <4>1 DEF Alike
      <4> QED
        BY <3>4, <4>2 DEF Alike
    <3>7. CASE ordered'.legal = ordered.legal /\ UNCHANGED settings
      BY <1>5, <3>4, <3>7
    <3>8. req'[r] # req[r]
      BY <2>10 DEF SettingsBegins
    <3> QED
      BY <2>2, <2>10, <3>5, <3>6, <3>7, <3>8
  <2>11. CASE /\ SettingsBegins(r) /\ req[r].pc = "write_general" /\ req[r].doc \in DOMAIN settings
              /\ Filed(req[r].doc, req[r].edit.content, settings[req[r].doc].legal)
    <3>1. settings # <<>> /\ req[r].doc = 1
      BY <1>3, <1>4, <2>11, OneRewritten
    <3>2. settings'[1].legal = settings[1].legal /\ ordered'.legal = ordered.legal
      BY <2>2, <2>11, <3>1 DEF Filed
    <3>3. req'[r].pc \notin LegalPcs
      BY <2>11 DEF SettingsBegins, LegalPcs
    <3> QED
      BY <1>5, <2>1, <3>1, <3>2, <3>3 DEF Only
  <2> QED
    BY <1>8, <2>5, <2>6, <2>7, <2>8, <2>9, <2>10, <2>11, SettingsSteps
<1> QED
  BY <1>7, <1>8, OfficeMoves

LEMMA SavedAsAsked ==
    ASSUME SettingsShaped, CreatedInv, LegalInv
    PROVE  SettingsAsSaved
  BY DEF CreatedInv, LegalInv, SettingsAsSaved, Alike, Created, Legal

-----------------------------------------------------------------------------
(* Tickets.                                                                *)
Ticket(t) == DOMAIN t = {"status", "messages"} /\ t.status \in {"open", "resolved"} /\ t.messages \in Seq({"user", "admin"})
Counters == {"total", "open", "resolved"}
TicketLocal(l) ==
    /\ l.pc \in {"add_message", "resolve"} => l.ticket \in DOMAIN tickets
    /\ l.pc \in {"gather", "show_page"} => DOMAIN l.page = Counters
TicketsShaped ==
    /\ TicketsTyped
    /\ \A t \in DOMAIN tickets : Ticket(tickets[t])
    /\ \A r \in Reqs : TicketLocal(req[r])
    /\ RepliesKept

(* What the steps of a request about tickets do to it and to them.         *)
Opened ==
    /\ tickets' \in Seq(Range(tickets')) /\ Len(tickets') = Len(tickets) + 1
    /\ \A t \in DOMAIN tickets : tickets'[t] = tickets[t]
    /\ Ticket(tickets'[Len(tickets')]) /\ Len(tickets'[Len(tickets')].messages) = 1
Amended(i) ==
    /\ tickets' \in Seq(Range(tickets')) /\ Len(tickets') = Len(tickets)
    /\ \A t \in DOMAIN tickets \ {i} : tickets'[t] = tickets[t]
    /\ i \in DOMAIN tickets /\ Ticket(tickets'[i])

TicketBegins(r) ==
    /\ req[r].pc = "idle" /\ UNCHANGED tickets
    /\ req'[r].pc \in {"insert_ticket", "add_message", "resolve", "gather"} /\ TicketLocal(req[r])'
    /\ req'[r].pc = "gather" => \A w \in Counters : req'[r].page[w] = NULL

LEMMA TicketBegun ==
    ASSUME LocalsReady, TicketsShaped, NEW r \in Reqs, TicketsArrive(r)
    PROVE  TicketBegins(r)
<1>1. CASE BeginTicket(r)
  BY <1>1, Steps DEF BeginTicket, TicketBegins, TicketLocal
<1>2. CASE BeginManagementPage(r)
  <2>1. PICK page : page = [total |-> NULL, open |-> NULL, resolved |-> NULL]
    OBVIOUS
  <2>2. PICK l : l = [pc |-> "gather", page |-> page]
    OBVIOUS
  <2>3. Begin(r, l) /\ UNCHANGED tickets
    BY <1>2, <2>1, <2>2 DEF BeginManagementPage
  <2>4. DOMAIN page = Counters /\ \A w \in Counters : page[w] = NULL
    BY <2>1 DEF Counters
  <2> QED
    BY <2>2, <2>3, <2>4, Steps DEF TicketBegins, TicketLocal
<1>3. ASSUME NEW t \in DOMAIN tickets, BeginReply(r, t) \/ BeginResolve(r, t) PROVE TicketBegins(r)
  <2>1. PICK l : Begin(r, l) /\ l.pc \in {"add_message", "resolve"} /\ l.ticket = t
    BY <1>3 DEF BeginReply, BeginResolve
  <2>2. UNCHANGED tickets
    BY <1>3 DEF BeginReply, BeginResolve
  <2> QED
    BY <2>1, <2>2, Steps DEF TicketBegins, TicketLocal
<1> QED
  BY <1>1, <1>2, <1>3 DEF TicketsArrive

LEMMA TicketInserted ==
    ASSUME LocalsReady, TicketsShaped, NEW r \in Reqs, InsertTicket(r)
    PROVE  req[r].pc = "insert_ticket" /\ req'[r] = Idle /\ Opened
<1>1. PICK first : first = <<"user">>
  OBVIOUS
<1>2. PICK ticket : ticket = [status |-> "open", messages |-> first]
  OBVIOUS
<1>3. Ticket(ticket) /\ Len(ticket.messages) = 1
  BY <1>1, <1>2 DEF Ticket
<1>4. PICK ts : ts = tickets'
  OBVIOUS
<1>5. ts = Append(tickets, ticket)
  BY <1>1, <1>2, <1>4 DEF InsertTicket
<1>6. /\ ts \in Seq(Range(ts)) /\ Len(ts) = Len(tickets) + 1 /\ ts[Len(ts)] = ticket
      /\ \A t \in DOMAIN tickets : ts[t] = tickets[t]
  BY <1>5, Grown DEF TicketsShaped, TicketsTyped
<1> QED
  BY <1>3, <1>4, <1>6, Steps DEF InsertTicket, Opened, At

LEMMA OneEdited ==
    ASSUME TicketsShaped, NEW i \in DOMAIN tickets, NEW ticket, Ticket(ticket), tickets' = [tickets EXCEPT ![i] = ticket]
    PROVE  Amended(i) /\ tickets'[i] = ticket
<1>1. PICK ts : ts = tickets'
  OBVIOUS
<1>2. ts = [t \in DOMAIN ts |-> ts[t]] /\ DOMAIN ts = DOMAIN tickets
  BY <1>1
<1>3. ts \in Seq(Range(ts)) /\ Len(ts) = Len(tickets)
  BY <1>2, Altered DEF TicketsShaped, TicketsTyped
<1> QED
  BY <1>1, <1>3 DEF Amended

LEMMA TicketAnswered ==
    ASSUME LocalsReady, TicketsShaped, NEW r \in Reqs, AddMessage(r)
    PROVE  /\ req[r].pc = "add_message" /\ req'[r] = Idle /\ Amended(req[r].ticket)
           /\ Len(tickets'[req[r].ticket].messages) = Len(tickets[req[r].ticket].messages) + 1
<1>1. PICK i : i = req[r].ticket
  OBVIOUS
<1>2. req[r].pc = "add_message" /\ i \in DOMAIN tickets
  BY <1>1 DEF AddMessage, At, TicketsShaped, TicketLocal
<1>3. Ticket(tickets[i])
  BY <1>2 DEF TicketsShaped
<1>4. PICK messages : messages = Append(tickets[i].messages, "admin")
  OBVIOUS
<1>5. messages \in Seq({"user", "admin"}) /\ Len(messages) = Len(tickets[i].messages) + 1
  BY <1>3, <1>4 DEF Ticket
<1>6. PICK ticket : ticket = [tickets[i] EXCEPT !.messages = messages]
  OBVIOUS
<1>7. Ticket(ticket) /\ ticket.messages = messages
  BY <1>3, <1>5, <1>6 DEF Ticket
<1>8. tickets' = [tickets EXCEPT ![i] = ticket]
  BY <1>1, <1>4, <1>6 DEF AddMessage
<1>9. Amended(i) /\ tickets'[i] = ticket
  BY <1>2, <1>7, <1>8, OneEdited
<1> QED
  BY <1>1, <1>2, <1>5, <1>7, <1>9, Steps DEF AddMessage

LEMMA TicketResolved ==
    ASSUME LocalsReady, TicketsShaped, NEW r \in Reqs, ResolveTicket(r)
    PROVE  /\ req[r].pc = "resolve" /\ req'[r] = Idle /\ Amended(req[r].ticket)
           /\ tickets'[req[r].ticket].messages = tickets[req[r].ticket].messages
<1>1. PICK i : i = req[r].ticket
  OBVIOUS
<1>2. req[r].pc = "resolve" /\ i \in DOMAIN tickets
  BY <1>1 DEF ResolveTicket, At, TicketsShaped, TicketLocal
<1>3. Ticket(tickets[i])
  BY <1>2 DEF TicketsShaped
<1>4. PICK ticket : ticket = [tickets[i] EXCEPT !.status = "resolved"]
  OBVIOUS
<1>5. Ticket(ticket) /\ ticket.messages = tickets[i].messages
  BY <1>3, <1>4 DEF Ticket
<1>6. tickets' = [tickets EXCEPT ![i] = ticket]
  BY <1>1, <1>4 DEF ResolveTicket
<1>7. Amended(i) /\ tickets'[i] = ticket
  BY <1>2, <1>5, <1>6, OneEdited
<1> QED
  BY <1>1, <1>2, <1>5, <1>7, Steps DEF ResolveTicket

Gathers(r) ==
    /\ req[r].pc = "gather" /\ UNCHANGED tickets /\ req'[r].pc \in {"gather", "show_page"}
    /\ DOMAIN req'[r].page = Counters
    /\ \A w \in Counters : req'[r].page[w] \in {req[r].page[w], CountByStatus(w)}
    /\ req'[r].pc = "show_page" => \A w \in Counters : req'[r].page[w] # NULL

LEMMA PageGathered ==
    ASSUME LocalsReady, TicketsShaped, NEW r \in Reqs, Gather(r)
    PROVE  Gathers(r)
<1>1. req[r].pc = "gather" /\ UNCHANGED tickets
  BY DEF Gather, At
<1>2. DOMAIN req[r].page = Counters
  BY <1>1 DEF TicketsShaped, TicketLocal
<1>3. PICK what, page : /\ page = [req[r].page EXCEPT ![what] = CountByStatus(what)]
                        /\ Keep(r, [pc |-> IF NULL \in {page[w] : w \in DOMAIN page} THEN "gather" ELSE "show_page",
                                    page |-> page])
  BY DEF Gather
<1>4. DOMAIN page = Counters /\ \A w \in Counters : page[w] \in {req[r].page[w], CountByStatus(w)}
  BY <1>2, <1>3
<1>5. /\ req'[r].pc = IF NULL \in {page[w] : w \in DOMAIN page} THEN "gather" ELSE "show_page"
      /\ req'[r].page = page
  BY <1>3, Steps
<1> QED
  BY <1>1, <1>4, <1>5 DEF Gathers

LEMMA TicketSteps ==
    ASSUME LocalsReady, TicketsShaped, NEW r \in Reqs, OnTickets(r)
    PROVE  \/ TicketBegins(r)
           \/ req[r].pc = "insert_ticket" /\ req'[r] = Idle /\ Opened
           \/ /\ req[r].pc = "add_message" /\ req'[r] = Idle /\ Amended(req[r].ticket)
              /\ Len(tickets'[req[r].ticket].messages) = Len(tickets[req[r].ticket].messages) + 1
           \/ /\ req[r].pc = "resolve" /\ req'[r] = Idle /\ Amended(req[r].ticket)
              /\ tickets'[req[r].ticket].messages = tickets[req[r].ticket].messages
           \/ Gathers(r)
           \/ req[r].pc = "show_page" /\ req'[r] = Idle /\ UNCHANGED tickets
  BY TicketBegun, TicketInserted, TicketAnswered, TicketResolved, PageGathered, Steps
     DEF OnTickets, TicketsStep, ShowPage, At

LEMMA Joined ==
    ASSUME NEW s \in Seq(Nat), NEW more \in Seq(Nat), Len(more) = 1
    PROVE  /\ s \o more \in Seq(Nat) /\ Len(s \o more) = Len(s) + 1
           /\ (s \o more)[Len(s) + 1] = more[1]
           /\ \A i \in 1 .. Len(s) : (s \o more)[i] = s[i]
<1>1. Len(s) \in Nat
  OBVIOUS
<1>2. PICK both : both = s \o more
  OBVIOUS
<1>3. /\ both \in Seq(Nat) /\ Len(both) = Len(s) + Len(more)
      /\ \A i \in 1 .. Len(s) + Len(more) : both[i] = IF i <= Len(s) THEN s[i] ELSE more[i - Len(s)]
  BY <1>2, ConcatProperties, Zenon
<1>4. /\ Len(both) = Len(s) + 1 /\ both[Len(s) + 1] = more[1]
      /\ \A i \in 1 .. Len(s) : both[i] = s[i]
  BY <1>1, <1>3
<1> QED
  BY <1>2, <1>3, <1>4

LEMMA RepliesAfter ==
    ASSUME LocalsReady, TicketsShaped, HNext, NEW r \in Reqs, OnTickets(r)
    PROVE  /\ ordered'.replies \in Seq(Nat)
           /\ UNCHANGED tickets => ordered'.replies = ordered.replies
           /\ req[r].pc = "insert_ticket" /\ Opened =>
                 /\ Len(ordered'.replies) = Len(tickets')
                 /\ \A t \in DOMAIN tickets : ordered'.replies[t] = ordered.replies[t]
                 /\ ordered'.replies[Len(tickets')] = 0
           /\ req[r].pc = "resolve" /\ Amended(req[r].ticket) => ordered'.replies = ordered.replies
           /\ req[r].pc = "add_message" /\ Amended(req[r].ticket) /\ tickets' # tickets =>
                 /\ Len(ordered'.replies) = Len(tickets)
                 /\ \A t \in DOMAIN tickets :
                       ordered'.replies[t] = ordered.replies[t] + (IF t = req[r].ticket THEN 1 ELSE 0)
<1>1. Only(r) /\ req[r].pc \in {"idle"} \cup TicketPcs
  BY TicketsPart DEF Part
<1>2. OrderedNext
  BY DEF HNext
<1>3. officeVars' = officeVars => tickets' = tickets
  BY DEF officeVars, ticketVars
<1>4. /\ tickets \in Seq(Range(tickets)) /\ ordered.replies \in Seq(Nat) /\ Len(ordered.replies) = Len(tickets)
      /\ Len(tickets) \in Nat /\ DOMAIN tickets = 1 .. Len(tickets)
  BY DEF TicketsShaped, TicketsTyped, RepliesKept
<1>5. \/ ordered'.replies = ordered.replies /\ (req'[r] = req[r] \/ officeVars' = officeVars)
      \/ ordered'.replies = IF req[r].pc = "add_message"
                            THEN [ordered.replies EXCEPT ![req[r].ticket] = @ + 1]
                            ELSE ordered.replies \o NewReplies
  BY <1>1, <1>2, OrderedBy DEF Only, SameWishes, At
<1>6. Len(tickets') = Len(tickets) => ordered.replies \o NewReplies = ordered.replies
  <2>1. ASSUME Len(tickets') = Len(tickets) PROVE NewReplies = << >>
    <3>1. PICK n : n = Len(tickets') - Len(tickets)
      OBVIOUS
    <3>2. n = 0
      BY <1>4, <2>1, <3>1
    <3>3. NewReplies = [t \in 1 .. n |-> 0]
      BY <3>1 DEF NewReplies
    <3> QED
      BY <3>2, <3>3
  <2> QED
    BY <1>4, <2>1
<1>7. ASSUME UNCHANGED tickets PROVE ordered'.replies = ordered.replies
  <2>1. req[r].pc = "add_message" /\ req'[r] # req[r] => tickets' # tickets
    BY <1>4, <1>7, TicketSteps, Idles DEF Amended, TicketBegins, Gathers, TicketsShaped, Ticket
  <2>2. req[r].pc = "add_message" => req'[r] # req[r]
    BY TicketSteps, Idles DEF TicketBegins, Gathers
  <2> QED
    BY <1>5, <1>6, <1>7, <2>1, <2>2
<1>8. ASSUME req[r].pc = "insert_ticket", Opened
      PROVE  /\ ordered'.replies \in Seq(Nat) /\ Len(ordered'.replies) = Len(tickets')
             /\ \A t \in DOMAIN tickets : ordered'.replies[t] = ordered.replies[t]
             /\ ordered'.replies[Len(tickets')] = 0
  <2>1. Len(tickets') = Len(tickets) + 1 /\ tickets' # tickets
    BY <1>4, <1>8 DEF Opened
  <2>2. req'[r] # req[r]
    BY <1>8, TicketSteps, Idles DEF TicketBegins, Gathers
  <2>3. PICK more : more = NewReplies
    OBVIOUS
  <2>4. more = [t \in 1 .. 1 |-> 0]
    BY <1>4, <2>1, <2>3 DEF NewReplies
  <2>5. more \in Seq(Nat) /\ Len(more) = 1 /\ more[1] = 0
    BY <2>4
  <2>6. ordered'.replies = ordered.replies \o more
    BY <1>3, <1>5, <1>8, <2>1, <2>2, <2>3
  <2>7. /\ ordered'.replies \in Seq(Nat) /\ Len(ordered'.replies) = Len(tickets) + 1
        /\ ordered'.replies[Len(tickets) + 1] = 0
    <3>1. PICK s : s = ordered.replies
      OBVIOUS
    <3>2. /\ s \o more \in Seq(Nat) /\ Len(s \o more) = Len(s) + 1
          /\ (s \o more)[Len(s) + 1] = more[1]
      BY <1>4, <2>5, <3>1, Joined, Zenon
    <3> QED
      BY <1>4, <2>5, <2>6, <3>1, <3>2
  <2>8. \A t \in DOMAIN tickets : ordered'.replies[t] = ordered.replies[t]
    BY <1>4, <2>5, <2>6, Joined
  <2> QED
    BY <2>1, <2>7, <2>8
<1>9. ASSUME req[r].pc = "resolve", Amended(req[r].ticket)
      PROVE  ordered'.replies = ordered.replies
  BY <1>5, <1>6, <1>9 DEF Amended
<1>10. ASSUME req[r].pc = "add_message", Amended(req[r].ticket), tickets' # tickets
       PROVE  /\ ordered'.replies \in Seq(Nat) /\ Len(ordered'.replies) = Len(tickets)
              /\ \A t \in DOMAIN tickets :
                    ordered'.replies[t] = ordered.replies[t] + (IF t = req[r].ticket THEN 1 ELSE 0)
  <2>1. req'[r] # req[r]
    BY <1>10, TicketSteps, Idles DEF TicketBegins, Gathers
  <2>2. PICK i : i = req[r].ticket
    OBVIOUS
  <2>3. ordered'.replies = [ordered.replies EXCEPT ![i] = @ + 1] /\ i \in DOMAIN tickets
    BY <1>3, <1>5, <1>10, <2>1, <2>2 DEF Amended
  <2>4. ordered'.replies \in Seq(Nat) /\ Len(ordered'.replies) = Len(ordered.replies)
    BY <1>4, <2>3
  <2>5. \A t \in DOMAIN tickets : ordered.replies[t] \in Nat
    BY <1>4
  <2>6. \A t \in DOMAIN tickets : ordered'.replies[t] = ordered.replies[t] + (IF t = i THEN 1 ELSE 0)
    BY <1>4, <2>3, <2>5
  <2> QED
    BY <1>4, <2>2, <2>4, <2>6
<1>11. ordered'.replies \in Seq(Nat)
  <2>1. CASE UNCHANGED tickets
    BY <1>4, <1>7, <2>1
  <2>2. CASE tickets' # tickets
    BY <1>4, <1>8, <1>9, <1>10, <2>2, TicketSteps DEF TicketBegins, Gathers
  <2> QED
    BY <2>1, <2>2
<1> QED
  BY <1>7, <1>8, <1>9, <1>10, <1>11

LEMMA TicketsShapedKept ==
    ASSUME LocalsReady, CouponsInv, PricesInv, PlansShaped, TicketsShaped, HNext
    PROVE  TicketsShaped'
<1>1. /\ tickets \in Seq(Range(tickets)) /\ ordered.replies \in Seq(Nat) /\ Len(ordered.replies) = Len(tickets)
      /\ Len(tickets) \in Nat /\ DOMAIN tickets = 1 .. Len(tickets)
      /\ \A t \in DOMAIN tickets : Ticket(tickets[t]) /\ Len(tickets[t].messages) = 1 + ordered.replies[t]
      /\ \A r \in Reqs : TicketLocal(req[r])
  BY DEF TicketsShaped, TicketsTyped, RepliesKept
<1>2. ASSUME TicketsLeft PROVE TicketsShaped'
  <2>1. ASSUME NEW q \in Reqs PROVE TicketLocal(req[q])'
    <3>1. CASE req'[q] = req[q]
      BY <1>1, <1>2, <3>1 DEF TicketsLeft, TicketLocal
    <3>2. CASE req'[q] # req[q]
      BY <1>2, <3>2 DEF TicketsLeft, Off, TicketLocal, TicketPcs
    <3> QED
      BY <3>1, <3>2
  <2> QED
    BY <1>1, <1>2, <2>1 DEF TicketsLeft, TicketsShaped, TicketsTyped, RepliesKept
<1>3. ASSUME NEW r \in Reqs, OnTickets(r) PROVE TicketsShaped'
  <2>1. Only(r)
    BY <1>3, TicketsPart DEF Part
  <2> DEFINE Tidy == /\ tickets' \in Seq(Range(tickets')) /\ Len(ordered'.replies) = Len(tickets')
                     /\ DOMAIN tickets \subseteq DOMAIN tickets'
                     /\ \A t \in DOMAIN tickets' :
                           Ticket(tickets'[t]) /\ Len(tickets'[t].messages) = 1 + ordered'.replies[t]
  <2>2. ASSUME UNCHANGED tickets PROVE Tidy
    BY <1>1, <1>3, <2>2, RepliesAfter
  <2>3. ASSUME req[r].pc = "insert_ticket", Opened PROVE Tidy
    <3>1. PICK n : n = Len(tickets')
      OBVIOUS
    <3>2. n = Len(tickets) + 1 /\ DOMAIN tickets' = 1 .. n
      BY <1>1, <2>3, <3>1 DEF Opened
    <3>3. ASSUME NEW t \in DOMAIN tickets' PROVE t \in DOMAIN tickets \/ t = n
      BY <1>1, <3>2
    <3>4. /\ Len(ordered'.replies) = n /\ ordered'.replies[n] = 0
          /\ \A t \in DOMAIN tickets : ordered'.replies[t] = ordered.replies[t]
      BY <1>3, <2>3, <3>1, RepliesAfter
    <3>5. Ticket(tickets'[n]) /\ Len(tickets'[n].messages) = 1 + ordered'.replies[n]
      BY <2>3, <3>1, <3>4 DEF Opened
    <3>6. \A t \in DOMAIN tickets : Ticket(tickets'[t]) /\ Len(tickets'[t].messages) = 1 + ordered'.replies[t]
      BY <1>1, <2>3, <3>4 DEF Opened
    <3>7. tickets' \in Seq(Range(tickets')) /\ DOMAIN tickets \subseteq DOMAIN tickets'
      BY <1>1, <2>3, <3>2 DEF Opened
    <3> QED
      BY <3>1, <3>3, <3>4, <3>5, <3>6, <3>7
  <2>4. ASSUME /\ req[r].pc = "add_message" /\ Amended(req[r].ticket)
               /\ Len(tickets'[req[r].ticket].messages) = Len(tickets[req[r].ticket].messages) + 1
        PROVE  Tidy
    <3>1. PICK i : i = req[r].ticket /\ i \in DOMAIN tickets
      BY <2>4 DEF Amended
    <3>2. ordered.replies[i] \in Nat
      BY <1>1, <3>1
    <3>3. tickets' # tickets
      BY <1>1, <2>4, <3>1, <3>2
    <3>4. DOMAIN tickets' = DOMAIN tickets
      BY <1>1, <2>4 DEF Amended
    <3>5. \A t \in DOMAIN tickets \ {i} : ordered.replies[t] \in Nat /\ ordered'.replies[t] = ordered.replies[t]
      <4>1. \A t \in DOMAIN tickets : ordered.replies[t] \in Nat
        BY <1>1
      <4>2. \A t \in DOMAIN tickets :
               ordered'.replies[t] = ordered.replies[t] + (IF t = i THEN 1 ELSE 0)
        BY <1>3, <2>4, <3>1, <3>3, RepliesAfter
      <4> QED
        BY <4>1, <4>2
    <3>6. ordered'.replies[i] = ordered.replies[i] + 1 /\ Len(ordered'.replies) = Len(tickets)
      BY <1>3, <2>4, <3>1, <3>3, RepliesAfter
    <3>7. Len(tickets'[i].messages) = 1 + ordered'.replies[i]
      <4>1. Len(tickets[i].messages) = 1 + ordered.replies[i]
        BY <1>1, <3>1
      <4>2. Len(tickets'[i].messages) = Len(tickets[i].messages) + 1
        BY <2>4, <3>1
      <4> QED
        BY <3>2, <3>6, <4>1, <4>2
    <3> QED
      BY <1>1, <2>4, <3>1, <3>4, <3>5, <3>6, <3>7 DEF Amended
  <2>5. ASSUME /\ req[r].pc = "resolve" /\ Amended(req[r].ticket)
               /\ tickets'[req[r].ticket].messages = tickets[req[r].ticket].messages
        PROVE  Tidy
    <3>1. ordered'.replies = ordered.replies
      BY <1>3, <2>5, RepliesAfter
    <3>2. DOMAIN tickets' = DOMAIN tickets
      BY <1>1, <2>5 DEF Amended
    <3>3. PICK i : i = req[r].ticket /\ i \in DOMAIN tickets
      BY <2>5 DEF Amended
    <3> QED
      BY <1>1, <2>5, <3>1, <3>2, <3>3 DEF Amended
  <2>6. Tidy
    <3> HIDE DEF Tidy
    <3> QED
      BY <1>3, <2>2, <2>3, <2>4, <2>5, TicketSteps DEF TicketBegins, Gathers
  <2>7. TicketLocal(req[r])'
    <3>1. Gathers(r) => TicketLocal(req[r])'
      BY DEF Gathers, TicketLocal
    <3>2. req'[r] = Idle => TicketLocal(req[r])'
      BY Idles DEF TicketLocal
    <3> QED
      BY <1>3, <3>1, <3>2, TicketSteps DEF TicketBegins
  <2>8. ASSUME NEW q \in Reqs \ {r} PROVE TicketLocal(req[q])'
    BY <1>1, <2>1, <2>6 DEF Only, TicketLocal
  <2>9. ordered'.replies \in Seq(Nat)
    BY <1>3, RepliesAfter
  <2> QED
    BY <2>6, <2>7, <2>8, <2>9 DEF TicketsShaped, TicketsTyped, RepliesKept
<1> QED
  BY <1>2, <1>3, OfficeMoves DEF TicketsShaped

(* A page that nobody has met holds the counts of the tickets there are.   *)
Counts(l) ==
    l.pc \in {"gather", "show_page"} =>
       /\ \A w \in Counters : l.page[w] \in {NULL, CountByStatus(w)}
       /\ l.pc = "show_page" => \A w \in Counters : l.page[w] # NULL
PageInv == \A r \in Reqs \ met : Counts(req[r])

LEMMA PageKept ==
    ASSUME LocalsReady, CouponsInv, PricesInv, PlansShaped, TicketsShaped, ExpiryInv, PageInv, HNext
    PROVE  PageInv'
<1>1. \A r \in Reqs \ met' : ~At(r, "idle")' => r \notin met
  BY MetAfter DEF HNext
<1>2. \A r, q \in Reqs : r # q /\ ~At(r, "idle") /\ ~At(q, "idle") => r \in met
  BY DEF ExpiryInv
<1>3. SUFFICES ASSUME NEW r \in Reqs, r \notin met', req'[r].pc \in {"gather", "show_page"} PROVE Counts(req[r])'
  BY DEF PageInv, Counts
<1>4. r \notin met
  BY <1>1, <1>3 DEF At
<1>5. Counts(req[r])
  BY <1>4 DEF PageInv
<1>6. UNCHANGED tickets => \A w : CountByStatus(w)' = CountByStatus(w)
  BY DEF CountByStatus, WithStatus
<1>7. UNCHANGED tickets /\ req'[r] = req[r] => Counts(req[r])'
  BY <1>5, <1>6 DEF Counts
<1>8. CASE TicketsLeft
  BY <1>3, <1>7, <1>8 DEF TicketsLeft, Off, TicketPcs
<1>9. ASSUME NEW p \in Reqs, OnTickets(p) PROVE Counts(req[r])'
  <2>1. Only(p)
    BY <1>9, TicketsPart DEF Part
  <2>2. CASE p # r
    <3>1. req'[r] = req[r] /\ ~At(r, "idle")
      BY <1>3, <2>1, <2>2 DEF Only, At
    <3>2. At(p, "idle")
      BY <1>2, <1>4, <2>2, <3>1
    <3>3. UNCHANGED tickets
      BY <1>9, <3>2, TicketSteps DEF At, TicketBegins, Gathers, TicketsShaped
    <3> QED
      BY <1>7, <3>1, <3>3
  <2>3. CASE p = r
    <3>1. CASE TicketBegins(r)
      BY <1>3, <3>1 DEF TicketBegins, Counts
    <3>2. CASE Gathers(r)
      <4>1. \A w \in Counters : req[r].page[w] \in {NULL, CountByStatus(w)}
        BY <1>5, <3>2 DEF Gathers, Counts
      <4>2. \A w \in Counters : req'[r].page[w] \in {NULL, CountByStatus(w)'}
        BY <1>6, <3>2, <4>1 DEF Gathers
      <4> QED
        BY <3>2, <4>2 DEF Gathers, Counts
    <3>3. req'[r] # Idle
      BY <1>3, Idles
    <3> QED
      BY <1>9, <2>3, <3>1, <3>2, <3>3, TicketSteps DEF TicketsShaped
  <2> QED
    BY <2>2, <2>3
<1> QED
  BY <1>8, <1>9, OfficeMoves DEF TicketsShaped

LEMMA PagesAddUp ==
    ASSUME TicketsShaped, PageInv
    PROVE  TicketsAddUp
<1>1. PICK open, resolved : open = WithStatus("open") /\ resolved = WithStatus("resolved")
  OBVIOUS
<1>2. Len(tickets) \in Nat /\ DOMAIN tickets = 1 .. Len(tickets)
  BY DEF TicketsShaped, TicketsTyped
<1>3. open \cup resolved = DOMAIN tickets /\ open \cap resolved = {}
  <2>1. \A t \in DOMAIN tickets : tickets[t].status = "open" \/ tickets[t].status = "resolved"
    BY DEF TicketsShaped, Ticket
  <2>2. open = {t \in DOMAIN tickets : tickets[t].status = "open"}
    BY <1>1 DEF WithStatus
  <2>3. resolved = {t \in DOMAIN tickets : tickets[t].status = "resolved"}
    BY <1>1 DEF WithStatus
  <2> QED
    BY <2>1, <2>2, <2>3
<1>4. IsFiniteSet(DOMAIN tickets) /\ Cardinality(DOMAIN tickets) = Len(tickets)
  <2>1. PICK n \in Nat : n = Len(tickets)
    BY <1>2
  <2>2. IsFiniteSet(1 .. n) /\ Cardinality(1 .. n) = n
    BY FS_Interval
  <2> QED
    BY <1>2, <2>1, <2>2
<1>5. IsFiniteSet(open) /\ IsFiniteSet(resolved)
  BY <1>3, <1>4, FS_Subset
<1>6. Cardinality(open) \in Nat /\ Cardinality(resolved) \in Nat /\ Cardinality(open \cap resolved) = 0
  BY <1>3, <1>5, FS_CardinalityType, FS_EmptySet
<1>7. Cardinality(open \cup resolved) = Cardinality(open) + Cardinality(resolved) - Cardinality(open \cap resolved)
  <2>1. \A a, b : IsFiniteSet(a) /\ IsFiniteSet(b) =>
           Cardinality(a \cup b) = Cardinality(a) + Cardinality(b) - Cardinality(a \cap b)
    BY FS_Union
  <2> QED
    BY <1>5, <2>1
<1>8. Cardinality(open) + Cardinality(resolved) = Len(tickets)
  BY <1>3, <1>4, <1>6, <1>7
<1>9. ASSUME NEW r \in Reqs \ met, At(r, "show_page")
      PROVE  req[r].page.open + req[r].page.resolved = req[r].page.total
  <2>1. \A w \in Counters : req[r].page[w] = CountByStatus(w)
    BY <1>9 DEF PageInv, Counts, At
  <2>2. req[r].page["open"] = Cardinality(open) /\ req[r].page["resolved"] = Cardinality(resolved)
        /\ req[r].page["total"] = Len(tickets)
    BY <1>1, <2>1 DEF Counters, CountByStatus
  <2> QED
    BY <1>8, <2>2
<1> QED
  BY <1>9 DEF TicketsAddUp

-----------------------------------------------------------------------------
OfficeInv ==
    /\ PlansShaped /\ AloneInv /\ BestInv /\ NamesInv
    /\ SettingsShaped /\ CreatedInv /\ LegalInv
    /\ TicketsShaped /\ PageInv

LEMMA OfficeStarts == HInit => OfficeInv
<1> SUFFICES ASSUME HInit PROVE OfficeInv
  OBVIOUS
<1>1. DeskInit /\ mixed = {} /\ stopped \cap {PlanWork} = {}
  BY DEF HInit, PlanWork, TheMessage
<1>2. \A r \in Reqs : req[r] = Idle /\ req[r].pc = "idle"
  BY <1>1, Idles DEF DeskInit, RequestsInit
<1>3. PlansShaped /\ Differ /\ DOMAIN plans = {1}
  <2>1. PICK key : key = [singleton_key |-> "default_plan"]
    OBVIOUS
  <2>2. DOMAIN key = {"singleton_key"}
    BY <2>1
  <2>3. PICK plan : plan = With(DefaultPlan, key)
    OBVIOUS
  <2>4. {"name", "best"} \subseteq DOMAIN DefaultPlan /\ DefaultPlan.best \in BOOLEAN
    BY FormsAssumption
  <2>5. {"name", "best"} \subseteq DOMAIN plan /\ plan.best \in BOOLEAN
    BY <2>2, <2>3, <2>4, WithSo
  <2>6. plans = <<plan>>
    BY <1>1, <2>1, <2>3 DEF DeskInit, PlansInit
  <2>7. DOMAIN plans = {1} /\ plans[1] = plan
    BY <2>6
  <2> QED
    BY <1>2, <2>5, <2>7 DEF PlansShaped, PlanLocal, PlanPcs, Differ
<1>4. AloneInv /\ NamesInv
  BY <1>2, <1>3 DEF AloneInv, NamesInv, Free, PlanPcs
<1>5. BestInv
  <2>1. ordered.best = Flagged
    BY DEF HInit
  <2> QED
    BY <1>2, <2>1 DEF BestInv, BestOK, Knows
<1>6. /\ ordered.replies = <<>> /\ DOMAIN ordered.legal = LegalDocuments
      /\ ordered.general = IF settings = <<>> THEN "default" ELSE settings[1].general
      /\ \A k \in LegalDocuments : ordered.legal[k] = IF settings = <<>> THEN "default" ELSE settings[1].legal[k]
  BY DEF HInit
<1>7. /\ settings \in Seq(Range(settings)) /\ Len(settings) <= 1
      /\ \A i \in DOMAIN settings : Document(settings[i])
  BY <1>1, SettingsAssumption DEF DeskInit, BackOfficeInit, Document
<1>8. SettingsShaped
  BY <1>2, <1>6, <1>7 DEF SettingsShaped, SettingsLocal, SettingsPcs
<1>9. CreatedInv /\ LegalInv
  BY <1>2, <1>6, <1>7 DEF CreatedInv, LegalInv, LegalPcs, Alike
<1>10. tickets = <<>>
  BY <1>1 DEF DeskInit, BackOfficeInit
<1>11. TicketsShaped /\ PageInv
  BY <1>2, <1>6, <1>10 DEF TicketsShaped, TicketsTyped, TicketLocal, RepliesKept, PageInv, Counts
<1> QED
  BY <1>3, <1>4, <1>5, <1>8, <1>9, <1>11 DEF OfficeInv

LEMMA OfficeKept == DeskInv /\ OfficeInv /\ [HNext]_vars => OfficeInv'
<1> SUFFICES ASSUME DeskInv, OfficeInv, [HNext]_vars PROVE OfficeInv'
  OBVIOUS
<1>1. CASE HNext
  <2>1. LocalsReady /\ CouponsInv /\ PricesInv /\ ExpiryInv /\ LocalsReady'
    BY DeskKept DEF DeskInv
  <2>2. /\ PlansShaped /\ AloneInv /\ BestInv /\ NamesInv /\ SettingsShaped /\ CreatedInv /\ LegalInv
        /\ TicketsShaped /\ PageInv /\ TicketsTyped
    BY DEF OfficeInv, TicketsShaped
  <2>3. PlansShaped'
    BY <1>1, <2>1, <2>2, ShapedKept
  <2>4. AloneInv'
    BY <1>1, <2>1, <2>3, AloneKept
  <2>5. BestInv'
    BY <1>1, <2>1, <2>2, <2>3, <2>4, BestKept
  <2>6. NamesInv'
    BY <1>1, <2>1, <2>2, <2>4, NamesKept
  <2>7. SettingsShaped'
    BY <1>1, <2>1, <2>2, SettingsShapedKept
  <2>8. CreatedInv'
    BY <1>1, <2>1, <2>2, <2>7, CreatedKept
  <2>9. LegalInv'
    BY <1>1, <2>1, <2>2, <2>7, LegalKept
  <2>10. TicketsShaped'
    BY <1>1, <2>1, <2>2, TicketsShapedKept
  <2>11. PageInv'
    BY <1>1, <2>1, <2>2, PageKept
  <2> QED
    BY <2>3, <2>4, <2>5, <2>6, <2>7, <2>8, <2>9, <2>10, <2>11 DEF OfficeInv
<1>2. CASE UNCHANGED vars
  <2>1. UNCHANGED <<req, plans, settings, tickets, ordered, mixed, stopped, met>>
    BY <1>2 DEF vars, deskVars, historyVars, officeVars, settingsVars, ticketVars
  <2>2. PlansShaped' /\ AloneInv'
    BY <2>1 DEF OfficeInv, PlansShaped, PlanLocal, AloneInv
  <2>3. BestInv'
    BY <2>1 DEF OfficeInv, BestInv, BestOK, DefaultToo, Flagged, Knows, Asks
  <2>4. NamesInv'
    BY <2>1 DEF OfficeInv, NamesInv, Differ, Free, Taken, Excused
  <2>5. SettingsShaped'
    BY <2>1 DEF OfficeInv, SettingsShaped, SettingsLocal
  <2>6. CreatedInv' /\ LegalInv'
    BY <2>1 DEF OfficeInv, CreatedInv, LegalInv
  <2>7. TicketsShaped'
    BY <2>1 DEF OfficeInv, TicketsShaped, TicketsTyped, TicketLocal, RepliesKept
  <2>8. PageInv'
    BY <2>1 DEF OfficeInv, PageInv, Counts, CountByStatus, WithStatus
  <2> QED
    BY <2>2, <2>3, <2>4, <2>5, <2>6, <2>7, <2>8 DEF OfficeInv
<1> QED
  BY <1>1, <1>2

(* The best plan is the one asked for last, no two plans have one name,    *)
(* and a subscriber of the default plan is counted with its price, unless  *)
(* two requests changed plans at once or one left its change half done     *)
(* (create_plan and update_plan, which clear the flag of other plans       *)
(* before they write; ensure_default_subscription_plan; get_overview).     *)
THEOREM PlansStand == HSpec => []PlansAsAsked
<1>1. DeskInv /\ OfficeInv => PlansAsAsked
  BY BestAsAsked, NamesDiffer, Counted DEF DeskInv, OfficeInv, PlansAsAsked
<1>2. HInit => DeskInv /\ OfficeInv
  BY DeskStarts, OfficeStarts
<1>3. DeskInv /\ OfficeInv /\ [HNext]_vars => DeskInv' /\ OfficeInv'
  BY DeskKept, OfficeKept
<1> QED
  BY <1>1, <1>2, <1>3, PTL DEF HSpec

(* Settings and legal documents are as last saved, unless two requests     *)
(* created the settings, or wrote the documents, at once; every reply      *)
(* stays in its ticket, whoever replies or resolves at the same time; and  *)
(* the counters of a page add up unless other requests ran while it was    *)
(* read (get_settings_document, update_legal_document, add_message,        *)
(* get_management_page).                                                   *)
THEOREM OfficeStands == HSpec => []OfficeAsAsked
<1>1. DeskInv /\ OfficeInv => OfficeAsAsked
  BY SavedAsAsked, PagesAddUp DEF OfficeInv, OfficeAsAsked, TicketsShaped
<1>2. HInit => DeskInv /\ OfficeInv
  BY DeskStarts, OfficeStarts
<1>3. DeskInv /\ OfficeInv /\ [HNext]_vars => DeskInv' /\ OfficeInv'
  BY DeskKept, OfficeKept
<1> QED
  BY <1>1, <1>2, <1>3, PTL DEF HSpec
=============================================================================
