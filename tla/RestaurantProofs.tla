-------------------------- MODULE RestaurantProofs --------------------------
(***************************************************************************)
(* Promises of the desk for any number of requests at once, whatever they  *)
(* are: an inventory item is what its requests asked for and has the one   *)
(* expense that goes with it (ItemsFollow); what an item is called is in   *)
(* the lists the apps choose from (NamesAreThere); the pushes a user gets  *)
(* go where, and in the language, the newest list and settings of the user *)
(* say (PushesFollow); and every record is what its type says (DeskTyped). *)
(*                                                                         *)
(* A worker that goes from an item on to its names and its expense knows   *)
(* what it wrote, and the item is its own (Agrees); a name an item has is  *)
(* listed or still ahead of the worker that brought it (NameInv); a copy   *)
(* of the user that a worker carries is the user's record until somebody   *)
(* else writes that record (NoticeInv).                                    *)
(***************************************************************************)
EXTENDS DeskProofs

(* The requests that work on an item, and those on the way to one.         *)
LooksUp == {"find_name", "insert_name"}
SpendPcs == LooksUp \cup {"find_expense", "insert_expense", "update_expense"}
PushPcs == {"push_item", "push_low_stock"}
EditPcs == {"write_stock", "write_item", "delete_expense", "delete_item"}
ItemPcs == SpendPcs \cup PushPcs \cup EditPcs \cup {"answer"}
TenantPcs == SpendPcs \cup PushPcs \cup EditPcs \cup {"insert_item"}

Out(l) == "id" \notin DOMAIN l /\ l.pc \notin TenantPcs
IdsHeld == \A r \in Reqs : "id" \in DOMAIN req[r] => req[r].pc \in ItemPcs

LEMMA OutIdle == Out(Idle)
  BY DEF Out, Idle, TenantPcs, SpendPcs, LooksUp, PushPcs, EditPcs

LEMMA OutFrom ==
    ASSUME IdsHeld, NEW r \in Reqs, req[r].pc \notin ItemPcs \cup TenantPcs
    PROVE  Out(req[r])
  BY DEF IdsHeld, Out

(* How a request that is out stays out.                                    *)
StaysOut(r) ==
    \/ \E l : (Begin(r, l) \/ Keep(r, l)) /\ Out(l)
    \/ Done(r)
    \/ \E p : Goto(r, p) /\ p \notin TenantPcs

BeginsOut(r) == \E l : Begin(r, l) /\ Out(l)

LEMMA BegunOut ==
    ASSUME NEW r \in Reqs, BeginsOut(r)
    PROVE  At(r, "idle") /\ StaysOut(r)
  BY DEF BeginsOut, StaysOut, Begin

LEMMA OutSo ==
    ASSUME LocalsReady, NEW r \in Reqs, StaysOut(r), Out(req[r]) \/ \A p : ~Goto(r, p)
    PROVE  Out(req'[r]) /\ \A q \in Reqs \ {r} : req'[q] = req[q]
<1>1. ASSUME NEW l, Begin(r, l) \/ Keep(r, l), Out(l)
      PROVE  Out(req'[r]) /\ \A q \in Reqs \ {r} : req'[q] = req[q]
  BY <1>1, Steps
<1>2. ASSUME NEW p, Goto(r, p), p \notin TenantPcs, Out(req[r])
      PROVE  Out(req'[r]) /\ \A q \in Reqs \ {r} : req'[q] = req[q]
  BY <1>2, Steps DEF Out
<1> QED
  BY <1>1, <1>2, Steps, OutIdle DEF StaysOut

(* The office, which is far from the notices too.                          *)
NoticePcs == {"write_devices", "write_settings", "insert_alert", "push_alert"} \cup AlertNexts \cup Generating
Afar(l) == Out(l) /\ l.pc \notin NoticePcs
StaysAfar(r) ==
    \/ \E l : (Begin(r, l) \/ Keep(r, l)) /\ Afar(l)
    \/ Done(r)
    \/ \E p : Goto(r, p) /\ p \notin TenantPcs \cup NoticePcs
BeginsAfar(r) == \E l : Begin(r, l) /\ Afar(l)

LEMMA AfarFrom ==
    ASSUME IdsHeld, NEW r \in Reqs, req[r].pc \notin ItemPcs \cup TenantPcs \cup NoticePcs
    PROVE  Afar(req[r])
  BY OutFrom DEF Afar

LEMMA BegunAfar ==
    ASSUME NEW r \in Reqs, BeginsAfar(r)
    PROVE  At(r, "idle") /\ StaysAfar(r)
  BY DEF BeginsAfar, StaysAfar, Begin

LEMMA AfarOut ==
    ASSUME NEW r \in Reqs, Afar(req[r]) \/ At(r, "idle"), StaysAfar(r)
    PROVE  (Out(req[r]) \/ At(r, "idle")) /\ StaysOut(r)
  BY DEF StaysAfar, StaysOut, Afar

LEMMA PlansAfar ==
    ASSUME LocalsReady, IdsHeld, NEW r \in Reqs, PlansArrive(r) \/ PlansStep(r)
    PROVE  (Afar(req[r]) \/ At(r, "idle")) /\ StaysAfar(r)
<1> USE DEF ItemPcs, TenantPcs, SpendPcs, LooksUp, PushPcs, EditPcs, NoticePcs, AlertNexts, Generating, Slept
<1>1. CASE PlansArrive(r)
  <2>1. ASSUME NEW form, BeginCreatePlan(r, form) PROVE StaysAfar(r)
    <3>1. PICK l : l = [pc |-> AfterCheck(form.best, "insert_plan"), plan |-> 0, form |-> form, next |-> "insert_plan"]
      OBVIOUS
    <3>2. l.pc \in {"read_best", "insert_plan"} /\ "id" \notin DOMAIN l
      BY <3>1 DEF AfterCheck
    <3> QED
      BY <2>1, <3>1, <3>2 DEF BeginCreatePlan, StaysAfar, Afar, Out
  <2>2. ASSUME NEW i, NEW updates, BeginUpdatePlan(r, i, updates) PROVE StaysAfar(r)
    <3>1. PICK l : l = [pc |-> AfterCheck("best" \in DOMAIN updates /\ updates.best, "write_plan"),
                        plan |-> i, form |-> updates, next |-> "write_plan"]
      OBVIOUS
    <3>2. l.pc \in {"read_best", "write_plan"} /\ "id" \notin DOMAIN l
      BY <3>1 DEF AfterCheck
    <3> QED
      BY <2>2, <3>1, <3>2 DEF BeginUpdatePlan, StaysAfar, Afar, Out
  <2>3. BeginStart(r) => StaysAfar(r)
    BY DEF BeginStart, StaysAfar, Afar, Out
  <2>4. At(r, "idle")
    BY <1>1 DEF PlansArrive, BeginCreatePlan, BeginUpdatePlan, BeginStart, Begin
  <2> QED
    BY <1>1, <2>1, <2>2, <2>3, <2>4 DEF PlansArrive
<1>2. CASE PlansStep(r)
  <2>1. req[r].pc \in {"read_best", "clear_plan", "insert_plan", "write_plan", "write_default"}
    BY <1>2 DEF PlansStep, ReadBest, ClearPlan, InsertPlan, WritePlan, WriteDefault, At
  <2>2. Afar(req[r])
    BY <2>1, AfarFrom
  <2>3. req[r].pc \in {"read_best", "clear_plan"} => req[r].next \in {"insert_plan", "write_plan"}
    BY DEF LocalsReady, Ready, PlansReady
  <2>4. CASE ReadBest(r)
    <3>1. \/ Goto(r, req[r].next)
          \/ \E others : Keep(r, With(req[r], [todo |-> others, pc |-> "clear_plan"]))
      BY <2>4 DEF ReadBest
    <3>2. ASSUME NEW others, Keep(r, With(req[r], [todo |-> others, pc |-> "clear_plan"])) PROVE StaysAfar(r)
      <4>1. PICK fields : fields = [todo |-> others, pc |-> "clear_plan"]
        OBVIOUS
      <4>2. DOMAIN fields = {"todo", "pc"} /\ fields.pc = "clear_plan"
        BY <4>1
      <4>3. PICK l : l = With(req[r], fields)
        OBVIOUS
      <4>4. "id" \notin DOMAIN l /\ l.pc = "clear_plan"
        BY <2>2, <4>2, <4>3, WithSo DEF Afar, Out
      <4> QED
        BY <3>2, <4>1, <4>3, <4>4 DEF StaysAfar, Afar, Out
    <3> QED
      BY <2>2, <2>3, <2>4, <3>1, <3>2 DEF StaysAfar, ReadBest, At
  <2>5. CASE ClearPlan(r)
    <3>1. PICK rest : Keep(r, [req[r] EXCEPT !.todo = rest, !.pc = IF rest = {} THEN req[r].next ELSE "clear_plan"])
      BY <2>5 DEF ClearPlan
    <3>2. PICK l : l = [req[r] EXCEPT !.todo = rest, !.pc = IF rest = {} THEN req[r].next ELSE "clear_plan"]
      OBVIOUS
    <3>3. "id" \notin DOMAIN l
      BY <2>2, <3>2 DEF Afar, Out
    <3>4. l.pc \in {req[r].next, "clear_plan"}
      BY <3>2, Steps
    <3> QED
      BY <2>2, <2>3, <2>5, <3>1, <3>2, <3>3, <3>4 DEF StaysAfar, Afar, Out, ClearPlan, At
  <2>6. CASE InsertPlan(r) \/ WritePlan(r) \/ WriteDefault(r)
    BY <2>2, <2>6 DEF InsertPlan, WritePlan, WriteDefault, StaysAfar
  <2> QED
    BY <1>2, <2>2, <2>4, <2>5, <2>6 DEF PlansStep
<1> QED
  BY <1>1, <1>2

LEMMA SettingsAfar ==
    ASSUME LocalsReady, IdsHeld, NEW r \in Reqs, SettingsArrive(r) \/ SettingsStep(r)
    PROVE  (Afar(req[r]) \/ At(r, "idle")) /\ StaysAfar(r)
<1> USE DEF ItemPcs, TenantPcs, SpendPcs, LooksUp, PushPcs, EditPcs, NoticePcs, AlertNexts, Generating, Slept
<1>1. CASE SettingsArrive(r)
  <2>1. ASSUME NEW then, NEW edit, BeginSettingsRequest(r, then, edit) PROVE BeginsAfar(r)
    BY <2>1 DEF BeginSettingsRequest, BeginsAfar, Afar, Out
  <2> QED
    BY <1>1, <2>1, BegunAfar DEF SettingsArrive
<1>2. CASE SettingsStep(r)
  <2>1. req[r].pc \in {"get_settings", "create_settings", "upgrade_settings", "write_legal", "write_general"}
    BY <1>2 DEF SettingsStep, GetSettings, CreateSettings, UpgradeSettings, WriteLegal, WriteGeneral, At
  <2>2. Afar(req[r])
    BY <2>1, AfarFrom
  <2>3. ASSUME NEW doc, NEW legal, Continue(r, doc, legal),
               req[r].pc \in {"get_settings", "create_settings", "upgrade_settings"}
        PROVE  StaysAfar(r)
    <3>1. req[r].then \in {"answer", "write_general", "write_legal"}
      BY <2>3 DEF LocalsReady, Ready, SettingsReady
    <3>2. PICK l : l = [pc |-> req[r].then, edit |-> req[r].edit, doc |-> doc, legal |-> legal]
      OBVIOUS
    <3>3. "id" \notin DOMAIN l /\ l.pc = req[r].then
      BY <3>2
    <3>4. Done(r) \/ Keep(r, l)
      BY <2>3, <3>2 DEF Continue
    <3> QED
      BY <3>1, <3>3, <3>4 DEF StaysAfar, Afar, Out
  <2>4. CASE GetSettings(r)
    <3>1. ASSUME NEW legal, Keep(r, With(req[r], [legal |-> legal, pc |-> "upgrade_settings"])) PROVE StaysAfar(r)
      <4>1. PICK fields : fields = [legal |-> legal, pc |-> "upgrade_settings"]
        OBVIOUS
      <4>2. DOMAIN fields = {"legal", "pc"} /\ fields.pc = "upgrade_settings"
        BY <4>1
      <4>3. PICK l : l = With(req[r], fields)
        OBVIOUS
      <4>4. "id" \notin DOMAIN l /\ l.pc = "upgrade_settings"
        BY <2>2, <4>2, <4>3, WithSo DEF Afar, Out
      <4> QED
        BY <3>1, <4>1, <4>3, <4>4 DEF StaysAfar, Afar, Out
    <3>2. Goto(r, "create_settings") => StaysAfar(r)
      BY DEF StaysAfar
    <3>3. req[r].pc = "get_settings"
      BY <2>4 DEF GetSettings, At
    <3>4. \/ Goto(r, "create_settings")
          \/ Continue(r, 1, settings[1].legal)
          \/ Keep(r, With(req[r], [legal |-> Upgraded(settings[1].legal), pc |-> "upgrade_settings"]))
      BY <2>4 DEF GetSettings
    <3> QED
      BY <2>2, <2>3, <3>1, <3>2, <3>3, <3>4
  <2>5. CASE CreateSettings(r) \/ UpgradeSettings(r)
    <3>1. req[r].pc \in {"create_settings", "upgrade_settings"} /\ \E doc, legal : Continue(r, doc, legal)
      BY <2>5 DEF CreateSettings, UpgradeSettings, At
    <3> QED
      BY <2>2, <2>3, <3>1
  <2>6. CASE WriteLegal(r) \/ WriteGeneral(r)
    <3>1. PICK l : l = [pc |-> "get_settings", then |-> "answer", edit |-> NULL]
      OBVIOUS
    <3>2. Keep(r, l) /\ l.pc = "get_settings" /\ "id" \notin DOMAIN l
      BY <2>6, <3>1 DEF WriteLegal, WriteGeneral
    <3> QED
      BY <2>2, <3>2 DEF StaysAfar, Afar, Out
  <2> QED
    BY <1>2, <2>4, <2>5, <2>6, <2>2 DEF SettingsStep
<1> QED
  BY <1>1, <1>2

LEMMA TicketsAfar ==
    ASSUME LocalsReady, IdsHeld, NEW r \in Reqs, TicketsArrive(r) \/ TicketsStep(r)
    PROVE  (Afar(req[r]) \/ At(r, "idle")) /\ StaysAfar(r)
<1> USE DEF ItemPcs, TenantPcs, SpendPcs, LooksUp, PushPcs, EditPcs, NoticePcs, AlertNexts, Generating, Slept
<1>1. CASE TicketsArrive(r)
  <2>1. BeginTicket(r) \/ BeginManagementPage(r) => BeginsAfar(r)
    BY DEF BeginTicket, BeginManagementPage, BeginsAfar, Afar, Out
  <2>2. ASSUME NEW t, BeginReply(r, t) \/ BeginResolve(r, t) PROVE BeginsAfar(r)
    BY <2>2 DEF BeginReply, BeginResolve, BeginsAfar, Afar, Out
  <2> QED
    BY <1>1, <2>1, <2>2, BegunAfar DEF TicketsArrive
<1>2. CASE TicketsStep(r)
  <2>1. req[r].pc \in {"insert_ticket", "add_message", "resolve", "gather", "show_page"}
    BY <1>2 DEF TicketsStep, InsertTicket, AddMessage, ResolveTicket, Gather, ShowPage, At
  <2>2. Afar(req[r])
    BY <2>1, AfarFrom
  <2>3. CASE Gather(r)
    <3>1. PICK l : Keep(r, l) /\ l.pc \in {"gather", "show_page"} /\ "id" \notin DOMAIN l
      BY <2>3 DEF Gather
    <3> QED
      BY <2>2, <3>1 DEF StaysAfar, Afar, Out
  <2>4. CASE InsertTicket(r) \/ AddMessage(r) \/ ResolveTicket(r) \/ ShowPage(r)
    BY <2>2, <2>4 DEF InsertTicket, AddMessage, ResolveTicket, ShowPage, StaysAfar
  <2> QED
    BY <1>2, <2>3, <2>4 DEF TicketsStep
<1> QED
  BY <1>1, <1>2

LEMMA CouponsAfar ==
    ASSUME LocalsReady, IdsHeld, NEW r \in Reqs,
           CouponsArrive(r) \/ CouponsStep(r) \/ BeginCheckout(r) \/ CheckoutStep(r)
    PROVE  (Afar(req[r]) \/ At(r, "idle")) /\ StaysAfar(r)
<1> USE DEF ItemPcs, TenantPcs, SpendPcs, LooksUp, PushPcs, EditPcs, NoticePcs, AlertNexts, Generating, Slept
<1>1. CASE CouponsArrive(r)
  <2>1. ASSUME NEW form, BeginCreateCoupon(r, form) PROVE BeginsAfar(r)
    BY <2>1 DEF BeginCreateCoupon, BeginsAfar, Afar, Out
  <2>2. ASSUME NEW i, BeginDeleteCoupon(r, i) PROVE BeginsAfar(r)
    BY <2>2 DEF BeginDeleteCoupon, BeginsAfar, Afar, Out
  <2>3. ASSUME NEW i, NEW updates, BeginUpdateCoupon(r, i, updates) PROVE BeginsAfar(r)
    <3>1. PICK u : Begin(r, [pc |-> "write_coupon", coupon |-> i, updates |-> u])
      BY <2>3 DEF BeginUpdateCoupon
    <3> QED
      BY <3>1 DEF BeginsAfar, Afar, Out
  <2>4. BeginManagement(r) => BeginsAfar(r)
    BY DEF BeginManagement, BeginsAfar, Afar, Out
  <2>5. ASSUME NEW code, BeginPreview(r, code) PROVE BeginsAfar(r)
    <3>1. PICK price : Begin(r, [pc |-> "mark_expired", then |-> "read_coupon", code |-> code, price |-> price])
      BY <2>5 DEF BeginPreview
    <3> QED
      BY <3>1 DEF BeginsAfar, Afar, Out
  <2> QED
    BY <1>1, <2>1, <2>2, <2>3, <2>4, <2>5, BegunAfar DEF CouponsArrive
<1>2. CASE CouponsStep(r)
  <2>1. req[r].pc \in CouponPcs
    BY <1>2 DEF CouponsStep, InsertCoupon, WriteCoupon, DeleteCoupon, MarkExpired, ReadCoupon, SendQuote, At, CouponPcs
  <2>2. Afar(req[r])
    BY <2>1, AfarFrom DEF CouponPcs
  <2>3. CASE MarkExpired(r)
    <3>1. req[r].then \in {"answer", "read_coupon"}
      BY <2>3 DEF MarkExpired, At, LocalsReady, Ready, CouponReady
    <3>2. Done(r) \/ Goto(r, "read_coupon")
      BY <2>3, <3>1 DEF MarkExpired
    <3> QED
      BY <2>2, <3>2 DEF StaysAfar
  <2>4. CASE ReadCoupon(r)
    <3>1. Done(r) \/ \E i, quote : Keep(r, [pc |-> "quote", from |-> i, quote |-> quote])
      BY <2>4 DEF ReadCoupon, Raised
    <3>2. ASSUME NEW l, l.pc = "quote", DOMAIN l = {"pc", "from", "quote"} PROVE Afar(l)
      BY <3>2 DEF Afar, Out
    <3> QED
      BY <2>2, <3>1, <3>2 DEF StaysAfar
  <2>5. CASE InsertCoupon(r) \/ WriteCoupon(r) \/ DeleteCoupon(r) \/ SendQuote(r)
    BY <2>2, <2>5 DEF InsertCoupon, WriteCoupon, DeleteCoupon, SendQuote, StaysAfar
  <2> QED
    BY <1>2, <2>3, <2>4, <2>5 DEF CouponsStep
<1>3. CASE BeginCheckout(r)
  <2>1. PICK l : l = [pc |-> IF customer = NULL THEN "create_customer" ELSE "create_session", for |-> customer]
    OBVIOUS
  <2>2. l.pc \in {"create_customer", "create_session"} /\ "id" \notin DOMAIN l
    BY <2>1
  <2>3. Begin(r, l)
    BY <1>3, <2>1 DEF BeginCheckout
  <2> QED
    BY <2>2, <2>3, BegunAfar DEF BeginsAfar, Afar, Out
<1>4. CASE CheckoutStep(r)
  <2>1. req[r].pc \in CheckoutPcs
    BY <1>4 DEF CheckoutStep, CreateCustomer, WriteCustomer, CreateSession, At, CheckoutPcs
  <2>2. Afar(req[r])
    BY <2>1, AfarFrom DEF CheckoutPcs
  <2>3. Done(r) \/ Goto(r, "create_session") \/ \E c : Keep(r, [pc |-> "write_customer", for |-> c])
    BY <1>4 DEF CheckoutStep, CreateCustomer, WriteCustomer, CreateSession
  <2>4. ASSUME NEW c, Keep(r, [pc |-> "write_customer", for |-> c]) PROVE StaysAfar(r)
    <3>1. PICK l : l = [pc |-> "write_customer", for |-> c]
      OBVIOUS
    <3>2. Afar(l)
      BY <3>1 DEF Afar, Out
    <3> QED
      BY <2>4, <3>1, <3>2 DEF StaysAfar
  <2>5. Done(r) \/ Goto(r, "create_session") => StaysAfar(r)
    BY DEF StaysAfar
  <2> QED
    BY <2>2, <2>3, <2>4, <2>5
<1> QED
  BY <1>1, <1>2, <1>3, <1>4

(* The rest of the restaurant.                                             *)
LEMMA NoticesOut ==
    ASSUME LocalsReady, IdsHeld, NEW r \in Reqs,
           DevicesArrive(r) \/ BeginAnalytics(r) \/ DevicesStep(r) \/ AlertsStep(r)
    PROVE  (Out(req[r]) \/ At(r, "idle")) /\ StaysOut(r)
<1> USE DEF ItemPcs, TenantPcs, SpendPcs, LooksUp, PushPcs, EditPcs
<1>1. CASE DevicesArrive(r) \/ BeginAnalytics(r)
  <2>1. ASSUME NEW d, BeginRegister(r, d) PROVE BeginsOut(r)
    BY <2>1 DEF BeginRegister, BeginsOut, Out
  <2>2. ASSUME NEW id, BeginUnregister(r, id) PROVE BeginsOut(r)
    BY <2>2 DEF BeginUnregister, BeginsOut, Out
  <2>3. ASSUME NEW field, NEW on, BeginSettings(r, field, on) PROVE BeginsOut(r)
    BY <2>3 DEF BeginSettings, BeginsOut, Out
  <2>4. BeginAnalytics(r) => BeginsOut(r)
    BY DEF BeginAnalytics, BeginsOut, Out
  <2> QED
    BY <1>1, <2>1, <2>2, <2>3, <2>4, BegunOut DEF DevicesArrive
<1>2. CASE DevicesStep(r)
  <2>1. req[r].pc \in {"write_devices", "write_settings"} /\ Done(r)
    BY <1>2 DEF DevicesStep, WriteDevices, WriteSettings, At
  <2> QED
    BY <2>1, OutFrom DEF StaysOut
<1>3. CASE AlertsStep(r)
  <2>1. req[r].pc \in {"ask_other", "find_alert", "insert_alert", "push_alert"}
    BY <1>3 DEF AlertsStep, AskOther, FindAlert, InsertAlert, PushAlert, At
  <2>2. Out(req[r])
    BY <2>1, OutFrom
  <2>3. CASE AskOther(r)
    <3>1. PICK l : l = [req[r] EXCEPT !.alerts = req[r].text]
      OBVIOUS
    <3>2. PICK m : m = [l EXCEPT !.pc = "ask", !.key = Languages[2], !.next = "find_alert"]
      OBVIOUS
    <3>3. Keep(r, m)
      BY <2>3, <3>1, <3>2 DEF AskOther, Asking
    <3>4. m.pc = "ask" /\ "id" \notin DOMAIN m
      BY <2>2, <3>1, <3>2, Steps DEF Out
    <3> QED
      BY <2>2, <3>3, <3>4 DEF StaysOut, Out
  <2>4. ASSUME NextAlert(r) PROVE StaysOut(r)
    <3>1. CASE Keep(r, Idle)
      BY <3>1, OutIdle DEF StaysOut
    <3>2. CASE ~Keep(r, Idle)
      <4>1. PICK rest : Keep(r, [req[r] EXCEPT !.pc = "find_alert", !.alerts = rest])
        BY <2>4, <3>2 DEF NextAlert
      <4>2. PICK m : m = [req[r] EXCEPT !.pc = "find_alert", !.alerts = rest]
        OBVIOUS
      <4>3. m.pc = "find_alert" /\ "id" \notin DOMAIN m
        BY <2>2, <4>2, Steps DEF Out
      <4> QED
        BY <4>1, <4>2, <4>3 DEF StaysOut, Out
    <3> QED
      BY <3>1, <3>2
  <2>5. CASE FindAlert(r) \/ InsertAlert(r) \/ PushAlert(r)
    <3>1. NextAlert(r) \/ Goto(r, "insert_alert") \/ Goto(r, "push_alert") \/ Done(r)
      BY <2>5 DEF FindAlert, InsertAlert, PushAlert, Raised
    <3>2. Goto(r, "insert_alert") \/ Goto(r, "push_alert") \/ Done(r) => StaysOut(r)
      BY DEF StaysOut
    <3> QED
      BY <2>2, <2>4, <3>1, <3>2
  <2> QED
    BY <1>3, <2>2, <2>3, <2>5 DEF AlertsStep
<1> QED
  BY <1>1, <1>2, <1>3

(* A chat or an insight: what makes them so keeps the id away.             *)
LEMMA ChatOut ==
    ASSUME LocalsReady, IdsHeld, NEW r \in Reqs,
           ChatArrive(r) \/ ChatStep(r) \/ BeginInsight(r) \/ InsightStep(r)
    PROVE  /\ Out(req[r]) \/ At(r, "idle")
           /\ Out(req'[r]) /\ \A q \in Reqs \ {r} : req'[q] = req[q]
<1> USE DEF ItemPcs, TenantPcs, SpendPcs, LooksUp, PushPcs, EditPcs
<1>1. CASE BeginInsight(r)
  <2>1. BeginsOut(r)
    BY <1>1 DEF BeginInsight, BeginsOut, Out
  <2>2. At(r, "idle") /\ \E l : Begin(r, l) /\ Out(l)
    BY <2>1, BegunOut DEF BeginsOut
  <2> QED
    BY <2>2, Steps
<1>2. CASE InsightStep(r)
  <2>1. req[r].pc \in {"ask_translated", "write_insight"}
    BY <1>2 DEF InsightStep, AskTranslated, WriteInsight, At
  <2>2. Out(req[r])
    BY <2>1, OutFrom
  <2>3. CASE AskTranslated(r)
    <3>1. PICK m : m = [req[r] EXCEPT !.pc = "ask", !.key = "insight_it", !.next = "write_insight"]
      OBVIOUS
    <3>2. Keep(r, m)
      BY <2>3, <3>1 DEF AskTranslated, Asking
    <3>3. m.pc = "ask" /\ "id" \notin DOMAIN m
      BY <2>2, <3>1, Steps DEF Out
    <3> QED
      BY <2>2, <3>2, <3>3, Steps DEF Out
  <2>4. CASE WriteInsight(r)
    BY <2>2, <2>4, OutIdle, Steps DEF WriteInsight
  <2> QED
    BY <1>2, <2>3, <2>4 DEF InsightStep
<1>3. ASSUME NEW l, Joins(r, l) \/ Goes(r, l), l.pc \in ChatPcs \/ (l.pc = "ask" /\ "upto" \in DOMAIN l)
      PROVE  Out(req'[r]) /\ \A q \in Reqs \ {r} : req'[q] = req[q]
  <2>1. ChatReady(l) /\ Chatting(l)
    BY <1>3 DEF Joins, Goes, Ready, ChatReady, Chatting
  <2>2. "id" \notin DOMAIN l /\ l.pc \notin TenantPcs
    BY <1>3, <2>1 DEF ChatReady, ChatPcs, MessagePcs, Answering, ListedPcs
  <2>3. req'[r] = l /\ \A q \in Reqs \ {r} : req'[q] = req[q]
    BY <1>3, Steps DEF Joins, Goes
  <2> QED
    BY <2>2, <2>3 DEF Out
<1>4. CASE ChatArrive(r)
  <2>1. \E l : Joins(r, l) /\ (l.pc \in ChatPcs \/ (l.pc = "ask" /\ "upto" \in DOMAIN l))
    BY <1>4, BeginMessageSo, BeginEditMessageSo, BeginHistorySo
       DEF ChatArrive, ChatPcs, MessagePcs, Answering, ListedPcs
  <2>2. At(r, "idle")
    BY <2>1 DEF Joins, Begin
  <2> QED
    BY <1>3, <2>1, <2>2
<1>5. CASE ChatStep(r)
  <2>1. req[r].pc \in ChatPcs
    BY <1>5 DEF ChatStep, EditMessage, ReadContext, InsertReply, ListChat, ReadMemory, WriteMemory, Broadcast,
       Answered, WriteTranslation, At, ChatPcs, MessagePcs, Answering, ListedPcs
  <2>2. Out(req[r])
    BY <2>1, ChatFrom DEF Out, ChatPcs, MessagePcs, Answering, ListedPcs
  <2>3. CASE Broadcast(r) \/ Answered(r)
    BY <2>2, <2>3, Steps, OutIdle DEF Broadcast, Answered
  <2>4. CASE ~(Broadcast(r) \/ Answered(r))
    <3>1. \E l : Goes(r, l) /\ (l.pc \in ChatPcs \/ (l.pc = "ask" /\ "upto" \in DOMAIN l))
      BY <1>5, <2>4, EditMessageSo, ReadContextSo, InsertReplySo, ListChatSo, ReadMemorySo, WriteMemorySo,
         WriteTranslationSo DEF ChatStep, ChatPcs, MessagePcs, Answering, ListedPcs
    <3> QED
      BY <1>3, <2>2, <3>1
  <2> QED
    BY <2>3, <2>4
<1> QED
  BY <1>1, <1>2, <1>4, <1>5

(* Texts, and requests that end.                                           *)
LEMMA GenerationOut ==
    ASSUME LocalsReady, IdsHeld, NEW r \in Reqs, NEW m, req[r].pc \in Generating, Follows(req[r], m)
    PROVE  Out(req[r]) /\ Out(m)
<1> USE DEF ItemPcs, TenantPcs, SpendPcs, LooksUp, PushPcs, EditPcs
<1>1. Out(req[r])
  BY OutFrom DEF Generating, Slept
<1> QED
  BY <1>1, OutIdle DEF Follows, Out, Slept, InsightNexts, OtherNexts, AlertNexts

(* What the inventory and the names do, and that nothing else does.        *)
tenantVars == <<items, expenses, accounts, names>>
KeepsOff(l, m) ==
    \/ m = l
    \/ Out(m) /\ (Out(l) \/ m = Idle)
    \/ {l.pc, m.pc} \subseteq PushPcs /\ DOMAIN m = DOMAIN l /\ ("id" \in DOMAIN l => m.id = l.id)
Apart ==
    /\ UNCHANGED <<items, expenses, names>>
    /\ DOMAIN req' = Reqs
    /\ \A r \in Reqs : KeepsOff(req[r], req'[r])
OnTenant(r) ==
    \/ (NamesArrive(r) \/ NamesStep(r)) /\ UNCHANGED inventoryVars
    \/ (InventoryArrive(r) \/ InventoryStep(r)) /\ UNCHANGED namesVars
    \/ InventoryPush(r) /\ UNCHANGED namesVars
Elsewhere == UNCHANGED accounts /\ Apart

LEMMA TenantOrNot ==
    ASSUME LocalsReady, IdsHeld, LocalsReady', DeskNext
    PROVE  (\E r \in Reqs : OnTenant(r)) \/ Elsewhere
<1> USE DEF restaurantVars, officeVars, namesVars, inventoryVars, tenantVars
<1>0. DOMAIN req' = Reqs
  BY DEF LocalsReady
<1>1. ASSUME NEW r \in Reqs, Out(req[r]) \/ At(r, "idle"), Out(req'[r]), \A q \in Reqs \ {r} : req'[q] = req[q],
             UNCHANGED tenantVars
      PROVE  Elsewhere
  <2>1. Out(req[r])
    BY <1>1, OutFrom DEF At, ItemPcs, TenantPcs, SpendPcs, LooksUp, PushPcs, EditPcs
  <2> QED
    BY <1>0, <1>1, <2>1 DEF Elsewhere, Apart, KeepsOff
<1>2. ASSUME NEW r \in Reqs, Out(req[r]) \/ At(r, "idle"), StaysOut(r), UNCHANGED tenantVars
      PROVE  Elsewhere
  <2>1. Out(req[r])
    BY <1>2, OutFrom DEF At, ItemPcs, TenantPcs, SpendPcs, LooksUp, PushPcs, EditPcs
  <2> QED
    BY <1>1, <1>2, <2>1, OutSo
<1>3. ASSUME NEW r \in Reqs, Arrive(r)
      PROVE  OnTenant(r) \/ Elsewhere
  <2>1. CASE ArriveAtOffice(r) /\ UNCHANGED restaurantVars
    BY <1>2, <2>1, PlansAfar, CouponsAfar, SettingsAfar, TicketsAfar, AfarOut DEF ArriveAtOffice
  <2>2. CASE ArriveAtRestaurant(r)
    BY <1>1, <1>2, <2>2, NoticesOut, ChatOut DEF ArriveAtRestaurant, OnTenant
  <2> QED
    BY <1>3, <2>1, <2>2 DEF Arrive
<1>4. ASSUME NEW r \in Reqs, Step(r)
      PROVE  OnTenant(r) \/ Elsewhere
  <2>1. CASE OfficeStep(r) /\ UNCHANGED restaurantVars
    BY <1>2, <2>1, PlansAfar, CouponsAfar, SettingsAfar, TicketsAfar, AfarOut DEF OfficeStep
  <2>2. CASE (Ask(r) \/ Wake(r)) /\ UNCHANGED restaurantVars
    <3>1. req[r].pc \in Generating /\ \E m : Keep(r, m) /\ Follows(req[r], m)
      BY <2>2, AskLocals DEF Keep
    <3>2. Out(req[r]) /\ Out(req'[r]) /\ \A q \in Reqs \ {r} : req'[q] = req[q]
      BY <3>1, Steps, GenerationOut
    <3> QED
      BY <1>1, <2>2, <3>2
  <2>3. CASE RestaurantStep(r) /\ ~((Ask(r) \/ Wake(r)) /\ UNCHANGED restaurantVars)
    <3>1. CASE (DevicesStep(r) \/ AlertsStep(r)) /\ UNCHANGED tenantVars
      BY <1>2, <3>1, NoticesOut
    <3>2. CASE (ChatStep(r) \/ InsightStep(r)) /\ UNCHANGED tenantVars
      BY <1>1, <3>2, ChatOut
    <3>3. \/ (DevicesStep(r) \/ AlertsStep(r) \/ ChatStep(r) \/ InsightStep(r)) /\ UNCHANGED tenantVars
          \/ NamesStep(r) /\ UNCHANGED inventoryVars
          \/ InventoryStep(r) /\ UNCHANGED namesVars
          \/ InventoryPush(r) /\ UNCHANGED namesVars
      BY <2>3 DEF RestaurantStep
    <3> QED
      BY <3>1, <3>2, <3>3 DEF OnTenant
  <2> QED
    BY <1>4, <2>1, <2>2, <2>3 DEF Step
<1>5. ASSUME NEW r \in Reqs, Stop(r)
      PROVE  Elsewhere
  <2>1. req'[r] = Idle /\ \A q \in Reqs \ {r} : req'[q] = req[q]
    BY <1>5, Steps DEF Stop, Raised
  <2> QED
    BY <1>0, <1>5, <2>1, OutIdle DEF Stop, Elsewhere, Apart, KeepsOff
<1>6. ASSUME NEW k, NEW text, Ends(k, text), UNCHANGED tenantVars
      PROVE  Elsewhere
  <2>1. ASSUME NEW q \in Reqs PROVE KeepsOff(req[q], req'[q])
    <3>1. CASE req'[q] = req[q]
      BY <3>1 DEF KeepsOff
    <3>2. CASE req'[q] # req[q]
      <4>1. req[q].pc \in Generating /\ Follows(req[q], req'[q])
        BY <1>6, <3>2, EndsLocals
      <4>2. PICK m : m = req'[q]
        OBVIOUS
      <4> QED
        BY <4>1, <4>2, GenerationOut DEF KeepsOff
    <3> QED
      BY <3>1, <3>2
  <2> QED
    BY <1>0, <1>6, <2>1 DEF Elsewhere, Apart
<1>7. ASSUME NEW k \in Keys, ModelAnswers(k)
      PROVE  Elsewhere
  BY <1>6, <1>7 DEF ModelAnswers, Generate, deskButGenerations
<1>8. CASE GenerationLost
  <2>1. ASSUME NEW r \in Reqs, CancelAwait(r) PROVE Elsewhere
    BY <1>6, <1>8, <2>1 DEF CancelAwait, GenerationLost, deskButGenerations
  <2>2. ASSUME NEW k, Expire(k) PROVE Elsewhere
    BY <1>0, <1>8, <2>2 DEF Expire, GenerationLost, deskButGenerations, Elsewhere, Apart, KeepsOff
  <2> QED
    BY <1>8, <2>1, <2>2 DEF GenerationLost
<1> QED
  BY <1>3, <1>4, <1>5, <1>7, <1>8 DEF DeskNext

-----------------------------------------------------------------------------
(* Items, and what restocking and edits make of them.                      *)
Restocking == [stock_quantity : 0 .. MaxStock, stock_status : StockStatuses, history : Seq(Int)]
EditOf(u, edit) ==
    /\ DOMAIN u = DOMAIN edit \cup {"stock_status"} /\ u.stock_status \in StockStatuses
    /\ \A f \in DOMAIN edit : u[f] = edit[f]

LEMMA ItemFields ==
    ASSUME NEW item, item = [x \in DOMAIN item |-> item[x]]
    PROVE  /\ item \in Items => DOMAIN item = {"stock_quantity", "alert_threshold", "category", "supplier_name",
                                               "stock_status", "history"}
           /\ /\ DOMAIN item = {"stock_quantity", "alert_threshold", "category", "supplier_name",
                                "stock_status", "history"}
              /\ item.stock_quantity \in 0 .. MaxStock /\ item.alert_threshold \in Nat
              /\ item.category \in Typed /\ item.supplier_name \in Typed \cup {NULL}
              /\ item.stock_status \in StockStatuses /\ item.history \in Seq(Int)
              => item \in Items
  BY DEF Items

LEMMA StatusKnown == \A stock, threshold : StockStatus(stock, threshold) \in StockStatuses
  BY DEF StockStatus, StockStatuses

LEMMA EntriesTyped ==
    ASSUME NEW a \in Nat, NEW m \in Nat
    PROVE  Entries(a, m) \in Seq(Int)
<1>1. -m \in Int /\ a \in Int
  OBVIOUS
<1>2. PICK s : s = IF a = 0 THEN <<>> ELSE <<a>>
  OBVIOUS
<1>3. PICK t : t = IF m = 0 THEN <<>> ELSE <<-m>>
  OBVIOUS
<1>4. s \in Seq(Int) /\ t \in Seq(Int)
  BY <1>1, <1>2, <1>3
<1>5. s \o t \in Seq(Int)
  BY <1>4, ConcatProperties, Zenon
<1> QED
  BY <1>2, <1>3, <1>5 DEF Entries

LEMMA ItemMade ==
    ASSUME NEW form \in Forms
    PROVE  /\ Item(form) \in Items
           /\ Item(form).stock_quantity = form.stock_quantity
           /\ Item(form).category = form.category /\ Item(form).supplier_name = form.supplier_name
           /\ Item(form).history = Entries(form.stock_quantity, 0)
           /\ Item(form).stock_status = StockStatus(form.stock_quantity, form.alert_threshold)
           /\ Item(form).alert_threshold = form.alert_threshold
<1>1. /\ DOMAIN form = {"stock_quantity", "alert_threshold", "category", "supplier_name"}
      /\ form.stock_quantity \in 0 .. MaxStock /\ form.alert_threshold \in Nat
      /\ form.category \in Typed /\ form.supplier_name \in Typed \cup {NULL}
  <2>1. /\ DOMAIN Fields = {"stock_quantity", "alert_threshold", "category", "supplier_name"}
        /\ Fields.stock_quantity = 0 .. MaxStock /\ Fields.alert_threshold = Nat
        /\ Fields.category = Typed /\ Fields.supplier_name = Typed \cup {NULL}
    BY DEF Fields
  <2> QED
    BY <2>1, ItemsAssumption
<1>2. PICK fields : fields = [stock_status |-> StockStatus(form.stock_quantity, form.alert_threshold),
                              history |-> Entries(form.stock_quantity, 0)]
  OBVIOUS
<1>3. /\ DOMAIN fields = {"stock_status", "history"}
      /\ fields.stock_status = StockStatus(form.stock_quantity, form.alert_threshold)
      /\ fields.history = Entries(form.stock_quantity, 0)
  BY <1>2
<1>4. PICK item : item = With(form, fields)
  OBVIOUS
<1>5. item = Item(form)
  BY <1>2, <1>4 DEF Item
<1>6. /\ DOMAIN item = DOMAIN form \cup DOMAIN fields
      /\ item = [x \in DOMAIN item |-> item[x]]
      /\ \A x \in DOMAIN fields : item[x] = fields[x]
      /\ \A x \in DOMAIN form \ DOMAIN fields : item[x] = form[x]
  BY <1>4 DEF With
<1>7. /\ item.stock_quantity = form.stock_quantity /\ item.alert_threshold = form.alert_threshold
      /\ item.category = form.category /\ item.supplier_name = form.supplier_name
      /\ item.history = fields.history /\ item.stock_status = fields.stock_status
  BY <1>1, <1>3, <1>6
<1>8. Entries(form.stock_quantity, 0) \in Seq(Int)
  <2>1. form.stock_quantity \in Nat /\ 0 \in Nat
    BY <1>1
  <2> QED
    BY <2>1, EntriesTyped
<1>9. DOMAIN item = {"stock_quantity", "alert_threshold", "category", "supplier_name", "stock_status", "history"}
  BY <1>1, <1>3, <1>6
<1>10. item \in Items
  BY <1>1, <1>3, <1>6, <1>7, <1>8, <1>9, StatusKnown, ItemFields
<1> QED
  BY <1>3, <1>5, <1>7, <1>10

(* Stock written back, with its status and history.                        *)
LEMMA RestockedTyped ==
    ASSUME NEW item \in Items, NEW a \in Quantities, NEW m \in Quantities,
           m <= item.stock_quantity, item.stock_quantity + a <= MaxStock
    PROVE  Restocked(item, a, m) \in Restocking
<1>1. /\ item.stock_quantity \in Nat /\ a \in Nat /\ m \in Nat /\ item.history \in Seq(Int)
      /\ MaxStock \in Nat
  BY ItemsAssumption DEF Items
<1>2. item.stock_quantity + a - m \in 0 .. MaxStock
  BY <1>1
<1>3. item.history \o Entries(a, m) \in Seq(Int)
  BY <1>1, EntriesTyped, ConcatProperties, Zenon
<1> QED
  BY <1>2, <1>3, StatusKnown DEF Restocked, Restocking

LEMMA RestockSo ==
    ASSUME NEW item \in Items, NEW u \in Restocking
    PROVE  /\ With(item, u) \in Items
           /\ With(item, u).category = item.category /\ With(item, u).supplier_name = item.supplier_name
           /\ With(item, u).stock_quantity = u.stock_quantity /\ With(item, u).history = u.history
           /\ With(item, u).stock_status = u.stock_status
           /\ With(item, u).alert_threshold = item.alert_threshold
<1>1. /\ DOMAIN item = {"stock_quantity", "alert_threshold", "category", "supplier_name", "stock_status", "history"}
      /\ item.alert_threshold \in Nat /\ item.category \in Typed /\ item.supplier_name \in Typed \cup {NULL}
  BY DEF Items
<1>2. /\ DOMAIN u = {"stock_quantity", "stock_status", "history"}
      /\ u.stock_quantity \in 0 .. MaxStock /\ u.stock_status \in StockStatuses /\ u.history \in Seq(Int)
  BY DEF Restocking
<1>3. PICK new : new = With(item, u)
  OBVIOUS
<1>4. /\ DOMAIN new = DOMAIN item \cup DOMAIN u
      /\ new = [x \in DOMAIN new |-> new[x]]
      /\ \A x \in DOMAIN u : new[x] = u[x]
      /\ \A x \in DOMAIN item \ DOMAIN u : new[x] = item[x]
  BY <1>3 DEF With
<1>5. /\ new.stock_quantity = u.stock_quantity /\ new.alert_threshold = item.alert_threshold
      /\ new.category = item.category /\ new.supplier_name = item.supplier_name
      /\ new.history = u.history /\ new.stock_status = u.stock_status
  BY <1>1, <1>2, <1>4
<1>6. DOMAIN new = {"stock_quantity", "alert_threshold", "category", "supplier_name", "stock_status", "history"}
  BY <1>1, <1>2, <1>4
<1>7. new \in Items
  BY <1>1, <1>2, <1>4, <1>5, <1>6, ItemFields
<1> QED
  BY <1>3, <1>5, <1>7

(* Edits, with the status of what they make.                               *)
LEMMA EditFields ==
    ASSUME NEW edit \in Edits
    PROVE  /\ DOMAIN edit \subseteq {"stock_quantity", "alert_threshold", "category", "supplier_name"}
           /\ "stock_quantity" \in DOMAIN edit => edit.stock_quantity \in 0 .. MaxStock
           /\ "alert_threshold" \in DOMAIN edit => edit.alert_threshold \in Nat
           /\ "category" \in DOMAIN edit => edit.category \in Typed
           /\ "supplier_name" \in DOMAIN edit => edit.supplier_name \in Typed \cup {NULL}
<1>1. /\ DOMAIN Fields = {"stock_quantity", "alert_threshold", "category", "supplier_name"}
      /\ Fields.stock_quantity = 0 .. MaxStock /\ Fields.alert_threshold = Nat
      /\ Fields.category = Typed /\ Fields.supplier_name = Typed \cup {NULL}
  BY DEF Fields
<1>2. DOMAIN edit \subseteq DOMAIN Fields /\ \A f \in DOMAIN edit : edit[f] \in Fields[f]
  BY ItemsAssumption
<1> QED
  BY <1>1, <1>2

LEMMA EditedSo ==
    ASSUME NEW item, NEW edit \in Edits
    PROVE  /\ EditOf(Edited(item, edit), edit)
           /\ Edited(item, edit).stock_status =
                 StockStatus(With(item, edit).stock_quantity, With(item, edit).alert_threshold)
<1>1. PICK status : status = StockStatus(With(item, edit).stock_quantity, With(item, edit).alert_threshold)
  OBVIOUS
<1>2. PICK fields : fields = [stock_status |-> status]
  OBVIOUS
<1>3. DOMAIN fields = {"stock_status"} /\ fields.stock_status = status
  BY <1>2
<1>4. PICK u : u = With(edit, fields)
  OBVIOUS
<1>5. u = Edited(item, edit)
  BY <1>1, <1>2, <1>4 DEF Edited
<1>6. /\ DOMAIN u = DOMAIN edit \cup {"stock_status"} /\ u.stock_status = status
      /\ \A f \in DOMAIN edit \ {"stock_status"} : u[f] = edit[f]
  BY <1>3, <1>4 DEF With
<1>7. "stock_status" \notin DOMAIN edit
  BY EditFields
<1> QED
  BY <1>1, <1>5, <1>6, <1>7, StatusKnown DEF EditOf

LEMMA EditSo ==
    ASSUME NEW item \in Items, NEW edit \in Edits, NEW u, EditOf(u, edit)
    PROVE  /\ With(item, u) \in Items
           /\ With(item, u).stock_quantity = With(item, edit).stock_quantity
           /\ With(item, u).alert_threshold = With(item, edit).alert_threshold
           /\ With(item, edit).stock_quantity =
                 IF "stock_quantity" \in DOMAIN edit THEN edit.stock_quantity ELSE item.stock_quantity
           /\ With(item, u).history = item.history
           /\ With(item, u).stock_status = u.stock_status
<1>1. /\ DOMAIN item = {"stock_quantity", "alert_threshold", "category", "supplier_name", "stock_status", "history"}
      /\ item.alert_threshold \in Nat /\ item.category \in Typed /\ item.supplier_name \in Typed \cup {NULL}
      /\ item.stock_quantity \in 0 .. MaxStock /\ item.history \in Seq(Int)
  BY DEF Items
<1>2. /\ DOMAIN u = DOMAIN edit \cup {"stock_status"} /\ u.stock_status \in StockStatuses
      /\ \A f \in DOMAIN edit : u[f] = edit[f]
  BY DEF EditOf
<1>3. PICK new : new = With(item, u)
  OBVIOUS
<1>4. /\ DOMAIN new = DOMAIN item \cup DOMAIN u
      /\ new = [x \in DOMAIN new |-> new[x]]
      /\ \A x \in DOMAIN u : new[x] = u[x]
      /\ \A x \in DOMAIN item \ DOMAIN u : new[x] = item[x]
  BY <1>3 DEF With
<1>5. /\ \A x \in DOMAIN edit : With(item, edit)[x] = edit[x]
      /\ \A x \in DOMAIN item \ DOMAIN edit : With(item, edit)[x] = item[x]
  BY DEF With
<1>6. /\ \A x \in DOMAIN edit : new[x] = edit[x]
      /\ \A x \in DOMAIN item \ (DOMAIN edit \cup {"stock_status"}) : new[x] = item[x]
      /\ new.stock_status = u.stock_status
  BY <1>2, <1>4
<1>7. /\ new.stock_quantity \in 0 .. MaxStock /\ new.alert_threshold \in Nat
      /\ new.category \in Typed /\ new.supplier_name \in Typed \cup {NULL}
      /\ new.history = item.history
  BY <1>1, <1>6, EditFields
<1>8. DOMAIN new = {"stock_quantity", "alert_threshold", "category", "supplier_name", "stock_status", "history"}
  BY <1>1, <1>2, <1>4, EditFields
<1>9. new \in Items
  BY <1>1, <1>2, <1>4, <1>6, <1>7, <1>8, ItemFields
<1>10. /\ new.stock_quantity = With(item, edit).stock_quantity
       /\ new.alert_threshold = With(item, edit).alert_threshold
       /\ With(item, edit).stock_quantity =
             IF "stock_quantity" \in DOMAIN edit THEN edit.stock_quantity ELSE item.stock_quantity
  BY <1>1, <1>5, <1>6
<1> QED
  BY <1>3, <1>6, <1>7, <1>9, <1>10

(* The names of an item.                                                   *)
LEMMA NamesGivenSo ==
    ASSUME NEW category \in Typed, NEW supplier \in Typed \cup {NULL}
    PROVE  /\ NamesGiven(category, supplier) \in Seq(Collections \X Typed)
           /\ NamesGiven(category, supplier) # <<>>
           /\ <<"categories", category>> \in Range(NamesGiven(category, supplier))
           /\ supplier # NULL => <<"suppliers", supplier>> \in Range(NamesGiven(category, supplier))
<1>1. PICK s : s = << <<"categories", category>> >>
  OBVIOUS
<1>2. PICK t : t = IF supplier = NULL THEN <<>> ELSE << <<"suppliers", supplier>> >>
  OBVIOUS
<1>3. s \in Seq(Collections \X Typed) /\ Len(s) = 1 /\ s[1] = <<"categories", category>>
  BY <1>1, NamesAssumption
<1>4. /\ t \in Seq(Collections \X Typed)
      /\ supplier # NULL => Len(t) = 1 /\ t[1] = <<"suppliers", supplier>>
  BY <1>2, NamesAssumption
<1>5. PICK given : given = s \o t
  OBVIOUS
<1>6. /\ given \in Seq(Collections \X Typed) /\ Len(given) = Len(s) + Len(t)
      /\ \A i \in 1 .. Len(s) + Len(t) : given[i] = IF i <= Len(s) THEN s[i] ELSE t[i - Len(s)]
  BY <1>3, <1>4, <1>5, ConcatProperties, Zenon
<1>7. Len(t) \in Nat
  BY <1>4
<1>8. 1 \in DOMAIN given /\ given[1] = <<"categories", category>> /\ given # <<>>
  BY <1>3, <1>6, <1>7
<1>9. supplier # NULL => 2 \in DOMAIN given /\ given[2] = <<"suppliers", supplier>>
  BY <1>3, <1>4, <1>6, <1>7
<1> QED
  BY <1>1, <1>2, <1>5, <1>6, <1>8, <1>9 DEF NamesGiven, Range

LEMMA RestOf ==
    ASSUME NEW S, NEW s \in Seq(S), s # <<>>
    PROVE  /\ Head(s) \in S /\ Tail(s) \in Seq(S)
           /\ \A x \in Range(s) : x = Head(s) \/ x \in Range(Tail(s))
<1>1. Len(s) \in Nat /\ Len(s) > 0 /\ DOMAIN s = 1 .. Len(s)
  OBVIOUS
<1>2. PICK t : t = Tail(s)
  OBVIOUS
<1>3. t \in Seq(S) /\ Len(t) = Len(s) - 1 /\ DOMAIN t = 1 .. Len(t) /\ \A i \in 1 .. Len(t) : t[i] = s[i + 1]
  BY <1>1, <1>2
<1>4. Head(s) = s[1] /\ Head(s) \in S
  BY <1>1
<1>5. ASSUME NEW i \in DOMAIN s PROVE s[i] = Head(s) \/ s[i] \in Range(t)
  <2>1. CASE i = 1
    BY <1>4, <2>1
  <2>2. CASE i # 1
    <3>1. i - 1 \in DOMAIN t /\ t[i - 1] = s[i]
      BY <1>1, <1>3, <2>2
    <3> QED
      BY <3>1 DEF Range
  <2> QED
    BY <2>1, <2>2
<1> QED
  BY <1>2, <1>3, <1>4, <1>5 DEF Range

-----------------------------------------------------------------------------
(* The rows of the tenant, and the local state of the requests on them.    *)
Held == EditPcs \cup (SpendPcs \ LooksUp)
LocalTyped(l, ids) ==
    /\ "id" \in DOMAIN l => l.pc \in ItemPcs /\ l.id \in ids
    /\ l.pc \in Held => "id" \in DOMAIN l
    /\ l.pc \in SpendPcs /\ "id" \in DOMAIN l => "amount" \in DOMAIN l
    /\ l.pc \in LooksUp =>
          /\ "todo" \in DOMAIN l /\ l.todo \in Seq(Collections \X Typed) /\ l.todo # <<>>
          /\ \/ l.next = "insert_item" /\ "form" \in DOMAIN l /\ l.form \in Forms /\ "id" \notin DOMAIN l
             \/ l.next = "find_expense" /\ "id" \in DOMAIN l
             \/ l.next = "answer" /\ "id" \notin DOMAIN l
    /\ l.pc = "insert_item" => l.form \in Forms /\ "id" \notin DOMAIN l
    /\ l.pc = "write_stock" => l.updates \in Restocking
    /\ l.pc = "write_item" => l.payload \in Edits /\ EditOf(l.updates, l.payload)

TenantInv ==
    /\ items \in Seq(Items \cup {NULL})
    /\ names \in [Collections -> Seq(Typed)]
    /\ expenses \in Seq(Range(expenses)) /\ DOMAIN expenses = DOMAIN items
    /\ due \in Seq(Range(due)) /\ DOMAIN due = DOMAIN items
    /\ \A r \in Reqs : LocalTyped(req[r], DOMAIN items)

LEMMA LocalOut ==
    ASSUME NEW l, Out(l), NEW ids
    PROVE  LocalTyped(l, ids)
  BY DEF Out, LocalTyped, TenantPcs, SpendPcs, LooksUp, PushPcs, EditPcs, Held

LEMMA LocalAside ==
    ASSUME NEW l, NEW m, NEW ids, LocalTyped(l, ids), KeepsOff(l, m)
    PROVE  LocalTyped(m, ids)
<1>1. CASE {l.pc, m.pc} \subseteq PushPcs /\ DOMAIN m = DOMAIN l /\ ("id" \in DOMAIN l => m.id = l.id)
  BY <1>1 DEF LocalTyped, SpendPcs, LooksUp, PushPcs, EditPcs, Held, ItemPcs
<1> QED
  BY <1>1, LocalOut DEF KeepsOff

LEMMA LocalGrows ==
    ASSUME NEW l, NEW ids, NEW more, LocalTyped(l, ids), ids \subseteq more
    PROVE  LocalTyped(l, more)
  BY DEF LocalTyped

LEMMA TenantIds == TenantInv => IdsHeld
  BY DEF TenantInv, LocalTyped, IdsHeld

(* The requests that work on item i.                                       *)
Worker(r, i) == "id" \in DOMAIN req[r] /\ req[r].pc \notin PushPcs /\ req[r].id = i

LEMMA ItemNotNull == \A i \in Nat : TheItem(i) # NULL
  BY NothingAssumption, SMT DEF TheItem

LEMMA WorkerWorks ==
    ASSUME LocalsReady, IdsHeld, NEW r \in Reqs, NEW i \in Nat
    PROVE  Worker(r, i) <=> Working(r) = TheItem(i)
<1> USE DEF ItemPcs, SpendPcs, LooksUp, PushPcs, EditPcs
<1>1. CASE "id" \in DOMAIN req[r] /\ req[r].pc \notin PushPcs
  <2>1. /\ "newest" \notin DOMAIN req[r]
        /\ req[r].pc \in ItemPcs
    BY <1>1 DEF LocalsReady, Ready, GenerationReady, IdsHeld
  <2>2. Working(r) = <<"item", req[r].id>>
    BY <1>1, <2>1 DEF Working
  <2> QED
    BY <1>1, <2>2 DEF Worker, TheItem
<1>2. CASE ~("id" \in DOMAIN req[r] /\ req[r].pc \notin PushPcs)
  <2>1. Working(r) # TheItem(i)
    <3>1. \/ Working(r) = NULL \/ Working(r) \in {<<"user", "push_devices">>, <<"user", "notification_settings">>}
          \/ Working(r) = <<"message", req[r].message>>
          \/ Working(r) \in {<<"insight", 0>>, <<"plans", 0>>, <<"customer", 0>>}
          \/ Working(r) \in {<<"settings", "created">>, <<"settings", "legal">>}
      <4>1. CASE "newest" \in DOMAIN req[r]
        <5>1. req[r].pc \in {"ask", "await_text", "wake", "ask_translated", "write_insight"}
          BY <4>1 DEF LocalsReady, Ready, GenerationReady, Generating, Slept, InsightNexts
        <5> QED
          BY <1>2, <4>1, <5>1 DEF Working
      <4>2. CASE "newest" \notin DOMAIN req[r]
        <5>1. CASE req[r].pc \in {"edit_message", "read_context", "reply"}
          BY <1>2, <4>2, <5>1 DEF Working, TheMessage
        <5>2. CASE req[r].pc \in {"write_devices", "write_settings"}
          BY <1>2, <4>2, <5>2 DEF Working
        <5>3. CASE req[r].pc \in {"read_best", "clear_plan", "insert_plan", "write_plan"}
          BY <1>2, <4>2, <5>3 DEF Working
        <5>4. CASE req[r].pc \in {"create_customer", "write_customer"}
          BY <1>2, <4>2, <5>4 DEF Working
        <5>5. CASE req[r].pc \in {"create_settings", "upgrade_settings", "write_legal"}
          BY <1>2, <4>2, <5>5 DEF Working
        <5>6. CASE req[r].pc \notin {"edit_message", "read_context", "reply", "write_devices", "write_settings",
                                     "read_best", "clear_plan", "insert_plan", "write_plan", "create_customer",
                                     "write_customer", "create_settings", "upgrade_settings", "write_legal"}
          BY <1>2, <4>2, <5>6 DEF Working
        <5> QED
          BY <5>1, <5>2, <5>3, <5>4, <5>5, <5>6
      <4> QED
        BY <4>1, <4>2
    <3> QED
      BY <3>1, ItemNotNull DEF TheItem
  <2> QED
    BY <1>2, <2>1 DEF Worker
<1> QED
  BY <1>1, <1>2

(* Two requests on an item at once are seen.                               *)
LEMMA WorkersSeen ==
    ASSUME LocalsReady', IdsHeld', mixed' = mixed \cup SharedWork',
           NEW i \in Nat, TheItem(i) \notin mixed',
           NEW p \in Reqs, NEW q \in Reqs, Worker(p, i)', Worker(q, i)'
    PROVE  p = q
<1>1. ASSUME NEW r \in Reqs, Worker(r, i)'
      PROVE  Working(r)' = TheItem(i)
  <2>1. /\ "id" \in DOMAIN req'[r] /\ req'[r].pc \notin PushPcs /\ req'[r].id = i
        /\ req'[r].pc \in ItemPcs /\ "newest" \notin DOMAIN req'[r]
    BY <1>1 DEF Worker, LocalsReady, Ready, GenerationReady, IdsHeld
  <2> QED
    BY <2>1 DEF Working, TheItem, ItemPcs, SpendPcs, LooksUp, PushPcs, EditPcs
<1> QED
  BY <1>1, WorkShared, ItemNotNull

(* What is due of the items.                                               *)
LEMMA DueSo ==
    ASSUME LocalsReady, TenantInv, DueNext, Len(items') = Len(items)
    PROVE  /\ due' \in Seq(Range(due')) /\ DOMAIN due' = DOMAIN due
           /\ \A i \in DOMAIN due : (\A r \in Reqs : Worker(r, i) => ~Writes(r)) => due'[i] = due[i]
           /\ \A i \in DOMAIN due, r \in Reqs :
                 Worker(r, i) /\ Writes(r) /\ (\A q \in Reqs \ {r} : ~Writes(q)) =>
                    due'[i] = IF At(r, "write_stock") THEN DueAfterStock(due[i], req[r].payload)
                              ELSE DueAfterEdit(due[i], req[r].payload)
<1>0. ~(Len(items') > Len(items)) /\ DOMAIN due \subseteq Nat
  BY LenProperties DEF TenantInv
<1>1. due' = [i \in DOMAIN due |->
                LET by == {r \in Reqs : Working(r) = TheItem(i) /\ Writes(r)}
                    r == CHOOSE q \in by : TRUE IN
                IF by = {} THEN due[i]
                ELSE IF At(r, "write_stock") THEN DueAfterStock(due[i], req[r].payload)
                ELSE DueAfterEdit(due[i], req[r].payload)]
  BY <1>0 DEF DueNext
<1>2. due' \in Seq(Range(due')) /\ DOMAIN due' = DOMAIN due
  <2>1. DOMAIN due' = DOMAIN due /\ due' = [i \in DOMAIN due' |-> due'[i]]
    BY <1>1
  <2> QED
    BY <2>1, Altered DEF TenantInv
<1>3. ASSUME NEW i \in DOMAIN due, \A r \in Reqs : Worker(r, i) => ~Writes(r)
      PROVE  due'[i] = due[i]
  <2>1. \A r \in Reqs : ~(Working(r) = TheItem(i) /\ Writes(r))
    BY <1>0, <1>3, WorkerWorks, TenantIds
  <2> QED
    BY <1>1, <1>3, <2>1
<1>4. ASSUME NEW i \in DOMAIN due, NEW r \in Reqs, Worker(r, i), Writes(r), \A q \in Reqs \ {r} : ~Writes(q)
      PROVE  due'[i] = IF At(r, "write_stock") THEN DueAfterStock(due[i], req[r].payload)
                       ELSE DueAfterEdit(due[i], req[r].payload)
  <2>1. PICK by : by = {q \in Reqs : Working(q) = TheItem(i) /\ Writes(q)}
    OBVIOUS
  <2>2. Working(r) = TheItem(i)
    BY <1>0, <1>4, WorkerWorks, TenantIds
  <2>3. by = {r}
    BY <1>4, <2>1, <2>2
  <2>4. (CHOOSE q \in by : TRUE) = r
    BY <2>3
  <2>5. due'[i] = LET w == CHOOSE q \in by : TRUE IN
                  IF by = {} THEN due[i]
                  ELSE IF At(w, "write_stock") THEN DueAfterStock(due[i], req[w].payload)
                  ELSE DueAfterEdit(due[i], req[w].payload)
    BY <1>1, <1>4, <2>1
  <2> QED
    BY <2>3, <2>4, <2>5
<1> QED
  BY <1>2, <1>3, <1>4

LEMMA NotWriting ==
    ASSUME NEW r \in Reqs,
           \/ req'[r] = req[r]
           \/ req[r].pc \notin {"write_stock", "write_item"}
           \/ items' = items /\ (req[r].pc = "write_stock" \/ req'[r] = Idle)
    PROVE  ~Writes(r)
  BY DEF Writes, At

-----------------------------------------------------------------------------
(* What there is to do about names and items.                              *)
NamesMove(r) == FindName(r) \/ InsertName(r) \/ \E c \in Collections, n \in Typed : CreateName(r, c, n)
OnItems(r) ==
    \/ NamesMove(r) /\ UNCHANGED <<items, expenses>>
    \/ (InventoryArrive(r) \/ InventoryStep(r)) /\ UNCHANGED names

LEMMA ApartOrNot ==
    ASSUME LocalsReady, IdsHeld, LocalsReady', NEW r \in Reqs, OnTenant(r)
    PROVE  Apart \/ OnItems(r)
<1> USE DEF TenantPcs, ItemPcs, SpendPcs, LooksUp, PushPcs, EditPcs
<1>1. CASE NamesArrive(r) /\ UNCHANGED inventoryVars /\ ~OnItems(r)
  <2>1. \/ \E n \in Typed : BeginCreateAccount(r, n)
        \/ \E i \in Open : BeginDeleteAccount(r, i) \/ \E n \in Typed : BeginRenameAccount(r, i, n)
    BY <1>1 DEF NamesArrive, OnItems, NamesMove, inventoryVars
  <2>2. BeginsOut(r) /\ UNCHANGED names
    <3>1. ASSUME NEW n, BeginCreateAccount(r, n) PROVE BeginsOut(r) /\ UNCHANGED names
      BY <3>1 DEF BeginCreateAccount, BeginsOut, Out, namesVars
    <3>2. ASSUME NEW i, NEW n, BeginRenameAccount(r, i, n) PROVE BeginsOut(r) /\ UNCHANGED names
      BY <3>2 DEF BeginRenameAccount, BeginsOut, Out, namesVars
    <3>3. ASSUME NEW i, BeginDeleteAccount(r, i) PROVE BeginsOut(r) /\ UNCHANGED names
      BY <3>3 DEF BeginDeleteAccount, BeginsOut, Out, namesVars
    <3> QED
      BY <2>1, <3>1, <3>2, <3>3
  <2>3. At(r, "idle") /\ StaysOut(r)
    BY <2>2, BegunOut
  <2>4. Out(req[r])
    BY <2>3, OutFrom DEF At
  <2>5. Out(req'[r]) /\ \A q \in Reqs \ {r} : req'[q] = req[q]
    BY <2>3, <2>4, OutSo
  <2> QED
    BY <1>1, <2>2, <2>4, <2>5 DEF Apart, KeepsOff, LocalsReady, inventoryVars
<1>2. CASE NamesStep(r) /\ UNCHANGED inventoryVars /\ ~OnItems(r)
  <2>1. InsertAccount(r) \/ RenameAccount(r) \/ DeleteAccount(r) \/ Answer(r)
    BY <1>2 DEF NamesStep, OnItems, NamesMove, inventoryVars
  <2>2. Done(r) /\ UNCHANGED names
    BY <2>1 DEF InsertAccount, RenameAccount, DeleteAccount, Answer, namesVars
  <2>3. req'[r] = Idle /\ \A q \in Reqs \ {r} : req'[q] = req[q]
    BY <2>2, Steps
  <2> QED
    BY <1>2, <2>2, <2>3, OutIdle DEF Apart, KeepsOff, LocalsReady, inventoryVars
<1>3. CASE InventoryPush(r) /\ UNCHANGED namesVars
  <2>1. UNCHANGED inventoryVars /\ req[r].pc \in PushPcs /\ (Done(r) \/ Goto(r, "push_low_stock"))
    BY <1>3 DEF InventoryPush, PushItem, PushLowStock, At
  <2>2. CASE Done(r)
    <3>1. req'[r] = Idle /\ \A q \in Reqs \ {r} : req'[q] = req[q]
      BY <2>2, Steps
    <3> QED
      BY <2>1, <3>1, <1>3, OutIdle DEF Apart, KeepsOff, LocalsReady, inventoryVars, namesVars
  <2>3. CASE Goto(r, "push_low_stock")
    <3>1. /\ req'[r].pc = "push_low_stock" /\ DOMAIN req'[r] = DOMAIN req[r]
          /\ \A f \in DOMAIN req[r] \ {"pc"} : req'[r][f] = req[r][f]
          /\ \A q \in Reqs \ {r} : req'[q] = req[q]
      BY <2>3, Steps
    <3> QED
      BY <2>1, <3>1, <1>3 DEF Apart, KeepsOff, LocalsReady, inventoryVars, namesVars
  <2> QED
    BY <2>1, <2>2, <2>3
<1> QED
  BY <1>1, <1>2, <1>3 DEF OnTenant, OnItems, namesVars

(* A name is looked up, or written.                                        *)
LEMMA LooksSo ==
    ASSUME LocalsReady, TenantInv, NEW r \in Reqs, FindName(r) \/ InsertName(r)
    PROVE  /\ req[r].pc \in LooksUp /\ names' \in [Collections -> Seq(Typed)]
           /\ \A c \in Collections, n \in Typed : Listed(c, n) => Listed(c, n)'
           /\ \A q \in Reqs \ {r} : req'[q] = req[q]
           /\ \/ /\ DOMAIN req'[r] = DOMAIN req[r] /\ req'[r].todo = Tail(req[r].todo)
                 /\ req'[r].pc = IF Tail(req[r].todo) = <<>> THEN req[r].next ELSE "find_name"
                 /\ \A f \in DOMAIN req[r] \ {"pc", "todo"} : req'[r][f] = req[r][f]
                 /\ \E c \in Collections, n \in Typed : Head(req[r].todo) = <<c, n>> /\ Listed(c, n)'
              \/ /\ DOMAIN req'[r] = DOMAIN req[r] /\ req'[r].pc = "insert_name"
                 /\ \A f \in DOMAIN req[r] \ {"pc"} : req'[r][f] = req[r][f]
              \/ req'[r] = Idle
<1>1. req[r].pc \in LooksUp /\ "pc" \in DOMAIN req[r]
  BY DEF FindName, InsertName, At, LooksUp, LocalsReady, Ready
<1>2. /\ "todo" \in DOMAIN req[r] /\ req[r].todo \in Seq(Collections \X Typed) /\ req[r].todo # <<>>
      /\ names \in [Collections -> Seq(Typed)]
  BY <1>1 DEF TenantInv, LocalTyped
<1>3. PICK p : p = Head(req[r].todo)
  OBVIOUS
<1>4. PICK c \in Collections, n \in Typed : p = <<c, n>>
  BY <1>2, <1>3, RestOf
<1>11. p[1] = c /\ p[2] = n
  BY <1>4
<1>5. ASSUME AfterNames(r)
      PROVE  /\ DOMAIN req'[r] = DOMAIN req[r] /\ req'[r].todo = Tail(req[r].todo)
             /\ req'[r].pc = IF Tail(req[r].todo) = <<>> THEN req[r].next ELSE "find_name"
             /\ \A f \in DOMAIN req[r] \ {"pc", "todo"} : req'[r][f] = req[r][f]
             /\ \A q \in Reqs \ {r} : req'[q] = req[q]
  <2>1. PICK rest : rest = Tail(req[r].todo)
    OBVIOUS
  <2>2. PICK l : l = [req[r] EXCEPT !.todo = rest, !.pc = IF rest = <<>> THEN req[r].next ELSE "find_name"]
    OBVIOUS
  <2>3. Keep(r, l)
    BY <1>5, <2>1, <2>2 DEF AfterNames
  <2>4. /\ DOMAIN l = DOMAIN req[r] /\ l.todo = rest
        /\ l.pc = IF rest = <<>> THEN req[r].next ELSE "find_name"
        /\ \A f \in DOMAIN req[r] \ {"pc", "todo"} : l[f] = req[r][f]
    BY <1>1, <1>2, <2>2
  <2>5. req'[r] = l /\ \A q \in Reqs \ {r} : req'[q] = req[q]
    BY <2>3, Steps
  <2> QED
    BY <2>1, <2>4, <2>5
<1>6. ASSUME UNCHANGED names
      PROVE  /\ names' \in [Collections -> Seq(Typed)]
             /\ \A d \in Collections, m \in Typed : Listed(d, m) <=> Listed(d, m)'
  BY <1>2, <1>6 DEF Listed
<1>7. CASE FindName(r) /\ Listed(c, n)
  <2>1. AfterNames(r) /\ UNCHANGED names
    BY <1>3, <1>11, <1>7 DEF FindName, namesVars
  <2> QED
    BY <1>1, <1>3, <1>4, <1>5, <1>6, <1>7, <2>1
<1>8. CASE FindName(r) /\ ~Listed(c, n)
  <2>1. Goto(r, "insert_name") /\ UNCHANGED names
    BY <1>3, <1>11, <1>8 DEF FindName, namesVars
  <2> QED
    BY <1>1, <1>6, <2>1, Steps
<1>9. CASE InsertName(r) /\ Listed(c, n)
  <2>1. Done(r) /\ UNCHANGED names
    BY <1>3, <1>11, <1>9 DEF InsertName, Raised
  <2> QED
    BY <1>1, <1>6, <2>1, Steps
<1>10. CASE InsertName(r) /\ ~Listed(c, n)
  <2>1. names' = [names EXCEPT ![p[1]] = Append(@, p[2])] /\ AfterNames(r)
    BY <1>3, <1>11, <1>10 DEF InsertName
  <2>3. PICK s : s = Append(names[c], n)
    OBVIOUS
  <2>4. names[c] \in Seq(Typed)
    BY <1>2
  <2>5. /\ s \in Seq(Typed) /\ DOMAIN names[c] \subseteq DOMAIN s
        /\ \A k \in DOMAIN names[c] : s[k] = names[c][k]
        /\ Len(s) \in DOMAIN s /\ s[Len(s)] = n
    BY <2>3, <2>4
  <2>7. names' = [names EXCEPT ![c] = s]
    BY <1>11, <2>1, <2>3
  <2>8. names' \in [Collections -> Seq(Typed)] /\ names'[c] = s /\ \A d \in Collections \ {c} : names'[d] = names[d]
    BY <1>2, <2>5, <2>7
  <2>9. Listed(c, n)'
    BY <2>5, <2>8 DEF Listed
  <2>10. \A d \in Collections, m \in Typed : Listed(d, m) => Listed(d, m)'
    BY <2>5, <2>8 DEF Listed
  <2> QED
    BY <1>1, <1>3, <1>4, <1>5, <2>1, <2>8, <2>9, <2>10
<1> QED
  BY <1>7, <1>8, <1>9, <1>10

(* What the handlers of items leave in their local state.                  *)
Alone(r) == \A q \in Reqs \ {r} : req'[q] = req[q]

LEMMA CreateItemSo ==
    ASSUME LocalsReady, NEW r \in Reqs, NEW form, BeginCreateItem(r, form)
    PROVE  /\ Alone(r) /\ req[r].pc = "idle" /\ UNCHANGED <<items, expenses>>
           /\ DOMAIN req'[r] = {"pc", "todo", "next", "form", "user"}
           /\ req'[r].pc = "find_name" /\ req'[r].next = "insert_item" /\ req'[r].form = form
           /\ req'[r].todo = NamesGiven(form.category, form.supplier_name) /\ req'[r].user = user
<1>1. PICK l : l = [pc |-> "find_name", todo |-> NamesGiven(form.category, form.supplier_name),
                    next |-> "insert_item", form |-> form, user |-> user]
  OBVIOUS
<1>2. Begin(r, l) /\ UNCHANGED <<items, expenses>>
  BY <1>1 DEF BeginCreateItem, inventoryVars
<1>3. req'[r] = l /\ Alone(r) /\ req[r].pc = "idle"
  BY <1>2, Steps DEF Alone
<1> QED
  BY <1>1, <1>2, <1>3

LEMMA CreateNameSo ==
    ASSUME LocalsReady, NEW r \in Reqs, NEW c, NEW n, CreateName(r, c, n)
    PROVE  /\ Alone(r) /\ req[r].pc = "idle" /\ UNCHANGED names
           /\ DOMAIN req'[r] = {"pc", "todo", "next"}
           /\ req'[r].pc = "find_name" /\ req'[r].next = "answer" /\ req'[r].todo = << <<c, n>> >>
<1>1. PICK l : l = [pc |-> "find_name", todo |-> << <<c, n>> >>, next |-> "answer"]
  OBVIOUS
<1>2. Begin(r, l) /\ UNCHANGED names
  BY <1>1 DEF CreateName, namesVars
<1>3. req'[r] = l /\ Alone(r) /\ req[r].pc = "idle"
  BY <1>2, Steps DEF Alone
<1> QED
  BY <1>1, <1>2, <1>3

LEMMA UpdateStockSo ==
    ASSUME LocalsReady, NEW r \in Reqs, NEW i, NEW a, NEW m, BeginUpdateStock(r, i, a, m)
    PROVE  /\ Alone(r) /\ req[r].pc = "idle" /\ UNCHANGED <<items, expenses>>
           /\ i \in Kept /\ m <= items[i].stock_quantity /\ items[i].stock_quantity + a <= MaxStock
           /\ DOMAIN req'[r] = {"pc", "id", "user", "payload", "updates"}
           /\ req'[r].pc = "write_stock" /\ req'[r].id = i
           /\ req'[r].payload.add_stock = a /\ req'[r].payload.remove_stock = m
           /\ req'[r].updates = Restocked(items[i], a, m) /\ req'[r].user = user
<1>1. PICK updates : updates = Restocked(items[i], a, m)
  OBVIOUS
<1>2. PICK payload : payload = [add_stock |-> a, remove_stock |-> m]
  OBVIOUS
<1>3. PICK l : l = [pc |-> "write_stock", id |-> i, user |-> user, payload |-> payload, updates |-> updates]
  OBVIOUS
<1>4. Begin(r, l) /\ UNCHANGED <<items, expenses>>
  BY <1>1, <1>2, <1>3 DEF BeginUpdateStock, inventoryVars
<1>5. req'[r] = l /\ Alone(r) /\ req[r].pc = "idle"
  BY <1>4, Steps DEF Alone
<1> QED
  BY <1>1, <1>2, <1>3, <1>4, <1>5 DEF BeginUpdateStock

LEMMA UpdateItemSo ==
    ASSUME LocalsReady, NEW r \in Reqs, NEW i, NEW edit, BeginUpdateItem(r, i, edit)
    PROVE  /\ Alone(r) /\ req[r].pc = "idle" /\ UNCHANGED <<items, expenses>> /\ i \in Kept
           /\ DOMAIN req'[r] = {"pc", "id", "payload", "updates"}
           /\ req'[r].pc = "write_item" /\ req'[r].id = i
           /\ req'[r].payload = edit /\ req'[r].updates = Edited(items[i], edit)
<1>1. PICK updates : updates = Edited(items[i], edit)
  OBVIOUS
<1>2. PICK l : l = [pc |-> "write_item", id |-> i, payload |-> edit, updates |-> updates]
  OBVIOUS
<1>3. Begin(r, l) /\ UNCHANGED <<items, expenses>> /\ i \in Kept
  BY <1>1, <1>2 DEF BeginUpdateItem, inventoryVars
<1>4. req'[r] = l /\ Alone(r) /\ req[r].pc = "idle"
  BY <1>3, Steps DEF Alone
<1> QED
  BY <1>1, <1>2, <1>3, <1>4

LEMMA BeginDeleteSo ==
    ASSUME LocalsReady, NEW r \in Reqs, NEW i, BeginDeleteItem(r, i)
    PROVE  /\ Alone(r) /\ req[r].pc = "idle" /\ UNCHANGED <<items, expenses>> /\ i \in Kept
           /\ DOMAIN req'[r] = {"pc", "id"} /\ req'[r].pc = "delete_expense" /\ req'[r].id = i
<1>1. PICK l : l = [pc |-> "delete_expense", id |-> i]
  OBVIOUS
<1>2. Begin(r, l) /\ UNCHANGED <<items, expenses>> /\ i \in Kept
  BY <1>1 DEF BeginDeleteItem, inventoryVars
<1>3. req'[r] = l /\ Alone(r) /\ req[r].pc = "idle"
  BY <1>2, Steps DEF Alone
<1> QED
  BY <1>1, <1>2, <1>3

LEMMA InsertItemSo ==
    ASSUME LocalsReady, NEW r \in Reqs, InsertItem(r)
    PROVE  /\ Alone(r) /\ req[r].pc = "insert_item"
           /\ items' = Append(items, Item(req[r].form)) /\ expenses' = Append(expenses, <<>>)
           /\ DOMAIN req'[r] = {"pc", "id", "amount", "after", "status", "user"}
           /\ req'[r].pc = "find_expense" /\ req'[r].id = Len(items') /\ req'[r].amount = req[r].form.stock_quantity
           /\ req'[r].after = "push_item" /\ req'[r].user = req[r].user
<1>1. PICK n : n = Len(items')
  OBVIOUS
<1>2. PICK status : status = Item(req[r].form).stock_status
  OBVIOUS
<1>3. PICK l : l = [pc |-> "find_expense", id |-> n, amount |-> req[r].form.stock_quantity,
                    after |-> "push_item", status |-> status, user |-> req[r].user]
  OBVIOUS
<1>4. Keep(r, l)
  BY <1>1, <1>2, <1>3 DEF InsertItem
<1>5. req'[r] = l /\ Alone(r)
  BY <1>4, Steps DEF Alone
<1> QED
  BY <1>1, <1>3, <1>5 DEF InsertItem, At

(* The steps that only go on, or end.                                      *)
GoesOn(r, p) ==
    /\ req'[r].pc = p /\ DOMAIN req'[r] = DOMAIN req[r]
    /\ \A f \in DOMAIN req[r] \ {"pc"} : req'[r][f] = req[r][f]

LEMMA GoesOnSo ==
    ASSUME LocalsReady, NEW r \in Reqs
    PROVE  /\ \A p : Goto(r, p) => GoesOn(r, p) /\ Alone(r)
           /\ Done(r) => req'[r] = Idle /\ Alone(r)
  BY Steps DEF GoesOn, Alone

LEMMA WriteItemSo ==
    ASSUME LocalsReady, NEW r \in Reqs, WriteItem(r), items[req[r].id] # NULL
    PROVE  LET new == With(items[req[r].id], req[r].updates)
           IN  /\ Alone(r) /\ req[r].pc = "write_item" /\ UNCHANGED expenses
               /\ items' = [items EXCEPT ![req[r].id] = new]
               /\ DOMAIN req'[r] = {"pc", "todo", "next", "id", "amount", "after"}
               /\ req'[r].pc = "find_name" /\ req'[r].next = "find_expense" /\ req'[r].id = req[r].id
               /\ req'[r].amount = new.stock_quantity /\ req'[r].after = "answer"
               /\ req'[r].todo = NamesGiven(new.category, new.supplier_name)
<1>1. PICK new : new = With(items[req[r].id], req[r].updates)
  OBVIOUS
<1>2. PICK l : l = [pc |-> "find_name", todo |-> NamesGiven(new.category, new.supplier_name),
                    next |-> "find_expense", id |-> req[r].id, amount |-> new.stock_quantity, after |-> "answer"]
  OBVIOUS
<1>3. Keep(r, l) /\ items' = [items EXCEPT ![req[r].id] = new]
  BY <1>1, <1>2 DEF WriteItem
<1>4. req'[r] = l /\ Alone(r)
  BY <1>3, Steps DEF Alone
<1> QED
  BY <1>1, <1>2, <1>3, <1>4 DEF WriteItem, At

-----------------------------------------------------------------------------
(* Rows and local states stay what they are.                               *)
LEMMA OneTyped ==
    ASSUME TenantInv, NEW r \in Reqs, Alone(r),
           names' \in [Collections -> Seq(Typed)],
           items' \in Seq(Items \cup {NULL}), DOMAIN items \subseteq DOMAIN items',
           expenses' \in Seq(Range(expenses')), DOMAIN expenses' = DOMAIN items',
           due' \in Seq(Range(due')), DOMAIN due' = DOMAIN items',
           LocalTyped(req'[r], DOMAIN items')
    PROVE  TenantInv'
<1>1. ASSUME NEW q \in Reqs
      PROVE  LocalTyped(req'[q], DOMAIN items')
  <2>1. CASE q # r
    <3>1. LocalTyped(req[q], DOMAIN items) /\ req'[q] = req[q]
      BY <2>1 DEF TenantInv, Alone
    <3> QED
      BY <3>1, LocalGrows
  <2> QED
    BY <2>1
<1> QED
  BY <1>1 DEF TenantInv

LEMMA NamesTyped ==
    ASSUME LocalsReady, TenantInv, NEW r \in Reqs, FindName(r) \/ InsertName(r)
    PROVE  LocalTyped(req'[r], DOMAIN items)
<1> USE DEF TenantPcs, ItemPcs, SpendPcs, LooksUp, PushPcs, EditPcs, Held
<1>1. /\ req[r].pc \in LooksUp /\ LocalTyped(req[r], DOMAIN items)
      /\ "next" \in DOMAIN req[r] /\ "pc" \in DOMAIN req[r]
  BY LooksSo DEF TenantInv, LocalsReady, Ready, NamesReady
<1>2. /\ "todo" \in DOMAIN req[r] /\ req[r].todo \in Seq(Collections \X Typed) /\ req[r].todo # <<>>
      /\ \/ req[r].next = "insert_item" /\ "form" \in DOMAIN req[r] /\ req[r].form \in Forms /\ "id" \notin DOMAIN req[r]
         \/ req[r].next = "find_expense" /\ "id" \in DOMAIN req[r]
         \/ req[r].next = "answer" /\ "id" \notin DOMAIN req[r]
      /\ "id" \in DOMAIN req[r] => req[r].id \in DOMAIN items /\ "amount" \in DOMAIN req[r]
  BY <1>1 DEF LocalTyped
<1>3. PICK rest : rest = Tail(req[r].todo)
  OBVIOUS
<1>4. rest \in Seq(Collections \X Typed)
  BY <1>2, <1>3, RestOf
<1>5. CASE /\ DOMAIN req'[r] = DOMAIN req[r] /\ req'[r].todo = rest
           /\ req'[r].pc = IF rest = <<>> THEN req[r].next ELSE "find_name"
           /\ \A f \in DOMAIN req[r] \ {"pc", "todo"} : req'[r][f] = req[r][f]
  <2>1. /\ req'[r].next = req[r].next
        /\ "form" \in DOMAIN req[r] => req'[r].form = req[r].form
        /\ "id" \in DOMAIN req[r] => req'[r].id = req[r].id
    BY <1>1, <1>5
  <2> QED
    BY <1>2, <1>4, <1>5, <2>1 DEF LocalTyped
<1>6. CASE /\ DOMAIN req'[r] = DOMAIN req[r] /\ req'[r].pc = "insert_name"
           /\ \A f \in DOMAIN req[r] \ {"pc"} : req'[r][f] = req[r][f]
  <2>1. /\ req'[r].next = req[r].next /\ req'[r].todo = req[r].todo
        /\ "form" \in DOMAIN req[r] => req'[r].form = req[r].form
        /\ "id" \in DOMAIN req[r] => req'[r].id = req[r].id
    BY <1>1, <1>2, <1>6
  <2> QED
    BY <1>2, <1>6, <2>1 DEF LocalTyped
<1>7. CASE req'[r] = Idle
  BY <1>7, OutIdle, LocalOut
<1> QED
  BY <1>3, <1>5, <1>6, <1>7, LooksSo

(* What a step on an item does to the rows.                                *)
OnRows ==
    /\ items' \in Seq(Items \cup {NULL}) /\ Len(items') = Len(items) /\ DOMAIN items' = DOMAIN items
    /\ expenses' \in Seq(Range(expenses')) /\ DOMAIN expenses' = DOMAIN expenses

LEMMA ItemsUnchanged ==
    ASSUME TenantInv, UNCHANGED <<items, expenses>>
    PROVE  OnRows
  BY DEF TenantInv, OnRows

LEMMA RowWritten ==
    ASSUME TenantInv, NEW i \in DOMAIN items, NEW row \in Items \cup {NULL},
           items' = [items EXCEPT ![i] = row], UNCHANGED expenses
    PROVE  OnRows /\ items'[i] = row /\ \A j \in DOMAIN items \ {i} : items'[j] = items[j]
  BY DEF TenantInv, OnRows

LEMMA ExpenseWritten ==
    ASSUME TenantInv, NEW i \in DOMAIN items, NEW e,
           expenses' = [expenses EXCEPT ![i] = e], UNCHANGED items
    PROVE  OnRows /\ expenses'[i] = e /\ \A j \in DOMAIN items \ {i} : expenses'[j] = expenses[j]
<1>1. /\ DOMAIN expenses' = DOMAIN expenses /\ expenses' = [j \in DOMAIN expenses' |-> expenses'[j]]
      /\ expenses'[i] = e /\ \A j \in DOMAIN items \ {i} : expenses'[j] = expenses[j]
  BY DEF TenantInv
<1> QED
  BY <1>1, Altered DEF TenantInv, OnRows

LEMMA ArriveTyped ==
    ASSUME LocalsReady, TenantInv, NEW r \in Reqs, InventoryArrive(r)
    PROVE  UNCHANGED <<items, expenses>> /\ Alone(r) /\ LocalTyped(req'[r], DOMAIN items)
<1> USE DEF ItemPcs, SpendPcs, LooksUp, PushPcs, EditPcs, Held
<1>1. ASSUME NEW form \in Forms, BeginCreateItem(r, form)
      PROVE  UNCHANGED <<items, expenses>> /\ Alone(r) /\ LocalTyped(req'[r], DOMAIN items)
  <2>1. form.category \in Typed /\ form.supplier_name \in Typed \cup {NULL}
    <3>1. Item(form) \in Items /\ Item(form).category = form.category /\ Item(form).supplier_name = form.supplier_name
      BY ItemMade
    <3> QED
      BY <3>1 DEF Items
  <2>2. /\ NamesGiven(form.category, form.supplier_name) \in Seq(Collections \X Typed)
        /\ NamesGiven(form.category, form.supplier_name) # <<>>
    BY <2>1, NamesGivenSo
  <2> QED
    BY <1>1, <2>2, CreateItemSo DEF LocalTyped
<1>2. ASSUME NEW i \in Kept, NEW a \in Quantities, NEW m \in Quantities, BeginUpdateStock(r, i, a, m)
      PROVE  UNCHANGED <<items, expenses>> /\ Alone(r) /\ LocalTyped(req'[r], DOMAIN items)
  <2>1. items[i] \in Items /\ i \in DOMAIN items
    BY DEF Kept, TenantInv
  <2>2. Restocked(items[i], a, m) \in Restocking
    BY <1>2, <2>1, UpdateStockSo, RestockedTyped
  <2> QED
    BY <1>2, <2>1, <2>2, UpdateStockSo DEF LocalTyped
<1>3. ASSUME NEW i \in Kept, NEW edit \in Edits, BeginUpdateItem(r, i, edit)
      PROVE  UNCHANGED <<items, expenses>> /\ Alone(r) /\ LocalTyped(req'[r], DOMAIN items)
  <2>1. EditOf(Edited(items[i], edit), edit)
    BY EditedSo
  <2> QED
    BY <1>3, <2>1, UpdateItemSo DEF LocalTyped, Kept
<1>4. ASSUME NEW i \in Kept, BeginDeleteItem(r, i)
      PROVE  UNCHANGED <<items, expenses>> /\ Alone(r) /\ LocalTyped(req'[r], DOMAIN items)
  BY <1>4, BeginDeleteSo DEF LocalTyped, Kept
<1> QED
  BY <1>1, <1>2, <1>3, <1>4 DEF InventoryArrive

(* The item a step works on.                                               *)
LEMMA OnItem ==
    ASSUME LocalsReady, TenantInv, NEW r \in Reqs, InventoryStep(r), ~InsertItem(r)
    PROVE  /\ req[r].pc \in Held /\ "id" \in DOMAIN req[r] /\ req[r].id \in DOMAIN items
           /\ req[r].pc \in SpendPcs => "amount" \in DOMAIN req[r] /\ Spends(req[r])
<1>1. req[r].pc \in {"find_expense", "insert_expense", "update_expense"} \cup EditPcs
  BY DEF InventoryStep, FindExpense, InsertExpense, UpdateExpense, WriteStock, WriteItem,
         DeleteExpense, DeleteItem, At, EditPcs
<1>2. req[r].pc \in Held
  BY <1>1 DEF Held, SpendPcs, LooksUp, EditPcs
<1>3. req[r].pc \in SpendPcs => Spends(req[r])
  BY <1>1 DEF LocalsReady, Ready, NamesReady, SpendPcs, LooksUp, EditPcs
<1> QED
  BY <1>2, <1>3 DEF TenantInv, LocalTyped

LEMMA StepTyped ==
    ASSUME LocalsReady, TenantInv, NEW r \in Reqs, InventoryStep(r), ~InsertItem(r)
    PROVE  OnRows /\ Alone(r) /\ LocalTyped(req'[r], DOMAIN items)
<1> USE DEF ItemPcs, SpendPcs, LooksUp, PushPcs, EditPcs, Held
<1>1. PICK i : i = req[r].id
  OBVIOUS
<1>2. /\ req[r].pc \in Held /\ "id" \in DOMAIN req[r] /\ i \in DOMAIN items
      /\ req[r].pc \in SpendPcs => "amount" \in DOMAIN req[r] /\ Spends(req[r])
      /\ "pc" \in DOMAIN req[r]
  BY <1>1, OnItem DEF LocalsReady, Ready
<1>3. ASSUME NEW p, GoesOn(r, p), \/ p \in {"push_low_stock", "push_item", "delete_item", "answer"}
                                  \/ p \in {"insert_expense", "update_expense"} /\ req[r].pc \in SpendPcs
      PROVE  LocalTyped(req'[r], DOMAIN items)
  <2>1. DOMAIN req'[r] = DOMAIN req[r] /\ req'[r].pc = p /\ req'[r].id = i
    BY <1>1, <1>2, <1>3 DEF GoesOn
  <2> QED
    BY <1>2, <1>3, <2>1 DEF LocalTyped
<1>4. Done(r) => LocalTyped(req'[r], DOMAIN items) /\ Alone(r)
  BY GoesOnSo, OutIdle, LocalOut
<1>5. CASE FindExpense(r)
  <2>1. PICK p \in {"insert_expense", "update_expense"} : Goto(r, p)
    BY <1>5 DEF FindExpense
  <2> QED
    BY <1>3, <1>5, <2>1, GoesOnSo, ItemsUnchanged DEF FindExpense, At, inventoryVars
<1>6. CASE InsertExpense(r)
  <2>1. req[r].after \in {"answer", "push_item"}
    BY <1>2, <1>6 DEF InsertExpense, At, Spends
  <2>2. expenses' = [expenses EXCEPT ![i] = Append(expenses[i], req[r].amount)]
    BY <1>1, <1>6 DEF InsertExpense
  <2> QED
    BY <1>2, <1>3, <1>6, <2>1, <2>2, GoesOnSo, ExpenseWritten DEF InsertExpense
<1>7. CASE UpdateExpense(r) /\ expenses[i] = <<>>
  BY <1>1, <1>4, <1>7, ItemsUnchanged DEF UpdateExpense, Raised
<1>8. CASE UpdateExpense(r) /\ expenses[i] # <<>>
  <2>1. req[r].after \in {"answer", "push_item"}
    BY <1>2, <1>8 DEF UpdateExpense, At, Spends
  <2>2. expenses' = [expenses EXCEPT ![i] = [expenses[i] EXCEPT ![1] = req[r].amount]] /\ Goto(r, req[r].after)
    BY <1>1, <1>8 DEF UpdateExpense
  <2> QED
    BY <1>2, <1>3, <1>8, <2>1, <2>2, GoesOnSo, ExpenseWritten DEF UpdateExpense
<1>9. CASE WriteStock(r) /\ items[i] = NULL
  BY <1>1, <1>4, <1>9, ItemsUnchanged DEF WriteStock, Raised
<1>10. CASE WriteStock(r) /\ items[i] # NULL
  <2>1. PICK row : row = With(items[i], req[r].updates)
    OBVIOUS
  <2>2. items[i] \in Items /\ req[r].updates \in Restocking
    BY <1>2, <1>10 DEF TenantInv, LocalTyped, WriteStock, At
  <2>3. row \in Items
    BY <2>1, <2>2, RestockSo
  <2>4. items' = [items EXCEPT ![i] = row] /\ (Goto(r, "push_low_stock") \/ Done(r)) /\ UNCHANGED expenses
    BY <1>1, <1>10, <2>1 DEF WriteStock
  <2> QED
    BY <1>2, <1>3, <1>4, <2>3, <2>4, GoesOnSo, RowWritten
<1>11. CASE WriteItem(r) /\ items[i] = NULL
  BY <1>1, <1>4, <1>11, ItemsUnchanged DEF WriteItem, Raised
<1>12. CASE WriteItem(r) /\ items[i] # NULL
  <2>1. PICK row : row = With(items[i], req[r].updates)
    OBVIOUS
  <2>2. items[i] \in Items /\ req[r].payload \in Edits /\ EditOf(req[r].updates, req[r].payload)
    BY <1>2, <1>12 DEF TenantInv, LocalTyped, WriteItem, At
  <2>3. row \in Items
    BY <2>1, <2>2, EditSo
  <2>4. row.category \in Typed /\ row.supplier_name \in Typed \cup {NULL}
    BY <2>3 DEF Items
  <2>5. /\ NamesGiven(row.category, row.supplier_name) \in Seq(Collections \X Typed)
        /\ NamesGiven(row.category, row.supplier_name) # <<>>
    BY <2>4, NamesGivenSo
  <2>6. /\ Alone(r) /\ UNCHANGED expenses /\ items' = [items EXCEPT ![i] = row]
        /\ DOMAIN req'[r] = {"pc", "todo", "next", "id", "amount", "after"}
        /\ req'[r].pc = "find_name" /\ req'[r].next = "find_expense" /\ req'[r].id = i
        /\ req'[r].todo = NamesGiven(row.category, row.supplier_name)
    BY <1>1, <1>12, <2>1, WriteItemSo
  <2>7. LocalTyped(req'[r], DOMAIN items)
    BY <1>2, <2>5, <2>6 DEF LocalTyped
  <2> QED
    BY <1>2, <2>3, <2>6, <2>7, RowWritten
<1>13. CASE DeleteExpense(r)
  <2>1. Goto(r, "delete_item") /\ UNCHANGED items
    BY <1>13 DEF DeleteExpense
  <2>2. \/ UNCHANGED expenses
        \/ expenses' = [expenses EXCEPT ![i] = Tail(expenses[i])]
    BY <1>1, <1>13 DEF DeleteExpense
  <2> QED
    BY <1>2, <1>3, <2>1, <2>2, GoesOnSo, ExpenseWritten, ItemsUnchanged
<1>14. CASE DeleteItem(r)
  <2>1. items' = [items EXCEPT ![i] = NULL] /\ Done(r) /\ UNCHANGED expenses
    BY <1>1, <1>14 DEF DeleteItem
  <2> QED
    BY <1>2, <1>4, <2>1, RowWritten
<1> QED
  BY <1>5, <1>6, <1>7, <1>8, <1>9, <1>10, <1>11, <1>12, <1>13, <1>14 DEF InventoryStep

LEMMA StepKinds ==
    ASSUME LocalsReady, IdsHeld, LocalsReady', DeskNext
    PROVE  Apart \/ \E r \in Reqs : OnItems(r)
  BY TenantOrNot, ApartOrNot DEF Elsewhere

LEMMA NamesMoveSo ==
    ASSUME LocalsReady, TenantInv, NEW r \in Reqs, NamesMove(r)
    PROVE  Alone(r) /\ names' \in [Collections -> Seq(Typed)] /\ LocalTyped(req'[r], DOMAIN items)
<1>1. CASE FindName(r) \/ InsertName(r)
  BY <1>1, LooksSo, NamesTyped DEF Alone
<1>2. ASSUME NEW c \in Collections, NEW n \in Typed, CreateName(r, c, n)
      PROVE  Alone(r) /\ UNCHANGED names /\ LocalTyped(req'[r], DOMAIN items)
  <2>1. PICK todo : todo = << <<c, n>> >>
    OBVIOUS
  <2>2. todo \in Seq(Collections \X Typed) /\ todo # <<>>
    BY <2>1
  <2>3. /\ Alone(r) /\ UNCHANGED names /\ DOMAIN req'[r] = {"pc", "todo", "next"}
        /\ req'[r].pc = "find_name" /\ req'[r].next = "answer" /\ req'[r].todo = todo
    BY <1>2, <2>1, CreateNameSo
  <2> QED
    BY <2>2, <2>3 DEF LocalTyped, ItemPcs, SpendPcs, LooksUp, PushPcs, EditPcs, Held
<1> QED
  BY <1>1, <1>2 DEF NamesMove, TenantInv

LEMMA TenantKept ==
    ASSUME LocalsReady, LocalsReady', TenantInv, DeskNext, DueNext
    PROVE  TenantInv'
<1>1. ASSUME DOMAIN items' = DOMAIN items, items' \in Seq(Items \cup {NULL})
      PROVE  due' \in Seq(Range(due')) /\ DOMAIN due' = DOMAIN items'
  <2>1. Len(items') = Len(items)
    BY <1>1 DEF TenantInv
  <2> QED
    BY <1>1, <2>1, DueSo DEF TenantInv
<1>2. CASE Apart
  <2>1. \A r \in Reqs : LocalTyped(req'[r], DOMAIN items)
    BY <1>2, LocalAside DEF Apart, TenantInv
  <2> QED
    BY <1>1, <1>2, <2>1 DEF Apart, TenantInv
<1>3. ASSUME NEW r \in Reqs, NamesMove(r), UNCHANGED <<items, expenses>>
      PROVE  TenantInv'
  BY <1>1, <1>3, NamesMoveSo, OneTyped DEF TenantInv
<1>4. ASSUME NEW r \in Reqs, InventoryArrive(r), UNCHANGED names
      PROVE  TenantInv'
  BY <1>1, <1>4, ArriveTyped, OneTyped DEF TenantInv
<1>5. ASSUME NEW r \in Reqs, InventoryStep(r), ~InsertItem(r), UNCHANGED names
      PROVE  TenantInv'
  BY <1>1, <1>5, StepTyped, OneTyped DEF TenantInv, OnRows
<1>6. ASSUME NEW r \in Reqs, InsertItem(r), UNCHANGED names
      PROVE  TenantInv'
  <2>1. /\ Alone(r) /\ req[r].pc = "insert_item"
        /\ items' = Append(items, Item(req[r].form)) /\ expenses' = Append(expenses, <<>>)
        /\ DOMAIN req'[r] = {"pc", "id", "amount", "after", "status", "user"}
        /\ req'[r].pc = "find_expense" /\ req'[r].id = Len(items')
    BY <1>6, InsertItemSo
  <2>2. req[r].form \in Forms
    BY <2>1 DEF TenantInv, LocalTyped
  <2>3. PICK row \in Items : row = Item(req[r].form)
    BY <2>2, ItemMade
  <2>4. /\ items' \in Seq(Items \cup {NULL}) /\ Len(items') = Len(items) + 1 /\ DOMAIN items = 1 .. Len(items)
        /\ DOMAIN items' = 1 .. Len(items') /\ Len(items) \in Nat
    BY <2>1, <2>3 DEF TenantInv
  <2>5. DOMAIN items' = DOMAIN items \cup {Len(items')} /\ Len(items') \in DOMAIN items'
    BY <2>4
  <2>6. expenses' \in Seq(Range(expenses')) /\ DOMAIN expenses' = DOMAIN items'
    <3>1. /\ expenses' \in Seq(Range(expenses')) /\ Len(expenses') = Len(expenses) + 1
      BY <2>1, Grown DEF TenantInv
    <3>2. Len(expenses) = Len(items)
      BY <2>4 DEF TenantInv
    <3> QED
      BY <2>4, <3>1, <3>2
  <2>7. due' \in Seq(Range(due')) /\ DOMAIN due' = DOMAIN items'
    <3>1. due' = Append(due, DueOf(Last(items')))
      BY <2>4 DEF DueNext
    <3>2. /\ due' \in Seq(Range(due')) /\ Len(due') = Len(due) + 1
      BY <3>1, Grown DEF TenantInv
    <3>3. Len(due) = Len(items)
      BY <2>4 DEF TenantInv
    <3> QED
      BY <2>4, <3>2, <3>3
  <2>8. LocalTyped(req'[r], DOMAIN items')
    BY <2>1, <2>5 DEF LocalTyped, ItemPcs, SpendPcs, LooksUp, PushPcs, EditPcs, Held
  <2> QED
    BY <1>6, <2>1, <2>4, <2>5, <2>6, <2>7, <2>8, OneTyped DEF TenantInv
<1> QED
  BY <1>2, <1>3, <1>4, <1>5, <1>6, StepKinds, TenantIds DEF OnItems

-----------------------------------------------------------------------------
(* Accounts: no two have the same name.                                    *)
AccountsInv ==
    /\ accounts \in Seq(Range(accounts))
    /\ \A i, j \in Open : accounts[i].normalized_name = accounts[j].normalized_name => i = j

LEMMA AccountsKept ==
    ASSUME LocalsReady, IdsHeld, LocalsReady', AccountsInv, DeskNext
    PROVE  AccountsInv'
<1>1. CASE UNCHANGED accounts
  BY <1>1 DEF AccountsInv, Open
<1>2. ASSUME NEW r \in Reqs, InsertAccount(r), NamedLike(req[r].name) = {}
      PROVE  AccountsInv'
  <2>1. PICK row : row = Account(req[r].name)
    OBVIOUS
  <2>2. accounts' = Append(accounts, row) /\ row.normalized_name = Normal[req[r].name]
    BY <1>2, <2>1 DEF InsertAccount, Account
  <2>3. /\ accounts' \in Seq(Range(accounts'))
        /\ DOMAIN accounts' = DOMAIN accounts \cup {Len(accounts')} /\ Len(accounts') \notin DOMAIN accounts
        /\ accounts'[Len(accounts')] = row /\ \A i \in DOMAIN accounts : accounts'[i] = accounts[i]
    BY <2>2, Grown DEF AccountsInv
  <2>4. \A i \in Open : accounts[i].normalized_name # row.normalized_name
    BY <1>2, <2>2 DEF NamedLike
  <2>5. Open' \subseteq Open \cup {Len(accounts')} /\ \A i \in Open : accounts'[i] = accounts[i]
    BY <2>3 DEF Open
  <2>6. ASSUME NEW i \in Open', NEW j \in Open', accounts'[i].normalized_name = accounts'[j].normalized_name
        PROVE  i = j
    <3>1. CASE i \in Open /\ j \in Open
      BY <2>5, <2>6, <3>1 DEF AccountsInv
    <3>2. CASE i \notin Open \/ j \notin Open
      BY <2>3, <2>4, <2>5, <2>6, <3>2
    <3> QED
      BY <3>1, <3>2
  <2> QED
    BY <2>3, <2>6 DEF AccountsInv
<1>3. ASSUME NEW i \in DOMAIN accounts, NEW row, accounts' = [accounts EXCEPT ![i] = row],
             row = NULL \/ \A j \in Open \ {i} : accounts[j].normalized_name # row.normalized_name
      PROVE  AccountsInv'
  <2>1. /\ DOMAIN accounts' = DOMAIN accounts /\ accounts' = [j \in DOMAIN accounts' |-> accounts'[j]]
        /\ accounts'[i] = row /\ \A j \in DOMAIN accounts \ {i} : accounts'[j] = accounts[j]
    BY <1>3
  <2>2. accounts' \in Seq(Range(accounts'))
    BY <2>1, Altered DEF AccountsInv
  <2> QED
    BY <1>3, <2>1, <2>2 DEF AccountsInv, Open
<1>4. ASSUME NEW r \in Reqs, RenameAccount(r)
      PROVE  AccountsInv'
  <2>1. PICK i : i = req[r].account
    OBVIOUS
  <2>2. CASE i \in Open /\ NamedLike(req[r].name) \subseteq {i}
    <3>1. PICK row : row = Account(req[r].name)
      OBVIOUS
    <3>2. accounts' = [accounts EXCEPT ![i] = row] /\ row.normalized_name = Normal[req[r].name]
      BY <1>4, <2>1, <2>2, <3>1 DEF RenameAccount, Account
    <3>3. \A j \in Open \ {i} : accounts[j].normalized_name # row.normalized_name
      BY <2>2, <3>2 DEF NamedLike
    <3>4. i \in DOMAIN accounts
      BY <2>2 DEF Open
    <3> QED
      BY <1>3, <3>2, <3>3, <3>4
  <2>3. CASE ~(i \in Open /\ NamedLike(req[r].name) \subseteq {i})
    BY <1>1, <1>4, <2>1, <2>3 DEF RenameAccount
  <2> QED
    BY <2>2, <2>3
<1>5. ASSUME NEW r \in Reqs, DeleteAccount(r)
      PROVE  AccountsInv'
  <2>1. PICK i : i = req[r].account
    OBVIOUS
  <2>2. accounts' = [accounts EXCEPT ![i] = NULL]
    BY <1>5, <2>1 DEF DeleteAccount
  <2>3. CASE i \in DOMAIN accounts
    BY <1>3, <2>2, <2>3
  <2>4. CASE i \notin DOMAIN accounts
    <3>1. accounts' = accounts
      BY <2>2, <2>4 DEF AccountsInv
    <3> QED
      BY <1>1, <3>1
  <2> QED
    BY <2>3, <2>4
<1>6. ASSUME NEW r \in Reqs, InsertAccount(r), NamedLike(req[r].name) # {}
      PROVE  AccountsInv'
  BY <1>1, <1>6 DEF InsertAccount
<1>7. ASSUME NEW r \in Reqs, OnTenant(r)
      PROVE  UNCHANGED accounts \/ InsertAccount(r) \/ RenameAccount(r) \/ DeleteAccount(r)
  BY <1>7 DEF OnTenant, NamesArrive, NamesStep, BeginCreateAccount, BeginRenameAccount, BeginDeleteAccount,
              CreateName, FindName, InsertName, Answer, namesVars
<1> QED
  BY <1>1, <1>2, <1>4, <1>5, <1>6, <1>7, TenantOrNot DEF Elsewhere

(* No deposit is listed under two bank accounts.                           *)
LEMMA ShownOnce == AccountsInv => DepositsShownOnce
  BY DEF AccountsInv, DepositsShownOnce, ListedDeposits

-----------------------------------------------------------------------------
(* What a step on an item leaves alone.                                    *)
LEMMA StepSo ==
    ASSUME LocalsReady, TenantInv, NEW r \in Reqs, InventoryStep(r), ~InsertItem(r)
    PROVE  /\ \A j \in DOMAIN items \ {req[r].id} : items'[j] = items[j] /\ expenses'[j] = expenses[j]
           /\ req'[r] = Idle \/ ("id" \in DOMAIN req'[r] /\ req'[r].id = req[r].id)
<1>1. PICK i : i = req[r].id
  OBVIOUS
<1>2. "id" \in DOMAIN req[r] /\ i \in DOMAIN items /\ DOMAIN expenses = DOMAIN items
  BY <1>1, OnItem DEF TenantInv
<1>3. ASSUME Done(r) \/ \E p : Goto(r, p)
      PROVE  req'[r] = Idle \/ ("id" \in DOMAIN req'[r] /\ req'[r].id = i)
  <2>1. ASSUME NEW p, Goto(r, p)
        PROVE  "id" \in DOMAIN req'[r] /\ req'[r].id = i
    <3>1. DOMAIN req'[r] = DOMAIN req[r] /\ \A f \in DOMAIN req[r] \ {"pc"} : req'[r][f] = req[r][f]
      BY <2>1, GoesOnSo DEF GoesOn
    <3> QED
      BY <1>1, <1>2, <3>1
  <2>2. CASE Done(r)
    BY <2>2, GoesOnSo
  <2>3. CASE \E p : Goto(r, p)
    BY <2>1, <2>3
  <2> QED
    BY <1>3, <2>2, <2>3
<1>4. CASE FindExpense(r)
  BY <1>1, <1>3, <1>4 DEF FindExpense, inventoryVars
<1>5. CASE InsertExpense(r)
  <2>1. expenses' = [expenses EXCEPT ![i] = Append(expenses[i], req[r].amount)]
    BY <1>1, <1>5 DEF InsertExpense
  <2> QED
    BY <1>1, <1>2, <1>3, <1>5, <2>1 DEF InsertExpense
<1>6. CASE UpdateExpense(r)
  <2>1. \/ UNCHANGED expenses
        \/ expenses' = [expenses EXCEPT ![i] = [expenses[i] EXCEPT ![1] = req[r].amount]]
    BY <1>1, <1>6 DEF UpdateExpense
  <2>2. UNCHANGED items /\ (Done(r) \/ \E p : Goto(r, p))
    BY <1>6 DEF UpdateExpense, Raised
  <2> QED
    BY <1>1, <1>2, <1>3, <2>1, <2>2
<1>7. CASE WriteStock(r)
  <2>1. \/ UNCHANGED items
        \/ items' = [items EXCEPT ![i] = With(items[i], req[r].updates)]
    BY <1>1, <1>7 DEF WriteStock
  <2>2. UNCHANGED expenses /\ (Done(r) \/ \E p : Goto(r, p))
    BY <1>7 DEF WriteStock, Raised
  <2> QED
    BY <1>1, <1>2, <1>3, <2>1, <2>2
<1>8. CASE WriteItem(r) /\ items[i] = NULL
  BY <1>1, <1>3, <1>8 DEF WriteItem, Raised
<1>9. CASE WriteItem(r) /\ items[i] # NULL
  <2>1. PICK row : row = With(items[i], req[r].updates)
    OBVIOUS
  <2>2. /\ UNCHANGED expenses /\ items' = [items EXCEPT ![i] = row]
        /\ "id" \in DOMAIN req'[r] /\ req'[r].id = i
    BY <1>1, <1>9, <2>1, WriteItemSo
  <2> QED
    BY <1>1, <1>2, <2>2
<1>10. CASE DeleteExpense(r)
  <2>1. \/ UNCHANGED expenses
        \/ expenses' = [expenses EXCEPT ![i] = Tail(expenses[i])]
    BY <1>1, <1>10 DEF DeleteExpense
  <2>2. UNCHANGED items /\ \E p : Goto(r, p)
    BY <1>10 DEF DeleteExpense
  <2> QED
    BY <1>1, <1>2, <1>3, <2>1, <2>2
<1>11. CASE DeleteItem(r)
  <2>1. items' = [items EXCEPT ![i] = NULL] /\ UNCHANGED expenses
    BY <1>1, <1>11 DEF DeleteItem
  <2> QED
    BY <1>1, <1>2, <1>3, <1>11, <2>1 DEF DeleteItem
<1> QED
  BY <1>4, <1>5, <1>6, <1>7, <1>8, <1>9, <1>10, <1>11 DEF InventoryStep

(* Who gives up the names or the expense of an item, spoils it.            *)
LEMMA GivesUpSo ==
    ASSUME LocalsReady, TenantInv, stopped' = stopped \cup ({Working(r) : r \in {r \in Reqs : GivesUp(r)}} \ {NULL}),
           NEW r \in Reqs, NEW i \in Nat, Worker(r, i), req'[r] = Idle,
           req[r].pc \in SpendPcs \/ (req[r].pc = "delete_item" /\ items' = items)
    PROVE  TheItem(i) \in stopped'
<1>1. Working(r) = TheItem(i)
  BY WorkerWorks, TenantIds
<1>2. GivesUp(r)
  BY DEF GivesUp, HalfDone, SpendPcs, LooksUp, At
<1> QED
  BY <1>1, <1>2, ItemNotNull

-----------------------------------------------------------------------------
(* The names of an item are listed, or its request is on the way there.    *)
Found(p) == Listed(p[1], p[2])
Ahead(l, p) == l.pc \in LooksUp /\ p \in Range(l.todo)
Named(row) == Range(NamesGiven(row.category, row.supplier_name))
Adding(l) == (l.pc \in LooksUp /\ l.next = "insert_item") \/ l.pc = "insert_item"

AddedNames == \A r \in Reqs : Adding(req[r]) => \A p \in Named(req[r].form) : Found(p) \/ Ahead(req[r], p)
KeptNames ==
    \A i \in Kept : TheItem(i) \notin stopped =>
       \A p \in Named(items[i]) : Found(p) \/ \E r \in Reqs : Worker(r, i) /\ Ahead(req[r], p)
NameInv == AddedNames /\ KeptNames

LEMMA NamedPairs ==
    /\ \A row \in Items : Named(row) \subseteq Collections \X Typed
    /\ \A form \in Forms : Named(form) \subseteq Collections \X Typed
<1>1. ASSUME NEW row, row.category \in Typed, row.supplier_name \in Typed \cup {NULL}
      PROVE  Named(row) \subseteq Collections \X Typed
  <2>1. PICK given : given = NamesGiven(row.category, row.supplier_name)
    OBVIOUS
  <2>2. given \in Seq(Collections \X Typed)
    BY <1>1, <2>1, NamesGivenSo
  <2>3. \A k \in DOMAIN given : given[k] \in Collections \X Typed
    BY <2>2
  <2> QED
    BY <2>1, <2>3 DEF Named, Range
<1>2. \A row \in Items : row.category \in Typed /\ row.supplier_name \in Typed \cup {NULL}
  BY DEF Items
<1>3. ASSUME NEW form \in Forms PROVE form.category \in Typed /\ form.supplier_name \in Typed \cup {NULL}
  <2>1. PICK row \in Items : row = Item(form)
    BY ItemMade
  <2>2. form.category = row.category /\ form.supplier_name = row.supplier_name
    BY <2>1, ItemMade
  <2> QED
    BY <1>2, <2>1, <2>2
<1> QED
  BY <1>1, <1>2, <1>3

(* A name looked up is found, or still ahead, unless its request ends.     *)
LEMMA LookMoves ==
    ASSUME LocalsReady, TenantInv, NEW r \in Reqs, FindName(r) \/ InsertName(r)
    PROVE  /\ \A p \in Collections \X Typed : Found(p) => Found(p)'
           /\ \/ req'[r] = Idle
              \/ /\ DOMAIN req'[r] = DOMAIN req[r] /\ req'[r].pc \in LooksUp \cup {req[r].next}
                 /\ \A f \in DOMAIN req[r] \ {"pc", "todo"} : req'[r][f] = req[r][f]
                 /\ \A p : Ahead(req[r], p) => Found(p)' \/ Ahead(req'[r], p)
<1>1. req[r].pc \in LooksUp /\ req[r].todo \in Seq(Collections \X Typed) /\ req[r].todo # <<>>
  BY LooksSo DEF TenantInv, LocalTyped
<1>2. \A p \in Collections \X Typed : Found(p) => Found(p)'
  <2>1. \A c \in Collections, n \in Typed : Listed(c, n) => Listed(c, n)'
    BY LooksSo
  <2> QED
    BY <2>1 DEF Found
<1>3. PICK rest : rest = Tail(req[r].todo)
  OBVIOUS
<1>4. CASE /\ DOMAIN req'[r] = DOMAIN req[r] /\ req'[r].todo = rest
           /\ req'[r].pc = IF rest = <<>> THEN req[r].next ELSE "find_name"
           /\ \A f \in DOMAIN req[r] \ {"pc", "todo"} : req'[r][f] = req[r][f]
           /\ \E c \in Collections, n \in Typed : Head(req[r].todo) = <<c, n>> /\ Listed(c, n)'
  <2>1. ASSUME NEW p, p \in Range(req[r].todo)
        PROVE  Found(p)' \/ Ahead(req'[r], p)
    <3>1. p = Head(req[r].todo) \/ p \in Range(rest)
      BY <1>1, <1>3, <2>1, RestOf
    <3>2. p = Head(req[r].todo) => Found(p)'
      <4>1. PICK c \in Collections, n \in Typed : Head(req[r].todo) = <<c, n>> /\ Listed(c, n)'
        BY <1>4
      <4>2. p = <<c, n>> => Found(p)'
        BY <4>1 DEF Found
      <4> QED
        BY <4>1, <4>2
    <3>3. p \in Range(rest) => rest # <<>>
      BY DEF Range
    <3> QED
      BY <1>4, <3>1, <3>2, <3>3 DEF Ahead, LooksUp
  <2>2. req'[r].pc \in LooksUp \cup {req[r].next}
    BY <1>4 DEF LooksUp
  <2> QED
    BY <1>2, <1>4, <2>1, <2>2 DEF Ahead
<1>5. CASE /\ DOMAIN req'[r] = DOMAIN req[r] /\ req'[r].pc = "insert_name"
           /\ \A f \in DOMAIN req[r] \ {"pc"} : req'[r][f] = req[r][f]
  <2>1. req'[r].todo = req[r].todo /\ req'[r].pc \in LooksUp
    <3>1. "todo" \in DOMAIN req[r]
      BY <1>1 DEF TenantInv, LocalTyped
    <3> QED
      BY <1>5, <3>1 DEF LooksUp
  <2> QED
    BY <1>2, <1>5, <2>1 DEF Ahead
<1> QED
  BY <1>2, <1>3, <1>4, <1>5, LooksSo

(* What a request is left with when it adds no item.                       *)
LEMMA NotAdding ==
    ASSUME NEW l, NEW ids, LocalTyped(l, ids), l = Idle \/ Out(l) \/ "id" \in DOMAIN l
    PROVE  ~Adding(l)
  BY OutIdle DEF Adding, LocalTyped, Out, ItemPcs, TenantPcs, SpendPcs, PushPcs, EditPcs, LooksUp

LEMMA AddedKept ==
    ASSUME LocalsReady, LocalsReady', TenantInv, AddedNames, DeskNext
    PROVE  AddedNames'
<1>1. ASSUME NEW r \in Reqs, req'[r] = req[r], \A p \in Collections \X Typed : Found(p) => Found(p)', Adding(req'[r])
      PROVE  \A p \in Named(req'[r].form) : Found(p)' \/ Ahead(req'[r], p)
  <2>1. req[r].form \in Forms
    BY <1>1 DEF TenantInv, LocalTyped, Adding, LooksUp
  <2>2. \A p \in Named(req[r].form) : p \in Collections \X Typed /\ (Found(p) \/ Ahead(req[r], p))
    BY <1>1, <2>1, NamedPairs DEF AddedNames
  <2> QED
    BY <1>1, <2>2
<1>2. UNCHANGED names => \A p \in Collections \X Typed : Found(p) => Found(p)'
  BY DEF Found, Listed
<1>3. CASE Apart
  <2>1. ASSUME NEW r \in Reqs, Adding(req'[r])
        PROVE  req'[r] = req[r]
    BY <1>3, <2>1, OutIdle DEF Apart, KeepsOff, Adding, Out, TenantPcs, SpendPcs, LooksUp, PushPcs
  <2> QED
    BY <1>1, <1>2, <1>3, <2>1 DEF AddedNames, Apart
<1>4. ASSUME NEW r \in Reqs, Alone(r), \A p \in Collections \X Typed : Found(p) => Found(p)',
             Adding(req'[r]) => \A p \in Named(req'[r].form) : Found(p)' \/ Ahead(req'[r], p)
      PROVE  AddedNames'
  BY <1>1, <1>4 DEF AddedNames, Alone
<1>5. ASSUME NEW r \in Reqs, FindName(r) \/ InsertName(r)
      PROVE  AddedNames'
  <2>1. ASSUME Adding(req'[r]), NEW p \in Named(req'[r].form)
        PROVE  Found(p)' \/ Ahead(req'[r], p)
    <3>1. req'[r] # Idle
      BY <2>1, OutIdle DEF Adding, Out, TenantPcs, SpendPcs, LooksUp
    <3>2. req[r].pc \in LooksUp /\ LocalTyped(req[r], DOMAIN items) /\ "next" \in DOMAIN req[r]
      BY <1>5, LooksSo DEF TenantInv, LocalsReady, Ready, NamesReady, LooksUp
    <3>3. /\ DOMAIN req'[r] = DOMAIN req[r] /\ req'[r].pc \in LooksUp \cup {req[r].next}
          /\ \A f \in DOMAIN req[r] \ {"pc", "todo"} : req'[r][f] = req[r][f]
          /\ \A x : Ahead(req[r], x) => Found(x)' \/ Ahead(req'[r], x)
      BY <1>5, <3>1, LookMoves
    <3>4. req[r].next = "insert_item"
      BY <2>1, <3>2, <3>3 DEF Adding, LocalTyped, LooksUp
    <3>5. "form" \in DOMAIN req[r] /\ req[r].form \in Forms
      BY <3>2, <3>4 DEF LocalTyped
    <3>6. req'[r].form = req[r].form
      BY <3>3, <3>5
    <3>7. p \in Collections \X Typed /\ (Found(p) \/ Ahead(req[r], p))
      BY <2>1, <3>2, <3>4, <3>5, <3>6, NamedPairs DEF AddedNames, Adding
    <3> QED
      BY <1>5, <3>3, <3>7, LookMoves
  <2> QED
    BY <1>4, <1>5, <2>1, LookMoves, NamesMoveSo DEF NamesMove
<1>6. ASSUME NEW r \in Reqs, NEW c \in Collections, NEW n \in Typed, CreateName(r, c, n)
      PROVE  AddedNames'
  <2>1. Alone(r) /\ UNCHANGED names /\ ~Adding(req'[r])
    BY <1>6, CreateNameSo DEF Adding
  <2> QED
    BY <1>2, <1>4, <2>1
<1>7. ASSUME NEW r \in Reqs, NEW form \in Forms, BeginCreateItem(r, form), UNCHANGED names
      PROVE  AddedNames'
  <2>1. Alone(r) /\ req'[r].form = form /\ req'[r].pc = "find_name" /\ req'[r].todo = NamesGiven(form.category, form.supplier_name)
    BY <1>7, CreateItemSo
  <2>2. \A p \in Named(req'[r].form) : Ahead(req'[r], p)
    BY <2>1 DEF Named, Ahead, LooksUp
  <2> QED
    BY <1>2, <1>4, <1>7, <2>1, <2>2
<1>8. ASSUME NEW r \in Reqs, InventoryArrive(r), UNCHANGED names
      PROVE  AddedNames'
  <2>1. CASE \E form \in Forms : BeginCreateItem(r, form)
    BY <1>7, <1>8, <2>1
  <2>2. CASE ~\E form \in Forms : BeginCreateItem(r, form)
    <3>1. Alone(r) /\ "id" \in DOMAIN req'[r] /\ LocalTyped(req'[r], DOMAIN items)
      BY <1>8, <2>2, ArriveTyped, UpdateStockSo, UpdateItemSo, BeginDeleteSo DEF InventoryArrive
    <3> QED
      BY <1>2, <1>4, <1>8, <3>1, NotAdding
  <2> QED
    BY <2>1, <2>2
<1>9. ASSUME NEW r \in Reqs, InventoryStep(r), ~InsertItem(r), UNCHANGED names
      PROVE  AddedNames'
  BY <1>2, <1>4, <1>9, StepSo, StepTyped, NotAdding
<1>10. ASSUME NEW r \in Reqs, InsertItem(r), UNCHANGED names
       PROVE  AddedNames'
  <2>1. Alone(r) /\ ~Adding(req'[r])
    BY <1>10, InsertItemSo DEF Adding, LooksUp
  <2> QED
    BY <1>2, <1>4, <1>10, <2>1
<1> QED
  BY <1>3, <1>5, <1>6, <1>8, <1>9, <1>10, StepKinds, TenantIds DEF OnItems, NamesMove

LEMMA StepNames ==
    ASSUME LocalsReady, TenantInv, NEW r \in Reqs, InventoryStep(r), ~InsertItem(r),
           NEW i \in DOMAIN items, items'[i] # NULL
    PROVE  \/ items[i] # NULL /\ Named(items'[i]) = Named(items[i])
           \/ Worker(r, i)' /\ \A p \in Named(items'[i]) : Ahead(req'[r], p)
<1>1. CASE i # req[r].id \/ UNCHANGED items
  BY <1>1, StepSo
<1>2. CASE WriteStock(r) /\ i = req[r].id /\ ~UNCHANGED items
  <2>1. items[i] \in Items /\ req[r].updates \in Restocking
    BY <1>2 DEF TenantInv, LocalTyped, WriteStock, At
  <2>2. PICK row : row = With(items[i], req[r].updates)
    OBVIOUS
  <2>3. row.category = items[i].category /\ row.supplier_name = items[i].supplier_name
    BY <2>1, <2>2, RestockSo
  <2>4. items' = [items EXCEPT ![i] = row] /\ items[i] # NULL
    BY <1>2, <2>2 DEF WriteStock
  <2>5. items'[i] = row
    BY <2>4
  <2> QED
    BY <2>3, <2>4, <2>5 DEF Named
<1>3. CASE WriteItem(r) /\ i = req[r].id /\ ~UNCHANGED items
  <2>1. PICK row : row = With(items[i], req[r].updates)
    OBVIOUS
  <2>2. items[i] # NULL
    BY <1>3 DEF WriteItem
  <2>3. /\ items' = [items EXCEPT ![i] = row]
        /\ DOMAIN req'[r] = {"pc", "todo", "next", "id", "amount", "after"}
        /\ req'[r].pc = "find_name" /\ req'[r].id = i
        /\ req'[r].todo = NamesGiven(row.category, row.supplier_name)
    BY <1>3, <2>1, <2>2, WriteItemSo
  <2>4. items'[i] = row
    BY <2>3
  <2> QED
    BY <2>3, <2>4 DEF Worker, Named, Ahead, LooksUp, PushPcs
<1>4. CASE DeleteItem(r) /\ i = req[r].id
  <2>1. items' = [items EXCEPT ![i] = NULL]
    BY <1>4 DEF DeleteItem
  <2> QED
    BY <2>1
<1> QED
  BY <1>1, <1>2, <1>3, <1>4 DEF InventoryStep, FindExpense, InsertExpense, UpdateExpense, DeleteExpense, inventoryVars

LEMMA KeptNamesKept ==
    ASSUME LocalsReady, LocalsReady', TenantInv, NameInv, DeskNext,
           stopped' = stopped \cup ({Working(r) : r \in {r \in Reqs : GivesUp(r)}} \ {NULL})
    PROVE  KeptNames'
<1>1. ASSUME NEW i \in Kept, TheItem(i) \notin stopped', NEW p \in Named(items[i])
      PROVE  p \in Collections \X Typed /\ (Found(p) \/ \E r \in Reqs : Worker(r, i) /\ Ahead(req[r], p))
  <2>1. items[i] \in Items
    BY <1>1 DEF Kept, TenantInv
  <2> QED
    BY <1>1, <2>1, NamedPairs DEF NameInv, KeptNames
<1>2. UNCHANGED names => \A p \in Collections \X Typed : Found(p) => Found(p)'
  BY DEF Found, Listed
<1>3. ASSUME NEW i \in Kept, TheItem(i) \notin stopped', NEW r \in Reqs, Worker(r, i), req[r].pc \in LooksUp
      PROVE  req'[r] # Idle
  <2>1. i \in Nat
    BY <1>3 DEF Kept, TenantInv
  <2> QED
    BY <1>3, <2>1, GivesUpSo DEF SpendPcs
<1>4. CASE Apart
  <2>1. ASSUME NEW i \in Kept, TheItem(i) \notin stopped', NEW r \in Reqs, NEW p, Worker(r, i), Ahead(req[r], p)
        PROVE  req'[r] = req[r]
    <3>1. req'[r] # Idle /\ KeepsOff(req[r], req'[r])
      BY <1>3, <1>4, <2>1 DEF Ahead, Apart
    <3> QED
      BY <2>1, <3>1 DEF KeepsOff, Out, Ahead, TenantPcs, SpendPcs, LooksUp, PushPcs
  <2>2. ASSUME NEW i \in Kept, TheItem(i) \notin stopped', NEW p \in Named(items[i])
        PROVE  Found(p)' \/ \E r \in Reqs : Worker(r, i)' /\ Ahead(req'[r], p)
    <3>1. CASE Found(p)
      BY <1>1, <1>2, <1>4, <2>2, <3>1 DEF Apart
    <3>2. CASE ~Found(p)
      <4>1. PICK r \in Reqs : Worker(r, i) /\ Ahead(req[r], p)
        BY <1>1, <2>2, <3>2
      <4>2. req'[r] = req[r]
        BY <2>1, <2>2, <4>1
      <4> QED
        BY <4>1, <4>2 DEF Worker
    <3> QED
      BY <3>1, <3>2
  <2> QED
    BY <1>4, <2>2 DEF KeptNames, Apart, Kept
<1>5. ASSUME NEW r \in Reqs, Alone(r), \A p \in Collections \X Typed : Found(p) => Found(p)',
             NEW i \in Kept, TheItem(i) \notin stopped', NEW p \in Named(items[i]),
             Ahead(req[r], p) /\ Worker(r, i) => Found(p)' \/ (Worker(r, i)' /\ Ahead(req'[r], p))
      PROVE  Found(p)' \/ \E q \in Reqs : Worker(q, i)' /\ Ahead(req'[q], p)
  <2>1. CASE Found(p)
    BY <1>1, <1>5, <2>1
  <2>2. CASE ~Found(p)
    <3>1. PICK q \in Reqs : Worker(q, i) /\ Ahead(req[q], p)
      BY <1>1, <1>5, <2>2
    <3>2. CASE q = r
      BY <1>5, <3>1, <3>2
    <3>3. CASE q # r
      <4>1. req'[q] = req[q]
        BY <1>5, <3>3 DEF Alone
      <4> QED
        BY <3>1, <4>1 DEF Worker
    <3> QED
      BY <3>2, <3>3
  <2> QED
    BY <2>1, <2>2
<1>6. ASSUME NEW r \in Reqs, UNCHANGED items, Alone(r), \A p \in Collections \X Typed : Found(p) => Found(p)',
             \A i \in Kept : TheItem(i) \notin stopped' => \A p \in Named(items[i]) :
                Ahead(req[r], p) /\ Worker(r, i) => Found(p)' \/ (Worker(r, i)' /\ Ahead(req'[r], p))
      PROVE  KeptNames'
  BY <1>5, <1>6 DEF KeptNames, Kept
<1>7. ASSUME NEW r \in Reqs, FindName(r) \/ InsertName(r), UNCHANGED items
      PROVE  KeptNames'
  <2>1. ASSUME NEW i \in Kept, TheItem(i) \notin stopped', NEW p \in Named(items[i]), Ahead(req[r], p), Worker(r, i)
        PROVE  Found(p)' \/ (Worker(r, i)' /\ Ahead(req'[r], p))
    <3>1. req[r].pc \in LooksUp /\ req'[r] # Idle
      BY <1>3, <2>1 DEF Ahead
    <3>2. /\ DOMAIN req'[r] = DOMAIN req[r]
          /\ \A f \in DOMAIN req[r] \ {"pc", "todo"} : req'[r][f] = req[r][f]
          /\ Found(p)' \/ Ahead(req'[r], p)
      BY <1>7, <2>1, <3>1, LookMoves
    <3>3. Ahead(req'[r], p) => req'[r].pc \notin PushPcs
      BY DEF Ahead, LooksUp, PushPcs
    <3> QED
      BY <2>1, <3>2, <3>3 DEF Worker
  <2> QED
    BY <1>6, <1>7, <2>1, LookMoves, NamesMoveSo DEF NamesMove
<1>8. ASSUME NEW r \in Reqs, Alone(r), UNCHANGED <<items, names>>, req[r].pc \notin LooksUp
      PROVE  KeptNames'
  BY <1>2, <1>6, <1>8 DEF Ahead
<1>9. ASSUME NEW r \in Reqs, NEW c \in Collections, NEW n \in Typed, CreateName(r, c, n), UNCHANGED items
      PROVE  KeptNames'
  BY <1>8, <1>9, CreateNameSo DEF LooksUp
<1>10. ASSUME NEW r \in Reqs, InventoryArrive(r), UNCHANGED names
       PROVE  KeptNames'
  <2>1. req[r].pc = "idle"
    BY <1>10, CreateItemSo, UpdateStockSo, UpdateItemSo, BeginDeleteSo DEF InventoryArrive
  <2> QED
    BY <1>8, <1>10, <2>1, ArriveTyped DEF LooksUp
<1>11. ASSUME NEW r \in Reqs, InventoryStep(r), ~InsertItem(r), UNCHANGED names
       PROVE  KeptNames'
  <2>1. req[r].pc \notin LooksUp /\ Alone(r) /\ DOMAIN items' = DOMAIN items
    BY <1>11, OnItem, StepTyped DEF Held, EditPcs, LooksUp, OnRows
  <2>2. ASSUME NEW i \in DOMAIN items, items'[i] # NULL, TheItem(i) \notin stopped', NEW p \in Named(items'[i])
        PROVE  Found(p)' \/ \E q \in Reqs : Worker(q, i)' /\ Ahead(req'[q], p)
    <3>1. CASE items[i] # NULL /\ Named(items'[i]) = Named(items[i])
      BY <1>2, <1>5, <1>11, <2>1, <2>2, <3>1 DEF Kept, Ahead
    <3>2. CASE Worker(r, i)' /\ \A x \in Named(items'[i]) : Ahead(req'[r], x)
      BY <2>2, <3>2
    <3> QED
      BY <1>11, <2>2, <3>1, <3>2, StepNames
  <2> QED
    BY <2>1, <2>2 DEF KeptNames, Kept
<1>12. ASSUME NEW r \in Reqs, InsertItem(r), UNCHANGED names
       PROVE  KeptNames'
  <2>1. /\ Alone(r) /\ req[r].pc = "insert_item" /\ items' = Append(items, Item(req[r].form))
    BY <1>12, InsertItemSo
  <2>2. req[r].form \in Forms
    BY <2>1 DEF TenantInv, LocalTyped
  <2>3. PICK row \in Items : row = Item(req[r].form) /\ row.category = req[r].form.category
                             /\ row.supplier_name = req[r].form.supplier_name
    BY <2>2, ItemMade
  <2>4. /\ DOMAIN items' = DOMAIN items \cup {Len(items')} /\ Len(items') \notin DOMAIN items
        /\ items'[Len(items')] = row /\ \A i \in DOMAIN items : items'[i] = items[i]
    <3>1. items \in Seq(Range(items))
      BY DEF TenantInv, Range
    <3> QED
      BY <2>1, <2>3, <3>1, Grown
  <2>5. ASSUME NEW i \in DOMAIN items, items'[i] # NULL, TheItem(i) \notin stopped', NEW p \in Named(items'[i])
        PROVE  Found(p)' \/ \E q \in Reqs : Worker(q, i)' /\ Ahead(req'[q], p)
    BY <1>2, <1>5, <1>12, <2>1, <2>4, <2>5 DEF Kept, Ahead, LooksUp
  <2>6. ASSUME NEW p \in Named(row)
        PROVE  Found(p)'
    <3>1. Named(row) = Named(req[r].form)
      BY <2>3 DEF Named
    <3>2. Found(p) /\ p \in Collections \X Typed
      BY <2>1, <2>2, <2>6, <3>1, NamedPairs DEF NameInv, AddedNames, Adding, Ahead, LooksUp
    <3> QED
      BY <1>2, <1>12, <3>2
  <2> QED
    BY <2>4, <2>5, <2>6 DEF KeptNames, Kept
<1> QED
  BY <1>4, <1>7, <1>9, <1>10, <1>11, <1>12, StepKinds, TenantIds DEF OnItems, NamesMove

LEMMA QuietNoWorker ==
    ASSUME LocalsReady, TenantInv, NEW i \in DOMAIN items, Quiet(TheItem(i)), NEW r \in Reqs
    PROVE  ~Worker(r, i)
<1>1. i \in Nat
  BY DEF TenantInv
<1> QED
  BY <1>1, WorkerWorks, TenantIds, ItemNotNull DEF Quiet, InWork

LEMMA NamesListed ==
    ASSUME LocalsReady, TenantInv, KeptNames
    PROVE  NamesOfItemsListed
<1>1. ASSUME NEW i \in Kept, Quiet(TheItem(i)), TheItem(i) \notin stopped, NEW p \in Named(items[i])
      PROVE  Found(p)
  BY <1>1, QuietNoWorker DEF KeptNames, Kept
<1>2. ASSUME NEW i \in Kept
      PROVE  /\ <<"categories", items[i].category>> \in Named(items[i])
             /\ items[i].supplier_name # NULL => <<"suppliers", items[i].supplier_name>> \in Named(items[i])
  <2>1. items[i].category \in Typed /\ items[i].supplier_name \in Typed \cup {NULL}
    BY DEF Kept, TenantInv, Items
  <2> QED
    BY <2>1, NamesGivenSo DEF Named
<1>3. \A c, n : Found(<<c, n>>) => Listed(c, n)
  BY DEF Found
<1> QED
  BY <1>1, <1>2, <1>3 DEF NamesOfItemsListed

-----------------------------------------------------------------------------
(* An item, its expense and the request on it agree with what is due.      *)
Suits(item, d) ==
    /\ DOMAIN d = {"stock", "history", "cost"}
    /\ item.stock_quantity = d.stock /\ item.history = d.history
    /\ item.stock_status = StockStatus(item.stock_quantity, item.alert_threshold)

KnowsItem(l, item, d) ==
    /\ l.pc \in SpendPcs => l.amount = d.cost
    /\ l.pc = "write_stock" => l.updates = Restocked(item, l.payload.add_stock, l.payload.remove_stock)
    /\ l.pc = "write_item" => l.updates = Edited(item, l.payload)

Pays(l, e, d) ==
    /\ l.pc \in LooksUp \cup {"find_expense"} => e = <<>> \/ \E x : e = <<x>>
    /\ l.pc \in {"insert_expense", "delete_item"} => e = <<>>
    /\ l.pc = "update_expense" => \E x : e = <<x>>
    /\ l.pc \in {"write_stock", "write_item", "delete_expense", "answer"} => e = <<d.cost>>

Settled(item, d) == IF item = NULL THEN <<>> ELSE <<d.cost>>

Agrees(i) ==
    /\ items[i] # NULL => Suits(items[i], due[i])
    /\ \A r \in Reqs : Worker(r, i) =>
          items[i] # NULL /\ KnowsItem(req[r], items[i], due[i]) /\ \A q \in Reqs : Worker(q, i) => q = r
    /\ TheItem(i) \notin stopped =>
          /\ \A r \in Reqs : Worker(r, i) => Pays(req[r], expenses[i], due[i])
          /\ (\A r \in Reqs : ~Worker(r, i)) => expenses[i] = Settled(items[i], due[i])

ItemInv == \A i \in DOMAIN items : TheItem(i) \notin mixed => Agrees(i)

LEMMA Unspoilt ==
    ASSUME LocalsReady, TenantInv, ItemInv
    PROVE  ItemsAsIfAtomic
<1>1. StockAsIfAtomic /\ StatusFitsStock
  BY DEF ItemInv, Agrees, Suits, StockAsIfAtomic, StatusFitsStock, Kept
<1>2. ExpenseFollowsItem
  BY QuietNoWorker DEF ItemInv, Agrees, Settled, ExpenseFollowsItem
<1> QED
  BY <1>1, <1>2 DEF ItemsAsIfAtomic

(* What becomes of an item that a step leaves alone, of one on which a     *)
(* request is at work after it, and of one that a request has done with.   *)
LEMMA Spared ==
    ASSUME NEW i, Agrees(i), items'[i] = items[i], expenses'[i] = expenses[i], due'[i] = due[i],
           stopped \subseteq stopped',
           \A r \in Reqs : Worker(r, i)' => req'[r] = req[r],
           \A r \in Reqs : Worker(r, i) =>
              \/ req'[r] = req[r] \/ TheItem(i) \in stopped'
              \/ TheItem(i) \notin stopped => expenses[i] = Settled(items[i], due[i])
    PROVE  Agrees(i)'
<1>1. \A r \in Reqs : Worker(r, i)' => Worker(r, i) /\ req'[r] = req[r]
  BY DEF Worker
<1>2. \A r \in Reqs : Worker(r, i)' =>
         items'[i] # NULL /\ KnowsItem(req'[r], items'[i], due'[i]) /\ \A q \in Reqs : Worker(q, i)' => q = r
  BY <1>1 DEF Agrees
<1>3. ASSUME TheItem(i) \notin stopped'
      PROVE  /\ \A r \in Reqs : Worker(r, i)' => Pays(req'[r], expenses'[i], due'[i])
             /\ (\A r \in Reqs : ~Worker(r, i)') => expenses'[i] = Settled(items'[i], due'[i])
  <2>1. TheItem(i) \notin stopped
    BY <1>3
  <2>2. \A r \in Reqs : Worker(r, i)' => Pays(req'[r], expenses'[i], due'[i])
    BY <1>1, <2>1 DEF Agrees
  <2>3. ASSUME \A r \in Reqs : ~Worker(r, i)'
        PROVE  expenses[i] = Settled(items[i], due[i])
    <3>1. CASE \A r \in Reqs : ~Worker(r, i)
      BY <2>1, <3>1 DEF Agrees
    <3>2. ASSUME NEW r \in Reqs, Worker(r, i) PROVE expenses[i] = Settled(items[i], due[i])
      <4>1. req'[r] # req[r]
        BY <2>3, <3>2 DEF Worker
      <4> QED
        BY <1>3, <2>1, <3>2, <4>1
    <3> QED
      BY <3>1, <3>2
  <2> QED
    BY <2>2, <2>3
<1>4. items'[i] # NULL => Suits(items'[i], due'[i])
  BY DEF Agrees
<1> QED
  BY <1>2, <1>3, <1>4 DEF Agrees

LEMMA Worked ==
    ASSUME LocalsReady', TenantInv', mixed' = mixed \cup SharedWork', NEW i \in DOMAIN items', TheItem(i) \notin mixed',
           NEW r \in Reqs, Worker(r, i)', items'[i] # NULL, Suits(items'[i], due'[i]),
           KnowsItem(req'[r], items'[i], due'[i]),
           TheItem(i) \notin stopped' => Pays(req'[r], expenses'[i], due'[i])
    PROVE  Agrees(i)'
<1>1. IdsHeld' /\ i \in Nat
  BY DEF TenantInv, LocalTyped, IdsHeld
<1>2. \A q \in Reqs : Worker(q, i)' => q = r
  BY <1>1, WorkersSeen
<1> QED
  BY <1>2 DEF Agrees

LEMMA Freed ==
    ASSUME NEW i, Agrees(i), NEW r \in Reqs, Worker(r, i), Alone(r), ~Worker(r, i)',
           items'[i] # NULL => Suits(items'[i], due'[i]),
           TheItem(i) \notin stopped' => expenses'[i] = Settled(items'[i], due'[i])
    PROVE  Agrees(i)'
<1>1. \A q \in Reqs : ~Worker(q, i)'
  BY DEF Agrees, Worker, Alone
<1> QED
  BY <1>1 DEF Agrees

LEMMA LeavesWell ==
    ASSUME LocalsReady, TenantInv, stopped' = stopped \cup ({Working(r) : r \in {r \in Reqs : GivesUp(r)}} \ {NULL}),
           UNCHANGED items, NEW i \in DOMAIN items, Agrees(i), NEW r \in Reqs, Worker(r, i), req'[r] = Idle
    PROVE  TheItem(i) \in stopped' \/ (TheItem(i) \notin stopped => expenses[i] = Settled(items[i], due[i]))
<1>1. i \in Nat
  BY DEF TenantInv
<1>2. CASE req[r].pc \in SpendPcs \/ req[r].pc = "delete_item"
  BY <1>1, <1>2, GivesUpSo
<1>3. CASE req[r].pc \notin SpendPcs /\ req[r].pc # "delete_item"
  <2>1. req[r].pc \in {"write_stock", "write_item", "delete_expense", "answer"}
    BY <1>3 DEF TenantInv, LocalTyped, Worker, ItemPcs, EditPcs
  <2> QED
    BY <2>1 DEF Agrees, Pays, Settled
<1> QED
  BY <1>2, <1>3

(* What HNext notes of a step.                                             *)
Noted ==
    /\ DueNext
    /\ mixed' = mixed \cup SharedWork'
    /\ stopped' = stopped \cup ({Working(r) : r \in {r \in Reqs : GivesUp(r)}} \ {NULL})

LEMMA NoneWrites ==
    ASSUME LocalsReady, TenantInv, Noted, UNCHANGED items,
           \A r \in Reqs : req'[r] = req[r] \/ req'[r] = Idle \/ req[r].pc # "write_item",
           NEW i \in DOMAIN items
    PROVE  due'[i] = due[i]
<1>1. \A r \in Reqs : ~Writes(r)
  BY NotWriting DEF Writes, At
<1> QED
  BY <1>1, DueSo DEF TenantInv, Noted

LEMMA ApartAgrees ==
    ASSUME LocalsReady, TenantInv, ItemInv, Noted, Apart
    PROVE  ItemInv'
<1>1. ASSUME NEW r \in Reqs
      PROVE  /\ req'[r] = req[r] \/ req'[r] = Idle \/ req[r].pc # "write_item"
             /\ \A i : Worker(r, i)' => req'[r] = req[r]
             /\ \A i : Worker(r, i) => req'[r] = req[r] \/ req'[r] = Idle
  <2>1. KeepsOff(req[r], req'[r])
    BY <1>1 DEF Apart
  <2>2. CASE req'[r] = req[r]
    BY <2>2 DEF Worker
  <2>3. CASE Out(req'[r]) /\ (Out(req[r]) \/ req'[r] = Idle)
    BY <2>3 DEF Out, Worker, TenantPcs, EditPcs
  <2>4. CASE {req[r].pc, req'[r].pc} \subseteq PushPcs
    BY <2>4 DEF Worker, PushPcs
  <2> QED
    BY <2>1, <2>2, <2>3, <2>4 DEF KeepsOff
<1>2. ASSUME NEW i \in DOMAIN items, TheItem(i) \notin mixed'
      PROVE  Agrees(i)'
  <2>1. Agrees(i)
    BY <1>2 DEF ItemInv, Noted
  <2>2. items'[i] = items[i] /\ expenses'[i] = expenses[i] /\ due'[i] = due[i]
    BY <1>1, NoneWrites DEF Apart
  <2>3. ASSUME NEW r \in Reqs, Worker(r, i), req'[r] # req[r]
        PROVE  TheItem(i) \in stopped' \/ (TheItem(i) \notin stopped => expenses[i] = Settled(items[i], due[i]))
    <3>1. req'[r] = Idle
      BY <1>1, <2>3
    <3> QED
      BY <2>1, <2>3, <3>1, LeavesWell DEF Noted, Apart
  <2> QED
    BY <1>1, <2>1, <2>2, <2>3, Spared DEF Noted
<1> QED
  BY <1>2 DEF ItemInv, Apart

(* The request r moves alone; item i is another's, or nobody's.            *)
LEMMA OtherAgrees ==
    ASSUME ItemInv, Noted, NEW i \in DOMAIN items, TheItem(i) \notin mixed',
           NEW r \in Reqs, Alone(r), ~Worker(r, i), ~Worker(r, i)',
           items'[i] = items[i], expenses'[i] = expenses[i], due'[i] = due[i]
    PROVE  Agrees(i)'
<1>1. Agrees(i) /\ stopped \subseteq stopped'
  BY DEF ItemInv, Noted
<1>2. \A q \in Reqs : (Worker(q, i) \/ Worker(q, i)') => req'[q] = req[q]
  BY DEF Alone
<1> QED
  BY <1>1, <1>2, Spared

LEMMA NamesAgree ==
    ASSUME LocalsReady, TenantInv, ItemInv, Noted, LocalsReady', TenantInv',
           UNCHANGED <<items, expenses>>, NEW r \in Reqs, NamesMove(r)
    PROVE  ItemInv'
<1>1. Alone(r)
  BY NamesMoveSo
<1>2. req[r].pc \in LooksUp \/ (req[r].pc = "idle" /\ "id" \notin DOMAIN req'[r])
  BY LooksSo, CreateNameSo DEF NamesMove
<1>3. ASSUME NEW i \in DOMAIN items PROVE due'[i] = due[i]
  BY <1>1, <1>2, NoneWrites DEF Alone, LooksUp
<1>4. ASSUME NEW i \in DOMAIN items, TheItem(i) \notin mixed', ~Worker(r, i)
      PROVE  Agrees(i)'
  <2>1. ~Worker(r, i)'
    <3>1. CASE req[r].pc = "idle"
      BY <1>2, <3>1 DEF Worker, LooksUp
    <3>2. CASE FindName(r) \/ InsertName(r)
      <4>1. \/ "id" \notin DOMAIN req'[r]
            \/ DOMAIN req'[r] = DOMAIN req[r] /\ \A f \in DOMAIN req[r] \ {"pc", "todo"} : req'[r][f] = req[r][f]
        BY <3>2, LookMoves, OutIdle DEF Out
      <4>2. req[r].pc \in LooksUp
        BY <3>2, LooksSo
      <4> QED
        BY <1>4, <4>1, <4>2 DEF Worker, LooksUp, PushPcs
    <3> QED
      BY <3>1, <3>2, CreateNameSo DEF NamesMove
  <2> QED
    BY <1>1, <1>3, <1>4, <2>1, OtherAgrees
<1>5. ASSUME NEW i \in DOMAIN items, TheItem(i) \notin mixed', Worker(r, i)
      PROVE  Agrees(i)'
  <2>1. Agrees(i)
    BY <1>5 DEF ItemInv, Noted
  <2>2. "id" \in DOMAIN req[r] /\ req[r].id = i /\ req[r].pc \in LooksUp /\ (FindName(r) \/ InsertName(r))
    <3>1. "id" \in DOMAIN req[r] /\ req[r].id = i /\ req[r].pc # "idle"
      BY <1>5, TenantIds DEF Worker, IdsHeld, ItemPcs, SpendPcs, LooksUp, PushPcs, EditPcs
    <3> QED
      BY <1>2, <3>1, CreateNameSo DEF NamesMove
  <2>3. CASE req'[r] = Idle
    <3>1. TheItem(i) \in stopped' \/ (TheItem(i) \notin stopped => expenses[i] = Settled(items[i], due[i]))
      BY <1>5, <2>1, <2>3, LeavesWell DEF Noted
    <3>2. ~Worker(r, i)'
      BY <2>3, OutIdle DEF Out, Worker
    <3>3. Suits(items[i], due[i])
      BY <1>5, <2>1 DEF Agrees
    <3> QED
      BY <1>1, <1>3, <1>5, <2>1, <3>1, <3>2, <3>3, Freed DEF Noted
  <2>4. CASE req'[r] # Idle
    <3>1. /\ DOMAIN req'[r] = DOMAIN req[r] /\ req'[r].pc \in LooksUp \cup {req[r].next}
          /\ \A f \in DOMAIN req[r] \ {"pc", "todo"} : req'[r][f] = req[r][f]
      BY <2>2, <2>4, LookMoves
    <3>2. req[r].next = "find_expense" /\ "amount" \in DOMAIN req[r]
      BY <2>2 DEF TenantInv, LocalTyped, SpendPcs
    <3>3. req'[r].pc \in LooksUp \cup {"find_expense"} /\ req'[r].id = i /\ req'[r].amount = req[r].amount
      BY <2>2, <3>1, <3>2
    <3>4. Worker(r, i)'
      BY <2>2, <3>1, <3>3 DEF Worker, LooksUp, PushPcs
    <3>5. KnowsItem(req'[r], items'[i], due'[i])
      BY <1>3, <1>5, <2>1, <2>2, <3>3 DEF Agrees, KnowsItem, SpendPcs, LooksUp
    <3>6. TheItem(i) \notin stopped' => Pays(req'[r], expenses'[i], due'[i])
      BY <1>3, <1>5, <2>1, <2>2, <3>3 DEF Agrees, Pays, LooksUp, Noted
    <3> QED
      BY <1>3, <1>5, <2>1, <3>4, <3>5, <3>6, Worked DEF Agrees, Noted
  <2> QED
    BY <2>3, <2>4
<1> QED
  BY <1>4, <1>5 DEF ItemInv

LEMMA ArriveAgrees ==
    ASSUME LocalsReady, TenantInv, ItemInv, Noted, LocalsReady', TenantInv', NEW r \in Reqs, InventoryArrive(r)
    PROVE  ItemInv'
<1>1. UNCHANGED <<items, expenses>> /\ Alone(r) /\ req[r].pc = "idle"
  BY ArriveTyped, CreateItemSo, UpdateStockSo, UpdateItemSo, BeginDeleteSo DEF InventoryArrive
<1>2. \A i : ~Worker(r, i)
  BY <1>1, TenantIds DEF Worker, IdsHeld, ItemPcs, SpendPcs, LooksUp, PushPcs, EditPcs
<1>3. ASSUME NEW i \in DOMAIN items PROVE due'[i] = due[i]
  BY <1>1, NoneWrites DEF Alone
<1>4. ASSUME NEW i \in DOMAIN items, TheItem(i) \notin mixed', ~Worker(r, i)'
      PROVE  Agrees(i)'
  BY <1>1, <1>2, <1>3, <1>4, OtherAgrees
<1>5. ASSUME NEW i \in DOMAIN items, TheItem(i) \notin mixed', Worker(r, i)', i \in Kept,
             KnowsItem(req'[r], items[i], due[i]), req'[r].pc \in {"write_stock", "write_item", "delete_expense"}
      PROVE  Agrees(i)'
  <2>1. Agrees(i) /\ items[i] # NULL
    BY <1>5 DEF ItemInv, Noted, Kept
  <2>2. ASSUME NEW q \in Reqs, Worker(q, i) PROVE FALSE
    <3>1. q # r /\ req'[q] = req[q]
      BY <1>1, <1>2, <2>2 DEF Alone
    <3>2. Worker(q, i)'
      BY <2>2, <3>1 DEF Worker
    <3>3. IdsHeld' /\ i \in Nat
      BY DEF TenantInv, LocalTyped, IdsHeld
    <3> QED
      BY <1>5, <3>1, <3>2, <3>3, WorkersSeen DEF Noted
  <2>3. TheItem(i) \notin stopped' => expenses[i] = <<due[i].cost>>
    BY <2>1, <2>2 DEF Agrees, Settled, Noted
  <2>4. TheItem(i) \notin stopped' => Pays(req'[r], expenses'[i], due'[i])
    BY <1>1, <1>3, <1>5, <2>3 DEF Pays, LooksUp
  <2> QED
    BY <1>1, <1>3, <1>5, <2>1, <2>4, Worked DEF Agrees, Noted
<1>6. ASSUME NEW form \in Forms, BeginCreateItem(r, form)
      PROVE  ItemInv'
  <2>1. \A i : ~Worker(r, i)'
    BY <1>6, CreateItemSo DEF Worker
  <2> QED
    BY <1>1, <1>4, <2>1 DEF ItemInv
<1>7. ASSUME NEW k \in Kept, req'[r].id = k, req'[r].pc \in {"write_stock", "write_item", "delete_expense"},
             KnowsItem(req'[r], items[k], due[k])
      PROVE  ItemInv'
  <2>1. ASSUME NEW i \in DOMAIN items, TheItem(i) \notin mixed' PROVE Agrees(i)'
    BY <1>4, <1>5, <1>7, <2>1 DEF Worker
  <2> QED
    BY <1>1, <2>1 DEF ItemInv
<1>8. ASSUME NEW i \in Kept, NEW a \in Quantities, NEW m \in Quantities, BeginUpdateStock(r, i, a, m)
      PROVE  ItemInv'
  <2>1. /\ req'[r].id = i /\ req'[r].pc = "write_stock" /\ KnowsItem(req'[r], items[i], due[i])
    BY <1>8, UpdateStockSo DEF KnowsItem, SpendPcs, LooksUp
  <2> QED
    BY <1>7, <2>1
<1>9. ASSUME NEW i \in Kept, NEW edit \in Edits, BeginUpdateItem(r, i, edit)
      PROVE  ItemInv'
  <2>1. /\ req'[r].id = i /\ req'[r].pc = "write_item" /\ KnowsItem(req'[r], items[i], due[i])
    BY <1>9, UpdateItemSo DEF KnowsItem, SpendPcs, LooksUp
  <2> QED
    BY <1>7, <2>1
<1>10. ASSUME NEW i \in Kept, BeginDeleteItem(r, i)
       PROVE  ItemInv'
  <2>1. /\ req'[r].id = i /\ req'[r].pc = "delete_expense" /\ KnowsItem(req'[r], items[i], due[i])
    BY <1>10, BeginDeleteSo DEF KnowsItem, SpendPcs, LooksUp
  <2> QED
    BY <1>7, <2>1
<1> QED
  BY <1>6, <1>8, <1>9, <1>10 DEF InventoryArrive

LEMMA InsertAgrees ==
    ASSUME LocalsReady, TenantInv, ItemInv, Noted, LocalsReady', TenantInv', NEW r \in Reqs, InsertItem(r)
    PROVE  ItemInv'
<1>1. /\ Alone(r) /\ req[r].pc = "insert_item"
      /\ items' = Append(items, Item(req[r].form)) /\ expenses' = Append(expenses, <<>>)
      /\ DOMAIN req'[r] = {"pc", "id", "amount", "after", "status", "user"}
      /\ req'[r].pc = "find_expense" /\ req'[r].id = Len(items') /\ req'[r].amount = req[r].form.stock_quantity
  BY InsertItemSo
<1>2. req[r].form \in Forms /\ "id" \notin DOMAIN req[r]
  BY <1>1 DEF TenantInv, LocalTyped
<1>3. PICK row \in Items : row = Item(req[r].form)
  BY <1>2, ItemMade
<1>4. PICK n : n = Len(items')
  OBVIOUS
<1>5. /\ n = Len(items) + 1 /\ Len(items) \in Nat /\ DOMAIN items' = DOMAIN items \cup {n} /\ n \notin DOMAIN items
      /\ items'[n] = row /\ \A i \in DOMAIN items : items'[i] = items[i]
  <2>1. items \in Seq(Range(items)) /\ Len(items) \in Nat
    BY DEF TenantInv, Range
  <2> QED
    BY <1>1, <1>3, <1>4, <2>1, Grown
<1>6. Len(expenses) = Len(items) /\ Len(due) = Len(items)
  BY LenProperties DEF TenantInv
<1>7. expenses'[n] = <<>> /\ \A i \in DOMAIN items : expenses'[i] = expenses[i]
  BY <1>1, <1>5, <1>6, Grown DEF TenantInv
<1>8. due'[n] = DueOf(row) /\ \A i \in DOMAIN items : due'[i] = due[i]
  <2>1. Last(items') = row
    BY <1>4, <1>5 DEF Last
  <2>2. due' = Append(due, DueOf(row))
    BY <1>4, <1>5, <2>1 DEF Noted, DueNext
  <2> QED
    BY <1>5, <1>6, <2>2, Grown DEF TenantInv
<1>9. ASSUME NEW i \in DOMAIN items, TheItem(i) \notin mixed' PROVE Agrees(i)'
  <2>1. ~Worker(r, i) /\ ~Worker(r, i)'
    BY <1>1, <1>2, <1>4, <1>5 DEF Worker
  <2> QED
    BY <1>1, <1>5, <1>7, <1>8, <1>9, <2>1, OtherAgrees
<1>10. ASSUME TheItem(n) \notin mixed' PROVE Agrees(n)'
  <2>1. PICK d : d = DueOf(row)
    OBVIOUS
  <2>2. /\ DOMAIN d = {"stock", "history", "cost"} /\ d.stock = row.stock_quantity
        /\ d.history = Entries(row.stock_quantity, 0) /\ d.cost = row.stock_quantity
    BY <2>1 DEF DueOf
  <2>3. Suits(row, d) /\ row.stock_quantity = req[r].form.stock_quantity
    BY <1>2, <1>3, <2>2, ItemMade DEF Suits
  <2>4. row # NULL
    BY ItemsAssumption
  <2>5. Worker(r, n)' /\ KnowsItem(req'[r], row, d) /\ Pays(req'[r], <<>>, d)
    BY <1>1, <1>4, <2>2, <2>3 DEF Worker, KnowsItem, Pays, SpendPcs, LooksUp, PushPcs
  <2> QED
    BY <1>5, <1>7, <1>8, <1>10, <2>1, <2>3, <2>4, <2>5, Worked DEF Noted
<1> QED
  BY <1>5, <1>9, <1>10 DEF ItemInv

(* The steps on an item: on the other items, and on its own.               *)
LEMMA StepOther ==
    ASSUME LocalsReady, TenantInv, ItemInv, Noted, NEW r \in Reqs, InventoryStep(r), ~InsertItem(r),
           NEW i \in DOMAIN items, TheItem(i) \notin mixed', i # req[r].id
    PROVE  Agrees(i)'
<1>1. Alone(r) /\ Len(items') = Len(items)
  BY StepTyped DEF OnRows
<1>2. /\ items'[i] = items[i] /\ expenses'[i] = expenses[i]
      /\ req'[r] = Idle \/ req'[r].id = req[r].id
  BY StepSo
<1>3. ~Worker(r, i) /\ ~Worker(r, i)'
  BY <1>2, OutIdle DEF Worker, Out
<1>4. \A q \in Reqs : Worker(q, i) => ~Writes(q)
  BY <1>1, <1>3, NotWriting DEF Alone
<1>5. due'[i] = due[i]
  BY <1>1, <1>4, DueSo DEF Noted, TenantInv
<1> QED
  BY <1>1, <1>2, <1>3, <1>5, OtherAgrees

(* Request r writes item k, which is nobody else's.                        *)
LEMMA DueOfStep ==
    ASSUME LocalsReady, TenantInv, Noted, NEW r \in Reqs, InventoryStep(r), ~InsertItem(r), Writes(r)
    PROVE  due'[req[r].id] = IF At(r, "write_stock") THEN DueAfterStock(due[req[r].id], req[r].payload)
                             ELSE DueAfterEdit(due[req[r].id], req[r].payload)
<1>1. Alone(r) /\ Len(items') = Len(items)
  BY StepTyped DEF OnRows
<1>2. \A q \in Reqs \ {r} : ~Writes(q)
  BY <1>1, NotWriting DEF Alone
<1>3. Worker(r, req[r].id) /\ req[r].id \in DOMAIN due
  BY OnItem DEF Worker, Held, EditPcs, SpendPcs, LooksUp, PushPcs, TenantInv
<1> QED
  BY <1>1, <1>2, <1>3, DueSo DEF Noted

LEMMA StockAgrees ==
    ASSUME LocalsReady, TenantInv, Noted, NEW r \in Reqs, WriteStock(r), NEW i, i = req[r].id, Worker(r, i),
           i \in DOMAIN items, Agrees(i)
    PROVE  Agrees(i)'
<1>1. /\ items[i] # NULL /\ Suits(items[i], due[i]) /\ req[r].pc = "write_stock"
      /\ req[r].updates = Restocked(items[i], req[r].payload.add_stock, req[r].payload.remove_stock)
  BY DEF Agrees, KnowsItem, WriteStock, At
<1>2. PICK a, m : a = req[r].payload.add_stock /\ m = req[r].payload.remove_stock
  OBVIOUS
<1>3. PICK row : row = With(items[i], req[r].updates)
  OBVIOUS
<1>4. items[i] \in Items /\ req[r].updates \in Restocking
  BY <1>1 DEF TenantInv, LocalTyped
<1>5. /\ row.stock_quantity = items[i].stock_quantity + a - m
      /\ row.history = items[i].history \o Entries(a, m)
      /\ row.stock_status = StockStatus(row.stock_quantity, row.alert_threshold)
  <2>1. PICK u \in Restocking : u = req[r].updates
    BY <1>4
  <2>2. /\ u.stock_quantity = items[i].stock_quantity + a - m
        /\ u.history = items[i].history \o Entries(a, m)
        /\ u.stock_status = StockStatus(u.stock_quantity, items[i].alert_threshold)
    <3>1. PICK stock, status, history :
             /\ stock = items[i].stock_quantity + a - m /\ history = items[i].history \o Entries(a, m)
             /\ status = StockStatus(stock, items[i].alert_threshold)
      OBVIOUS
    <3>2. u = [stock_quantity |-> stock, stock_status |-> status, history |-> history]
      BY <1>1, <1>2, <2>1, <3>1 DEF Restocked
    <3> QED
      BY <3>1, <3>2
  <2> QED
    BY <1>3, <1>4, <2>1, <2>2, RestockSo
<1>6. /\ items' = [items EXCEPT ![i] = row] /\ UNCHANGED expenses
      /\ req'[r] = Idle \/ req'[r].pc = "push_low_stock"
      /\ Alone(r)
  <2>1. items' = [items EXCEPT ![i] = row] /\ UNCHANGED expenses /\ (Goto(r, "push_low_stock") \/ Done(r))
    BY <1>1, <1>3 DEF WriteStock
  <2> QED
    BY <2>1, GoesOnSo DEF GoesOn
<1>7. items'[i] = row /\ ~Worker(r, i)'
  BY <1>6, OutIdle DEF Worker, Out, PushPcs
<1>8. Suits(row, due'[i]) /\ due'[i].cost = due[i].cost
  <2>1. CASE items' = items
    <3>1. due'[i] = due[i]
      BY <1>6, <2>1, NoneWrites, <1>1 DEF Alone
    <3> QED
      BY <1>1, <1>7, <2>1, <3>1
  <2>2. CASE items' # items
    <3>1. Writes(r)
      BY <1>1, <1>6, <2>2, OutIdle DEF Writes, At, Out, Idle
    <3>2. PICK d : d = due[i]
      OBVIOUS
    <3>3. due'[i] = DueAfterStock(d, req[r].payload)
      <4>1. InventoryStep(r) /\ ~InsertItem(r)
        BY <1>1 DEF InventoryStep, InsertItem, At
      <4> QED
        BY <1>1, <3>1, <3>2, <4>1, DueOfStep DEF At
    <3>4. PICK e : e = DueAfterStock(d, req[r].payload)
      OBVIOUS
    <3>5. /\ DOMAIN e = {"stock", "history", "cost"} /\ e.cost = d.cost
          /\ e.stock = d.stock + a - m /\ e.history = d.history \o Entries(a, m)
      BY <1>1, <1>2, <3>2, <3>4 DEF DueAfterStock, Suits
    <3>6. d.stock = items[i].stock_quantity /\ d.history = items[i].history
      BY <1>1, <3>2 DEF Suits
    <3> QED
      BY <1>5, <3>2, <3>3, <3>4, <3>5, <3>6 DEF Suits
  <2> QED
    BY <2>1, <2>2
<1>9. TheItem(i) \notin stopped' => expenses[i] = <<due[i].cost>>
  BY <1>1 DEF Agrees, Pays, Noted
<1>10. TheItem(i) \notin stopped' => expenses'[i] = Settled(items'[i], due'[i])
  <2>1. row # NULL
    BY <1>3, <1>4, RestockSo, ItemsAssumption
  <2> QED
    BY <1>6, <1>7, <1>8, <1>9, <2>1 DEF Settled
<1> QED
  BY <1>6, <1>7, <1>8, <1>10, Freed

LEMMA EditAgrees ==
    ASSUME LocalsReady, TenantInv, Noted, LocalsReady', TenantInv',
           NEW r \in Reqs, WriteItem(r), NEW i, i = req[r].id, Worker(r, i),
           i \in DOMAIN items, TheItem(i) \notin mixed', Agrees(i)
    PROVE  Agrees(i)'
<1>1. /\ items[i] # NULL /\ Suits(items[i], due[i]) /\ req[r].pc = "write_item"
      /\ req[r].updates = Edited(items[i], req[r].payload)
  BY DEF Agrees, KnowsItem, WriteItem, At
<1>2. PICK edit : edit = req[r].payload
  OBVIOUS
<1>3. PICK row : row = With(items[i], req[r].updates)
  OBVIOUS
<1>4. items[i] \in Items /\ edit \in Edits /\ EditOf(req[r].updates, edit)
  BY <1>1, <1>2 DEF TenantInv, LocalTyped
<1>5. PICK stock : stock = With(items[i], edit).stock_quantity
  OBVIOUS
<1>6. /\ row \in Items /\ row.stock_quantity = stock /\ row.history = items[i].history
      /\ row.stock_status = StockStatus(row.stock_quantity, row.alert_threshold)
      /\ stock = IF "stock_quantity" \in DOMAIN edit THEN edit.stock_quantity ELSE items[i].stock_quantity
  <2>1. /\ row.alert_threshold = With(items[i], edit).alert_threshold
        /\ row.stock_status = req[r].updates.stock_status
    BY <1>3, <1>4, EditSo
  <2>2. req[r].updates.stock_status = StockStatus(With(items[i], edit).stock_quantity, With(items[i], edit).alert_threshold)
    BY <1>1, <1>2, <1>4, EditedSo
  <2> QED
    BY <1>3, <1>4, <1>5, <2>1, <2>2, EditSo
<1>7. /\ Alone(r) /\ UNCHANGED expenses /\ items' = [items EXCEPT ![i] = row]
      /\ DOMAIN req'[r] = {"pc", "todo", "next", "id", "amount", "after"}
      /\ req'[r].pc = "find_name" /\ req'[r].id = i /\ req'[r].amount = stock
  BY <1>1, <1>3, <1>6, WriteItemSo
<1>8. items'[i] = row /\ row # NULL
  BY <1>6, <1>7, ItemsAssumption
<1>9. PICK d : d = due[i]
  OBVIOUS
<1>10. due'[i] = [d EXCEPT !.stock = stock, !.cost = stock]
  <2>1. Writes(r) /\ ~At(r, "write_stock")
    BY <1>1, <1>7, OutIdle DEF Writes, At, Out, Idle
  <2>2. InventoryStep(r) /\ ~InsertItem(r)
    BY <1>1 DEF InventoryStep, InsertItem, At
  <2>3. due'[i] = DueAfterEdit(d, edit)
    BY <1>2, <1>9, <2>1, <2>2, DueOfStep
  <2>4. With([stock_quantity |-> d.stock], edit).stock_quantity = stock
    <3>1. PICK old : old = [stock_quantity |-> d.stock]
      OBVIOUS
    <3>2. DOMAIN old = {"stock_quantity"} /\ old.stock_quantity = items[i].stock_quantity
      BY <1>1, <1>9, <3>1 DEF Suits
    <3> QED
      BY <1>6, <3>1, <3>2, WithSo
  <2> QED
    BY <2>3, <2>4 DEF DueAfterEdit
<1>11. /\ DOMAIN due'[i] = {"stock", "history", "cost"} /\ due'[i].stock = stock /\ due'[i].cost = stock
       /\ due'[i].history = d.history
  BY <1>1, <1>9, <1>10 DEF Suits
<1>12. Suits(row, due'[i])
  BY <1>1, <1>6, <1>9, <1>11 DEF Suits
<1>13. Worker(r, i)' /\ KnowsItem(req'[r], row, due'[i])
  BY <1>7, <1>11 DEF Worker, KnowsItem, SpendPcs, LooksUp, PushPcs
<1>14. TheItem(i) \notin stopped' => Pays(req'[r], expenses'[i], due'[i])
  <2>1. TheItem(i) \notin stopped' => expenses'[i] = <<due[i].cost>>
    BY <1>1, <1>7 DEF Agrees, Pays, Noted
  <2> QED
    BY <1>7, <2>1 DEF Pays, LooksUp
<1> QED
  BY <1>7, <1>8, <1>12, <1>13, <1>14, Worked DEF Noted

LEMMA SpendAgrees ==
    ASSUME LocalsReady, TenantInv, Noted, LocalsReady', TenantInv',
           NEW r \in Reqs, FindExpense(r) \/ InsertExpense(r) \/ UpdateExpense(r), NEW i, i = req[r].id, Worker(r, i),
           i \in DOMAIN items, TheItem(i) \notin mixed', Agrees(i)
    PROVE  Agrees(i)'
<1>1. /\ items[i] # NULL /\ Suits(items[i], due[i])
      /\ req[r].pc \in {"find_expense", "insert_expense", "update_expense"} /\ req[r].amount = due[i].cost
      /\ UNCHANGED items
  BY DEF Agrees, KnowsItem, FindExpense, InsertExpense, UpdateExpense, At, SpendPcs, inventoryVars
<1>2. "id" \in DOMAIN req[r] /\ "amount" \in DOMAIN req[r] /\ Spends(req[r])
  BY <1>1 DEF Worker, TenantInv, LocalTyped, SpendPcs, LooksUp, LocalsReady, Ready, NamesReady
<1>3. TheItem(i) \notin stopped' => Pays(req[r], expenses[i], due[i])
  BY DEF Agrees, Noted
<1>4. ASSUME Alone(r) PROVE due'[i] = due[i]
  BY <1>1, <1>4, NoneWrites DEF Alone
<1>5. ASSUME NEW p, Goto(r, p), p \in {"insert_expense", "update_expense", "answer"},
             TheItem(i) \notin stopped' => Pays(req'[r], expenses'[i], due[i])
      PROVE  Agrees(i)'
  <2>1. Alone(r) /\ req'[r].pc = p /\ DOMAIN req'[r] = DOMAIN req[r] /\ req'[r].id = i /\ req'[r].amount = req[r].amount
    <3>1. Alone(r) /\ req'[r].pc = p /\ DOMAIN req'[r] = DOMAIN req[r]
          /\ \A f \in DOMAIN req[r] \ {"pc"} : req'[r][f] = req[r][f]
      BY <1>5, GoesOnSo DEF GoesOn
    <3> QED
      BY <1>2, <3>1
  <2>2. Worker(r, i)'
    BY <1>2, <1>5, <2>1 DEF Worker, PushPcs
  <2>3. KnowsItem(req'[r], items'[i], due'[i])
    BY <1>1, <1>4, <1>5, <2>1 DEF KnowsItem
  <2> QED
    BY <1>1, <1>4, <1>5, <2>1, <2>2, <2>3, Worked DEF Noted
<1>6. ASSUME Alone(r), ~Worker(r, i)', TheItem(i) \notin stopped' => expenses'[i] = <<due[i].cost>>
      PROVE  Agrees(i)'
  <2>1. TheItem(i) \notin stopped' => expenses'[i] = Settled(items'[i], due'[i])
    BY <1>1, <1>4, <1>6 DEF Settled
  <2> QED
    BY <1>1, <1>4, <1>6, <2>1, Freed
<1>7. CASE FindExpense(r)
  <2>1. Goto(r, IF expenses[i] = <<>> THEN "insert_expense" ELSE "update_expense") /\ UNCHANGED expenses
    BY <1>7 DEF FindExpense, inventoryVars
  <2>2. PICK p : p = IF expenses[i] = <<>> THEN "insert_expense" ELSE "update_expense"
    OBVIOUS
  <2>3. req'[r].pc = p
    BY <2>1, <2>2, GoesOnSo DEF GoesOn
  <2>4. req[r].pc = "find_expense"
    BY <1>7 DEF FindExpense, At
  <2>5. TheItem(i) \notin stopped' => Pays(req'[r], expenses'[i], due[i])
    BY <1>3, <2>1, <2>2, <2>3, <2>4 DEF Pays, LooksUp
  <2> QED
    BY <1>5, <2>1, <2>2, <2>5
<1>8. ASSUME Goto(r, req[r].after), req[r].after \in {"answer", "push_item"},
             TheItem(i) \notin stopped' => expenses'[i] = <<due[i].cost>>
      PROVE  Agrees(i)'
  <2>1. Alone(r) /\ req'[r].pc = req[r].after
    BY <1>8, GoesOnSo DEF GoesOn
  <2>2. CASE req[r].after = "answer"
    <3>1. TheItem(i) \notin stopped' => Pays(req'[r], expenses'[i], due[i])
      BY <1>8, <2>1, <2>2 DEF Pays, LooksUp
    <3> QED
      BY <1>5, <1>8, <2>2, <3>1
  <2>3. CASE req[r].after = "push_item"
    <3>1. ~Worker(r, i)'
      BY <2>1, <2>3 DEF Worker, PushPcs
    <3> QED
      BY <1>6, <1>8, <2>1, <3>1
  <2> QED
    BY <1>8, <2>2, <2>3
<1>9. CASE InsertExpense(r)
  <2>1. /\ req[r].pc = "insert_expense" /\ req[r].after \in {"answer", "push_item"}
    BY <1>2, <1>9 DEF InsertExpense, At, Spends
  <2>2. expenses' = [expenses EXCEPT ![i] = Append(expenses[i], req[r].amount)] /\ Goto(r, req[r].after)
    BY <1>9 DEF InsertExpense
  <2>3. expenses'[i] = Append(expenses[i], req[r].amount)
    BY <2>2 DEF TenantInv
  <2>4. TheItem(i) \notin stopped' => expenses[i] = <<>>
    BY <1>3, <2>1 DEF Pays
  <2>5. Append(<<>>, req[r].amount) = <<req[r].amount>>
    OBVIOUS
  <2> QED
    BY <1>1, <1>8, <2>1, <2>2, <2>3, <2>4, <2>5
<1>10. CASE UpdateExpense(r) /\ expenses[i] = <<>>
  <2>1. req'[r] = Idle /\ Alone(r) /\ req[r].pc = "update_expense"
    BY <1>10, GoesOnSo DEF UpdateExpense, Raised, At
  <2>2. ~Worker(r, i)'
    BY <2>1, OutIdle DEF Worker, Out
  <2>3. TheItem(i) \in stopped'
    <3>1. i \in Nat
      BY DEF TenantInv
    <3> QED
      BY <2>1, <3>1, GivesUpSo DEF SpendPcs, Noted
  <2> QED
    BY <1>6, <2>1, <2>2, <2>3
<1>11. CASE UpdateExpense(r) /\ expenses[i] # <<>>
  <2>1. req[r].pc = "update_expense" /\ req[r].after \in {"answer", "push_item"}
    BY <1>2, <1>11 DEF UpdateExpense, At, Spends
  <2>2. expenses' = [expenses EXCEPT ![i] = [expenses[i] EXCEPT ![1] = req[r].amount]] /\ Goto(r, req[r].after)
    BY <1>11 DEF UpdateExpense
  <2>3. expenses'[i] = [expenses[i] EXCEPT ![1] = req[r].amount]
    BY <2>2 DEF TenantInv
  <2>4. TheItem(i) \notin stopped' => \E x : expenses[i] = <<x>>
    BY <1>3, <2>1 DEF Pays
  <2>5. \A x : [<<x>> EXCEPT ![1] = req[r].amount] = <<req[r].amount>>
    OBVIOUS
  <2> QED
    BY <1>1, <1>8, <2>1, <2>2, <2>3, <2>4, <2>5
<1> QED
  BY <1>7, <1>9, <1>10, <1>11

LEMMA DeleteAgrees ==
    ASSUME LocalsReady, TenantInv, Noted, LocalsReady', TenantInv',
           NEW r \in Reqs, DeleteExpense(r) \/ DeleteItem(r), NEW i, i = req[r].id, Worker(r, i),
           i \in DOMAIN items, TheItem(i) \notin mixed', Agrees(i)
    PROVE  Agrees(i)'
<1>1. items[i] # NULL /\ Suits(items[i], due[i]) /\ "id" \in DOMAIN req[r]
  BY DEF Agrees, Worker
<1>2. TheItem(i) \notin stopped' => Pays(req[r], expenses[i], due[i])
  BY DEF Agrees, Noted
<1>3. CASE DeleteExpense(r)
  <2>1. /\ req[r].pc = "delete_expense" /\ Goto(r, "delete_item") /\ UNCHANGED items
        /\ expenses' = IF expenses[i] = <<>> THEN expenses ELSE [expenses EXCEPT ![i] = Tail(expenses[i])]
    BY <1>3 DEF DeleteExpense, At
  <2>2. Alone(r) /\ req'[r].pc = "delete_item" /\ DOMAIN req'[r] = DOMAIN req[r] /\ req'[r].id = i
    <3>1. /\ Alone(r) /\ req'[r].pc = "delete_item" /\ DOMAIN req'[r] = DOMAIN req[r]
          /\ \A f \in DOMAIN req[r] \ {"pc"} : req'[r][f] = req[r][f]
      BY <2>1, GoesOnSo DEF GoesOn
    <3> QED
      BY <1>1, <3>1
  <2>3. due'[i] = due[i]
    BY <2>1, <2>2, NoneWrites DEF Alone
  <2>4. expenses'[i] = IF expenses[i] = <<>> THEN <<>> ELSE Tail(expenses[i])
    BY <2>1 DEF TenantInv
  <2>5. TheItem(i) \notin stopped' => expenses'[i] = <<>>
    <3>1. TheItem(i) \notin stopped' => expenses[i] = <<due[i].cost>>
      BY <1>2, <2>1 DEF Pays
    <3>2. Tail(<<due[i].cost>>) = <<>>
      OBVIOUS
    <3> QED
      BY <2>4, <3>1, <3>2
  <2>6. Worker(r, i)' /\ KnowsItem(req'[r], items'[i], due'[i])
    BY <1>1, <2>2 DEF Worker, KnowsItem, SpendPcs, LooksUp, PushPcs
  <2>7. TheItem(i) \notin stopped' => Pays(req'[r], expenses'[i], due'[i])
    BY <2>2, <2>5 DEF Pays, LooksUp
  <2> QED
    BY <1>1, <2>1, <2>3, <2>6, <2>7, Worked DEF Noted
<1>4. CASE DeleteItem(r)
  <2>1. /\ req[r].pc = "delete_item" /\ req'[r] = Idle /\ Alone(r)
        /\ items' = [items EXCEPT ![i] = NULL] /\ UNCHANGED expenses
    BY <1>4, GoesOnSo DEF DeleteItem, At
  <2>2. items'[i] = NULL /\ ~Worker(r, i)'
    BY <2>1, OutIdle DEF Worker, Out
  <2>3. TheItem(i) \notin stopped' => expenses'[i] = Settled(items'[i], due'[i])
    BY <1>2, <2>1, <2>2 DEF Pays, Settled
  <2> QED
    BY <2>1, <2>2, <2>3, Freed
<1> QED
  BY <1>3, <1>4

LEMMA StepAgrees ==
    ASSUME LocalsReady, TenantInv, ItemInv, Noted, LocalsReady', TenantInv',
           NEW r \in Reqs, InventoryStep(r), ~InsertItem(r)
    PROVE  ItemInv'
<1>1. DOMAIN items' = DOMAIN items
  BY StepTyped DEF OnRows
<1>2. Worker(r, req[r].id)
  BY OnItem DEF Worker, Held, EditPcs, SpendPcs, LooksUp, PushPcs
<1>3. ASSUME NEW i \in DOMAIN items, TheItem(i) \notin mixed' PROVE Agrees(i)'
  <2>1. Agrees(i)
    BY <1>3 DEF ItemInv, Noted
  <2>2. CASE i # req[r].id
    BY <1>3, <2>2, StepOther
  <2>3. CASE i = req[r].id
    BY <1>2, <1>3, <2>1, <2>3, StockAgrees, EditAgrees, SpendAgrees, DeleteAgrees DEF InventoryStep
  <2> QED
    BY <2>2, <2>3
<1> QED
  BY <1>1, <1>3 DEF ItemInv

LEMMA ItemsKept ==
    ASSUME LocalsReady, LocalsReady', TenantInv, TenantInv', ItemInv, DeskNext, Noted
    PROVE  ItemInv'
  BY ApartAgrees, NamesAgree, ArriveAgrees, InsertAgrees, StepAgrees, StepKinds, TenantIds DEF OnItems

-----------------------------------------------------------------------------
StockInv == TenantInv /\ AccountsInv /\ NameInv /\ ItemInv

LEMMA StockStarts == HInit => StockInv
<1> SUFFICES ASSUME HInit PROVE StockInv
  OBVIOUS
<1>1. DeskInit /\ due = <<>>
  BY DEF HInit
<1>2. /\ items = <<>> /\ expenses = <<>> /\ accounts = <<>> /\ names = [c \in Collections |-> <<>>]
      /\ \A r \in Reqs : req[r] = Idle
  BY <1>1 DEF DeskInit, RequestsInit, NamesInit, InventoryInit
<1>3. DOMAIN items = {} /\ DOMAIN expenses = {} /\ DOMAIN due = {} /\ DOMAIN accounts = {}
  BY <1>1, <1>2
<1>4. TenantInv
  <2>1. \A r \in Reqs : LocalTyped(req[r], DOMAIN items)
    BY <1>2, OutIdle, LocalOut
  <2>2. \A S : <<>> \in Seq(S)
    OBVIOUS
  <2> QED
    BY <1>1, <1>2, <1>3, <2>1, <2>2 DEF TenantInv
<1>5. AccountsInv
  BY <1>2, <1>3 DEF AccountsInv, Open
<1>6. NameInv
  <2>1. \A r \in Reqs : ~Adding(req[r])
    BY <1>2, OutIdle DEF Adding, Out, TenantPcs, SpendPcs, LooksUp
  <2> QED
    BY <1>3, <2>1 DEF NameInv, AddedNames, KeptNames, Kept
<1>7. ItemInv
  BY <1>3 DEF ItemInv
<1> QED
  BY <1>4, <1>5, <1>6, <1>7 DEF StockInv

LEMMA StockKept == DeskInv /\ StockInv /\ [HNext]_vars => StockInv'
<1> SUFFICES ASSUME DeskInv, StockInv, [HNext]_vars PROVE StockInv'
  OBVIOUS
<1>1. LocalsReady /\ LocalsReady'
  BY DeskKept DEF DeskInv
<1>2. CASE HNext
  <2>1. DeskNext /\ Noted
    BY <1>2 DEF HNext, Noted
  <2>2. TenantInv'
    BY <1>1, <2>1, TenantKept DEF StockInv, Noted
  <2>3. AccountsInv'
    BY <1>1, <2>1, AccountsKept, TenantIds DEF StockInv
  <2>4. NameInv'
    BY <1>1, <2>1, AddedKept, KeptNamesKept DEF StockInv, NameInv, Noted
  <2>5. ItemInv'
    BY <1>1, <2>1, <2>2, ItemsKept DEF StockInv
  <2> QED
    BY <2>2, <2>3, <2>4, <2>5 DEF StockInv
<1>3. CASE UNCHANGED vars
  <2>1. UNCHANGED <<req, items, expenses, accounts, names, due, mixed, stopped>>
    BY <1>3 DEF vars, deskVars, historyVars, restaurantVars, namesVars, inventoryVars
  <2>2. TenantInv' /\ AccountsInv'
    BY <2>1 DEF StockInv, TenantInv, AccountsInv, Open
  <2>3. NameInv'
    BY <2>1 DEF StockInv, NameInv, AddedNames, KeptNames, Kept, Found, Listed, Worker
  <2>4. ItemInv'
    BY <2>1 DEF StockInv, ItemInv, Agrees, Worker
  <2> QED
    BY <2>2, <2>3, <2>4 DEF StockInv
<1> QED
  BY <1>2, <1>3

LEMMA StockHolds == HSpec => [](DeskInv /\ StockInv)
<1>1. HInit => DeskInv /\ StockInv
  BY DeskStarts, StockStarts
<1>2. DeskInv /\ StockInv /\ [HNext]_vars => DeskInv' /\ StockInv'
  BY DeskKept, StockKept
<1> QED
  BY <1>1, <1>2, PTL DEF HSpec

(* Stock, history and status of an item are as if its requests had come    *)
(* one by one, and it has the one expense that goes with them, whatever    *)
(* else is served meanwhile: unless two requests did work on it at once,   *)
(* or, for the expense, one ended before it was written                    *)
(* (create_inventory_item, update_inventory_stock, update_inventory_item,  *)
(* delete_inventory_item, _upsert_inventory_linked_expense).               *)
THEOREM ItemsFollow == HSpec => []ItemsAsIfAtomic
<1>1. DeskInv /\ StockInv => ItemsAsIfAtomic
  BY Unspoilt DEF DeskInv, StockInv
<1> QED
  BY <1>1, StockHolds, PTL

(* What an item is called can be chosen from the lists once its requests   *)
(* have ended, even if they overlapped; and no cash deposit is counted     *)
(* with two bank accounts (_upsert_inventory_metadata,                     *)
(* list_bank_accounts).                                                    *)
THEOREM NamesAreThere == HSpec => []NamesServe
<1>1. DeskInv /\ StockInv => NamesServe
  BY NamesListed, ShownOnce DEF DeskInv, StockInv, NameInv, NamesServe
<1> QED
  BY <1>1, StockHolds, PTL

-----------------------------------------------------------------------------
(* The requests that carry a copy of the user to a push, and those that    *)
(* write the user's record.                                                *)
AlertPcs == {"find_alert", "insert_alert", "push_alert"}
HasCopy(l) ==
    \/ l.pc \in {"insert_item", "write_stock", "ask_other"} \cup PushPcs \cup AlertPcs
    \/ l.pc \in LooksUp /\ l.next = "insert_item"
    \/ l.pc \in SpendPcs /\ (l.pc \in LooksUp => l.next = "find_expense") /\ l.after = "push_item"
    \/ l.pc \in Generating /\ l.next \in AlertNexts
Noticing(l) == HasCopy(l) \/ l.pc \in {"write_devices", "write_settings"}

LEMMA IdleUnnoticed == ~Noticing(Idle)
  BY DEF Idle, Noticing, HasCopy, PushPcs, AlertPcs, LooksUp, SpendPcs, Generating, Slept, AlertNexts

LEMMA AfarUnnoticed ==
    ASSUME NEW l, Afar(l)
    PROVE  ~Noticing(l)
  BY DEF Afar, Out, TenantPcs, NoticePcs, Noticing, HasCopy, PushPcs, EditPcs, AlertPcs, LooksUp, SpendPcs,
         Generating, Slept, AlertNexts

LEMMA OfficeUnnoticed ==
    ASSUME LocalsReady, NEW r \in Reqs, Afar(req[r]) \/ At(r, "idle"), StaysAfar(r)
    PROVE  ~Noticing(req'[r]) /\ \A q \in Reqs \ {r} : req'[q] = req[q]
<1>1. ASSUME NEW l, Begin(r, l) \/ Keep(r, l), Afar(l)
      PROVE  ~Noticing(req'[r]) /\ \A q \in Reqs \ {r} : req'[q] = req[q]
  BY <1>1, Steps, AfarUnnoticed
<1>2. CASE Done(r)
  BY <1>2, Steps, IdleUnnoticed
<1>3. ASSUME NEW p, Goto(r, p), p \notin TenantPcs \cup NoticePcs
      PROVE  ~Noticing(req'[r]) /\ \A q \in Reqs \ {r} : req'[q] = req[q]
  <2>1. req'[r].pc = p /\ \A q \in Reqs \ {r} : req'[q] = req[q]
    BY <1>3, Steps
  <2> QED
    BY <1>3, <2>1 DEF TenantPcs, NoticePcs, Noticing, HasCopy, PushPcs, EditPcs, AlertPcs, LooksUp, SpendPcs,
       Generating, Slept, AlertNexts
<1> QED
  BY <1>1, <1>2, <1>3 DEF StaysAfar

LEMMA ChatUnnoticed ==
    ASSUME NEW l, Ready(l), l.pc \in ChatPcs \cup InsightNexts \/ (l.pc \in Generating /\ (Chatting(l) \/ "newest" \in DOMAIN l))
    PROVE  ~Noticing(l)
<1>1. CASE l.pc \in ChatPcs \cup InsightNexts
  BY <1>1 DEF Noticing, HasCopy, PushPcs, EditPcs, AlertPcs, LooksUp, SpendPcs, Generating, Slept, AlertNexts,
     ChatPcs, MessagePcs, Answering, ListedPcs, InsightNexts
<1>2. CASE l.pc \in Generating
  <2>1. l.next \notin AlertNexts
    BY <1>2 DEF Ready, ChatReady, GenerationReady, Chatting, InsightNexts, OtherNexts, AlertNexts, Generating,
       Slept, ChatPcs, MessagePcs, Answering, ListedPcs
  <2> QED
    BY <1>2, <2>1 DEF Noticing, HasCopy, PushPcs, AlertPcs, LooksUp, SpendPcs, Generating, Slept
<1> QED
  BY <1>1, <1>2

LEMMA TalkUnnoticed ==
    ASSUME LocalsReady, LocalsReady', NEW r \in Reqs,
           ChatArrive(r) \/ ChatStep(r) \/ BeginInsight(r) \/ InsightStep(r)
    PROVE  ~Noticing(req'[r]) /\ \A q \in Reqs \ {r} : req'[q] = req[q]
<1>0. Ready(req'[r])
  BY DEF LocalsReady
<1>1. CASE BeginInsight(r)
  <2>1. PICK l : Begin(r, l) /\ l.pc = "ask" /\ "newest" \in DOMAIN l
    BY <1>1 DEF BeginInsight
  <2>2. req'[r] = l /\ \A q \in Reqs \ {r} : req'[q] = req[q]
    BY <2>1, Steps
  <2> QED
    BY <1>0, <2>1, <2>2, ChatUnnoticed DEF Generating
<1>2. CASE InsightStep(r)
  <2>1. CASE AskTranslated(r)
    <3>1. PICK m : m = [req[r] EXCEPT !.pc = "ask", !.key = "insight_it", !.next = "write_insight"]
      OBVIOUS
    <3>2. Keep(r, m) /\ At(r, "ask_translated")
      BY <2>1, <3>1 DEF AskTranslated, Asking
    <3>3. m.pc = "ask" /\ "newest" \in DOMAIN m
      BY <3>1, <3>2, Steps DEF LocalsReady, Ready, GenerationReady, At, InsightNexts
    <3>4. req'[r] = m /\ \A q \in Reqs \ {r} : req'[q] = req[q]
      BY <3>2, Steps
    <3> QED
      BY <1>0, <3>3, <3>4, ChatUnnoticed DEF Generating
  <2>2. CASE WriteInsight(r)
    BY <2>2, IdleUnnoticed, Steps DEF WriteInsight
  <2> QED
    BY <1>2, <2>1, <2>2 DEF InsightStep
<1>3. ASSUME NEW l, Joins(r, l) \/ Goes(r, l), l.pc \in ChatPcs \/ (l.pc = "ask" /\ "upto" \in DOMAIN l)
      PROVE  ~Noticing(req'[r]) /\ \A q \in Reqs \ {r} : req'[q] = req[q]
  <2>1. req'[r] = l /\ \A q \in Reqs \ {r} : req'[q] = req[q]
    BY <1>3, Steps DEF Joins, Goes
  <2> QED
    BY <1>0, <1>3, <2>1, ChatUnnoticed DEF Generating, Chatting
<1>4. CASE ChatArrive(r)
  <2>1. \E l : Joins(r, l) /\ (l.pc \in ChatPcs \/ (l.pc = "ask" /\ "upto" \in DOMAIN l))
    BY <1>4, BeginMessageSo, BeginEditMessageSo, BeginHistorySo
       DEF ChatArrive, ChatPcs, MessagePcs, Answering, ListedPcs
  <2> QED
    BY <1>3, <2>1
<1>5. CASE ChatStep(r)
  <2>1. CASE Broadcast(r) \/ Answered(r)
    BY <2>1, Steps, IdleUnnoticed DEF Broadcast, Answered
  <2>2. CASE ~(Broadcast(r) \/ Answered(r))
    <3>1. \E l : Goes(r, l) /\ (l.pc \in ChatPcs \/ (l.pc = "ask" /\ "upto" \in DOMAIN l))
      BY <1>5, <2>2, EditMessageSo, ReadContextSo, InsertReplySo, ListChatSo, ReadMemorySo, WriteMemorySo,
         WriteTranslationSo DEF ChatStep, ChatPcs, MessagePcs, Answering, ListedPcs
    <3> QED
      BY <1>3, <3>1
  <2> QED
    BY <2>1, <2>2
<1> QED
  BY <1>1, <1>2, <1>4, <1>5

-----------------------------------------------------------------------------
(* The list of phones but for those that are gone: it is built phone by    *)
(* phone, by a recursive function.                                         *)
Sifts(f, list, gone, n) ==
    /\ f = [k \in 0 .. n |-> f[k]]
    /\ f[0] = <<>>
    /\ \A k \in 1 .. n : f[k] = IF list[k] \in gone THEN f[k - 1] ELSE Append(f[k - 1], list[k])

LEMMA SiftsUpTo ==
    ASSUME NEW list, Len(list) \in Nat, NEW gone
    PROVE  \E f : Sifts(f, list, gone, Len(list))
<1> DEFINE Bad == {n \in Nat : ~\E f : Sifts(f, list, gone, n)}
<1>1. ASSUME NEW n \in Bad, \A m \in Nat : m < n => m \notin Bad PROVE FALSE
  <2>1. n # 0
    <3>1. Sifts([k \in 0 .. 0 |-> <<>>], list, gone, 0)
      BY DEF Sifts
    <3> QED
      BY <3>1
  <2>2. n - 1 \in Nat /\ n - 1 < n
    BY <2>1
  <2>3. PICK f : Sifts(f, list, gone, n - 1)
    BY <1>1, <2>2
  <2>4. PICK last : last = IF list[n] \in gone THEN f[n - 1] ELSE Append(f[n - 1], list[n])
    OBVIOUS
  <2>5. PICK g : g = [k \in 0 .. n |-> IF k = n THEN last ELSE f[k]]
    OBVIOUS
  <2>6. g = [k \in 0 .. n |-> g[k]] /\ g[0] = <<>>
    BY <2>1, <2>3, <2>5 DEF Sifts
  <2>7. ASSUME NEW k \in 1 .. n
        PROVE  g[k] = IF list[k] \in gone THEN g[k - 1] ELSE Append(g[k - 1], list[k])
    <3>1. g[k - 1] = f[k - 1]
      BY <2>5
    <3>2. CASE k = n
      BY <2>4, <2>5, <3>1, <3>2
    <3>3. CASE k # n
      <4>1. k \in 1 .. n - 1 /\ g[k] = f[k]
        BY <2>5, <3>3
      <4> QED
        BY <2>3, <3>1, <4>1 DEF Sifts
    <3> QED
      BY <3>2, <3>3
  <2>8. Sifts(g, list, gone, n)
    BY <2>6, <2>7 DEF Sifts
  <2> QED
    BY <2>8
<1>2. Bad = {}
  <2> SUFFICES ASSUME Bad # {} PROVE FALSE
    OBVIOUS
  <2>1. PICK R : R = {ss \in Nat \X Nat : ss[1] < ss[2]} /\ IsWellFoundedOn(R, Nat)
    BY NatLessThanWellFounded DEF OpToRel
  <2>2. PICK n \in Bad : \A m \in Bad : <<m, n>> \notin R
    BY <2>1, WFMin
  <2>3. \A x, y \in Nat : x < y => <<x, y>> \in R
    BY <2>1
  <2> QED
    BY <1>1, <2>2, <2>3
<1> QED
  BY <1>2

LEMMA WithoutIs ==
    ASSUME NEW list, Len(list) \in Nat, NEW gone
    PROVE  \E f : Sifts(f, list, gone, Len(list)) /\ Without(list, gone) = f[Len(list)]
<1> DEFINE F(f) == [n \in 0 .. Len(list) |-> IF n = 0 THEN <<>>
                    ELSE IF list[n] \in gone THEN f[n - 1] ELSE Append(f[n - 1], list[n])]
<1>1. PICK g : Sifts(g, list, gone, Len(list))
  BY SiftsUpTo
<1>2. g = F(g)
  <2>1. g = [n \in 0 .. Len(list) |-> g[n]] /\ F(g) = [n \in 0 .. Len(list) |-> F(g)[n]]
    BY <1>1 DEF Sifts
  <2>2. ASSUME NEW n \in 0 .. Len(list) PROVE F(g)[n] = g[n]
    <3>1. CASE n = 0
      BY <1>1, <3>1 DEF Sifts
    <3>2. CASE n # 0
      <4>1. n \in 1 .. Len(list)
        BY <3>2
      <4> QED
        BY <1>1, <3>2, <4>1 DEF Sifts
    <3> QED
      BY <3>1, <3>2
  <2> HIDE DEF F
  <2> QED
    BY <2>1, <2>2
<1>3. PICK f : f = CHOOSE h : h = F(h)
  OBVIOUS
<1>4. f = F(f)
  <2>1. \E h : h = F(h)
    BY <1>2
  <2> HIDE DEF F
  <2> QED
   BY <1>3, <2>1
<1>5. Without(list, gone) = f[Len(list)]
  BY <1>3 DEF Without
<1>6. Sifts(f, list, gone, Len(list))
  <2>1. f = [n \in 0 .. Len(list) |-> f[n]] /\ \A n \in 0 .. Len(list) : f[n] = F(f)[n]
    <3>1. F(f) = [n \in 0 .. Len(list) |-> F(f)[n]]
      OBVIOUS
    <3> HIDE DEF F
    <3> QED
      BY <1>4, <3>1
  <2>2. f[0] = <<>>
    BY <2>1
  <2>3. ASSUME NEW k \in 1 .. Len(list)
        PROVE  f[k] = IF list[k] \in gone THEN f[k - 1] ELSE Append(f[k - 1], list[k])
    <3>1. k \in 0 .. Len(list) /\ k # 0
      OBVIOUS
    <3> QED
      BY <2>1, <3>1
  <2> QED
    BY <2>1, <2>2, <2>3 DEF Sifts
<1> QED
  BY <1>5, <1>6

Distinct(list) ==
    \A i, j \in DOMAIN list : (list[i].device_id = list[j].device_id \/ list[i].token = list[j].token) => i = j

LEMMA WithoutSo ==
    ASSUME NEW list \in Seq(Phones), Distinct(list), NEW gone
    PROVE  /\ Without(list, gone) \in Seq(Phones) /\ Distinct(Without(list, gone))
           /\ \A i \in DOMAIN Without(list, gone) : Without(list, gone)[i] \notin gone
<1>1. PICK f : Sifts(f, list, gone, Len(list)) /\ Without(list, gone) = f[Len(list)]
  BY WithoutIs
<1>2. Len(list) \in Nat /\ DOMAIN list = 1 .. Len(list)
  OBVIOUS
<1> DEFINE Sifted(n) ==
      /\ f[n] \in Seq(Phones)
      /\ Distinct(f[n])
      /\ \A i \in DOMAIN f[n] : f[n][i] \notin gone /\ \E k \in 1 .. n : f[n][i] = list[k]
<1>3. Sifted(0)
  BY <1>1 DEF Sifts, Distinct
<1>4. ASSUME NEW n \in 1 .. Len(list), Sifted(n - 1)
      PROVE  Sifted(n)
  <2>1. CASE list[n] \in gone
    <3>1. f[n] = f[n - 1]
      BY <1>1, <2>1 DEF Sifts
    <3>2. \A k \in 1 .. n - 1 : k \in 1 .. n
      OBVIOUS
    <3> QED
      BY <1>4, <3>1, <3>2
  <2>2. CASE list[n] \notin gone
    <3>1. PICK s : s = f[n - 1]
      OBVIOUS
    <3>2. PICK t : t = Append(s, list[n])
      OBVIOUS
    <3>3. f[n] = t
      BY <1>1, <2>2, <3>1, <3>2 DEF Sifts
    <3>4. /\ s \in Seq(Phones) /\ Distinct(s)
          /\ \A i \in DOMAIN s : s[i] \notin gone /\ \E k \in 1 .. n - 1 : s[i] = list[k]
      BY <1>4, <3>1
    <3>5. list[n] \in Phones
      BY <1>2
    <3>6. /\ t \in Seq(Phones) /\ Len(t) = Len(s) + 1 /\ t[Len(t)] = list[n]
          /\ DOMAIN t = 1 .. Len(t) /\ DOMAIN s = 1 .. Len(s) /\ Len(s) \in Nat
          /\ \A i \in DOMAIN s : t[i] = s[i]
      BY <3>2, <3>4, <3>5
    <3>7. ASSUME NEW i \in DOMAIN t
          PROVE  t[i] \notin gone /\ \E k \in 1 .. n : t[i] = list[k]
      <4>1. CASE i = Len(t)
        BY <2>2, <3>6, <4>1
      <4>2. CASE i # Len(t)
        <5>1. i \in DOMAIN s
          BY <3>6, <4>2
        <5>2. PICK k \in 1 .. n - 1 : s[i] = list[k]
          BY <3>4, <5>1
        <5> QED
          BY <3>4, <3>6, <5>1, <5>2
      <4> QED
        BY <4>1, <4>2
    <3>8. ASSUME NEW i \in DOMAIN s, s[i].device_id = list[n].device_id \/ s[i].token = list[n].token
          PROVE  FALSE
      <4>1. PICK k \in 1 .. n - 1 : s[i] = list[k]
        BY <3>4, <3>8
      <4>2. k \in DOMAIN list /\ n \in DOMAIN list /\ k # n
        BY <1>2
      <4> QED
        BY <3>8, <4>1, <4>2 DEF Distinct
    <3>9. ASSUME NEW i \in DOMAIN t, NEW j \in DOMAIN t,
                 t[i].device_id = t[j].device_id \/ t[i].token = t[j].token
          PROVE  i = j
      <4>1. CASE i \in DOMAIN s /\ j \in DOMAIN s
        BY <3>4, <3>6, <3>9, <4>1 DEF Distinct
      <4>2. CASE i \notin DOMAIN s /\ j \notin DOMAIN s
        BY <3>6, <4>2
      <4>3. CASE i \in DOMAIN s /\ j \notin DOMAIN s
        <5>1. j = Len(t) /\ t[j] = list[n] /\ t[i] = s[i]
          BY <3>6, <4>3
        <5> QED
          BY <3>8, <3>9, <4>3, <5>1
      <4>4. CASE i \notin DOMAIN s /\ j \in DOMAIN s
        <5>1. i = Len(t) /\ t[i] = list[n] /\ t[j] = s[j]
          BY <3>6, <4>4
        <5> QED
          BY <3>8, <3>9, <4>4, <5>1
      <4> QED
        BY <4>1, <4>2, <4>3, <4>4
    <3> QED
      BY <3>3, <3>6, <3>7, <3>9 DEF Distinct
  <2> QED
    BY <2>1, <2>2
<1>5. \A n \in 0 .. Len(list) : Sifted(n)
  <2> DEFINE Bad == {n \in 0 .. Len(list) : ~Sifted(n)}
  <2> SUFFICES ASSUME Bad # {} PROVE FALSE
    OBVIOUS
  <2>1. PICK R : R = {ss \in Nat \X Nat : ss[1] < ss[2]} /\ IsWellFoundedOn(R, Nat)
    BY NatLessThanWellFounded DEF OpToRel
  <2>2. Bad \subseteq Nat
    BY <1>2
  <2>3. PICK n \in Bad : \A m \in Bad : <<m, n>> \notin R
    BY <2>1, <2>2, WFMin
  <2>4. \A x, y \in Nat : x < y => <<x, y>> \in R
    BY <2>1
  <2>5. n # 0
    <3>1. ~Sifted(n)
      OBVIOUS
    <3> HIDE DEF Sifted
    <3> QED
      BY <1>3, <3>1
  <2>6. n \in 1 .. Len(list) /\ n - 1 \in 0 .. Len(list) /\ n - 1 < n
    BY <1>2, <2>5
  <2>7. n - 1 \notin Bad
    <3>1. n \in Nat /\ n - 1 \in Nat
      BY <2>2, <2>6
    <3> HIDE DEF Bad
    <3> QED
      BY <2>3, <2>4, <2>6, <3>1
  <2> HIDE DEF Sifted
  <2> QED
    BY <1>4, <2>6, <2>7
<1>6. Sifted(Len(list))
  <2> HIDE DEF Sifted
  <2> QED
    BY <1>2, <1>5
<1> QED
  BY <1>1, <1>6

(* So a registration leaves one entry of each phone and each token.        *)
LEMMA RegisteredSo ==
    ASSUME NEW list \in Seq(Phones), Distinct(list)
    PROVE  /\ \A d \in Phones : Registered(list, d) \in Seq(Phones) /\ Distinct(Registered(list, d))
           /\ \A id : Unregistered(list, id) \in Seq(Phones) /\ Distinct(Unregistered(list, id))
<1>1. ASSUME NEW d \in Phones
      PROVE  Registered(list, d) \in Seq(Phones) /\ Distinct(Registered(list, d))
  <2>1. PICK gone : gone = {e \in Phones : e.device_id = d.device_id \/ e.token = d.token}
    OBVIOUS
  <2>2. PICK s : s = Without(list, gone)
    OBVIOUS
  <2>3. s \in Seq(Phones) /\ Distinct(s) /\ \A i \in DOMAIN s : s[i] \notin gone
    BY <2>2, WithoutSo
  <2>4. PICK t : t = Append(s, d)
    OBVIOUS
  <2>5. /\ t \in Seq(Phones) /\ Len(t) = Len(s) + 1 /\ t[Len(t)] = d
        /\ DOMAIN t = 1 .. Len(t) /\ DOMAIN s = 1 .. Len(s) /\ Len(s) \in Nat
        /\ \A i \in DOMAIN s : t[i] = s[i] /\ s[i] \in Phones
    BY <2>3, <2>4
  <2>6. \A i \in DOMAIN s : s[i].device_id # d.device_id /\ s[i].token # d.token
    BY <2>1, <2>3, <2>5
  <2>7. ASSUME NEW i \in DOMAIN t, NEW j \in DOMAIN t,
               t[i].device_id = t[j].device_id \/ t[i].token = t[j].token
        PROVE  i = j
    <3>1. \A k \in DOMAIN t : k \in DOMAIN s \/ (k = Len(t) /\ t[k] = d)
      BY <2>5
    <3> QED
      BY <2>3, <2>5, <2>6, <2>7, <3>1 DEF Distinct
  <2>8. Registered(list, d) = t
    BY <2>1, <2>2, <2>4 DEF Registered
  <2> QED
    BY <2>5, <2>7, <2>8 DEF Distinct
<1>2. ASSUME NEW id
      PROVE  Unregistered(list, id) \in Seq(Phones) /\ Distinct(Unregistered(list, id))
  BY WithoutSo DEF Unregistered
<1> QED
  BY <1>1, <1>2

-----------------------------------------------------------------------------
(* The texts that are kept, or on their way to who awaits them.            *)
TextInv ==
    /\ cache \in [Keys -> Texts \cup {NULL}]
    /\ \A r \in Reqs : At(r, "wake") => req[r].text \in Texts \cup {NULL}

LEMMA TextKept ==
    ASSUME LocalsReady, GenerationInv, CouponsInv, PricesInv, TextInv, DeskNext
    PROVE  TextInv'
<1> USE DEF Slept
<1>1. ASSUME NEW r \in Reqs, Wake(r)
      PROVE  cache' \in [Keys -> Texts \cup {NULL}]
  <2>1. req[r].text \in Texts \cup {NULL}
    BY <1>1 DEF TextInv, Wake
  <2>2. \/ cache' = cache
        \/ req[r].text # NULL /\ cache' = [cache EXCEPT ![req[r].key] = req[r].text]
    BY <1>1 DEF Wake
  <2> QED
    BY <2>1, <2>2 DEF TextInv
<1>2. ASSUME NEW k, Expire(k)
      PROVE  cache' \in [Keys -> Texts \cup {NULL}]
  BY <1>2 DEF Expire, TextInv
<1>3. UNCHANGED cache \/ (\E r \in Reqs : Wake(r)) \/ (\E k \in Keys : Expire(k))
  <2> USE DEF generationVars
  <2>1. ASSUME NEW r \in Reqs, Step(r) PROVE UNCHANGED cache \/ Wake(r)
    BY <2>1 DEF Step, RestaurantStep, Ask
  <2>2. ASSUME NEW r \in Reqs, Arrive(r) \/ Stop(r) PROVE UNCHANGED cache
    BY <2>2 DEF Arrive, Stop
  <2>3. ASSUME NEW k \in Keys, ModelAnswers(k) PROVE UNCHANGED cache
    BY <2>3 DEF ModelAnswers, Generate, Ends
  <2>4. CASE GenerationLost
    BY <2>4 DEF GenerationLost, CancelAwait, Ends
  <2> QED
    BY <2>1, <2>2, <2>3, <2>4 DEF DeskNext
<1>4. cache' \in [Keys -> Texts \cup {NULL}]
  BY <1>1, <1>2, <1>3 DEF TextInv
<1>5. ASSUME NEW q \in Reqs, req'[q].pc = "wake"
      PROVE  req'[q].text \in Texts \cup {NULL}
  <2>1. ASSUME req'[q] = req[q] PROVE req'[q].text \in Texts \cup {NULL}
    BY <1>5, <2>1 DEF TextInv, At
  <2>2. ASSUME NEW r \in Reqs, NEW l, l.pc # "wake", req' = [req EXCEPT ![r] = l]
        PROVE  req'[q].text \in Texts \cup {NULL}
    BY <1>5, <2>1, <2>2 DEF LocalsReady
  <2>3. ASSUME NEW r \in Reqs, Ordinarily(r) \/ OnInsight(r) \/ OnCoupons(r) \/ OnCheckout(r) \/ Stops(r)
        PROVE  req'[q].text \in Texts \cup {NULL}
    BY <2>2, <2>3, MovesAlone DEF Moves
  <2>4. ASSUME NEW r \in Reqs, Ask(r) \/ Wake(r)
        PROVE  req'[q].text \in Texts \cup {NULL}
    <3>1. req[r].pc \in Generating /\ Ready(req[r])
      BY <2>4, AskLocals DEF LocalsReady
    <3>2. /\ {"pc", "next"} \subseteq DOMAIN req[r]
          /\ req[r].next \in InsightNexts \cup OtherNexts
      BY <3>1 DEF Ready, GenerationReady
    <3>3. \/ Keep(r, Idle)
          \/ \E text : Keep(r, Got(req[r], text))
          \/ \E l : Keep(r, Awaiting(req[r], l))
      BY <2>4 DEF Ask, Wake, Lead, Raised, Done, Keep
    <3>4. ASSUME NEW text, Keep(r, Got(req[r], text))
          PROVE  req'[q].text \in Texts \cup {NULL}
      <4>1. PICK l : l = Got(req[r], text)
        OBVIOUS
      <4>2. l.pc = req[r].next
        BY <3>2, <4>1 DEF Got
      <4>3. l.pc # "wake"
        BY <3>2, <4>2 DEF InsightNexts, OtherNexts, AlertNexts
      <4> QED
        BY <2>2, <3>4, <4>1, <4>3 DEF Keep
    <3>5. ASSUME NEW w, Keep(r, Awaiting(req[r], w))
          PROVE  req'[q].text \in Texts \cup {NULL}
      <4>1. PICK l : l = Awaiting(req[r], w)
        OBVIOUS
      <4>2. l.pc = "await_text"
        BY <3>2, <4>1 DEF Awaiting
      <4> QED
        BY <2>2, <3>5, <4>1, <4>2 DEF Keep
    <3>6. CASE Keep(r, Idle)
      BY <2>2, <3>6 DEF Keep, Idle
    <3> QED
      BY <3>3, <3>4, <3>5, <3>6
  <2>5. ASSUME NEW k \in Keys, NEW text \in Texts \cup {NULL}, Ends(k, text)
        PROVE  req'[q].text \in Texts \cup {NULL}
    <3>1. CASE q \notin Awaiters(k)
      BY <2>1, <2>5, <3>1 DEF Ends
    <3>2. CASE q \in Awaiters(k)
      <4>1. "text" \in DOMAIN req[q]
        BY <3>2 DEF Awaiters, At, LocalsReady, Ready, GenerationReady, Generating
      <4>2. req'[q] = [req[q] EXCEPT !.pc = "wake", !.text = text]
        BY <2>5, <3>2 DEF Ends
      <4> QED
        BY <4>1, <4>2
    <3> QED
      BY <3>1, <3>2
  <2>6. CASE OnGeneration
    BY <2>1, <2>4, <2>5, <2>6 DEF OnGeneration
  <2> QED
    BY <2>3, <2>6, DeskSteps
<1> QED
  BY <1>4, <1>5 DEF TextInv, At

-----------------------------------------------------------------------------
(* What a request that carries a copy of the user, or writes the user's    *)
(* record, has with it.                                                    *)
LocalNotice(l) ==
    /\ HasCopy(l) => "user" \in DOMAIN l
    /\ l.pc \in Generating /\ l.next \in AlertNexts => "alerts" \in DOMAIN l
    /\ l.pc \in Generating /\ l.next = "find_alert" => l.alerts \in Texts
    /\ l.pc = "ask_other" => l.text \in Texts /\ "alerts" \in DOMAIN l
    /\ l.pc \in AlertPcs => "alerts" \in DOMAIN l /\ l.alerts \in Seq(Titles) \ {<<>>}
    /\ l.pc = "write_devices" =>
          /\ {"on", "device", "list"} \subseteq DOMAIN l /\ l.on \in BOOLEAN /\ (l.on => l.device \in Phones)
          /\ l.list \in Seq(Phones) /\ Distinct(l.list)
    /\ l.pc = "write_settings" =>
          l.field \in {"push_notifications", "low_stock_alerts"} /\ l.user.notification_settings \in Settings

LEMMA UnnoticedLocal ==
    ASSUME NEW l, ~Noticing(l)
    PROVE  LocalNotice(l)
  BY DEF Noticing, HasCopy, LocalNotice, AlertNexts

(* A copy goes on with its request, or is made of the record there is.     *)
Carried(l, m) ==
    \/ m = l
    \/ ~Noticing(m)
    \/ /\ HasCopy(m) /\ LocalNotice(m) /\ m.pc # "push_alert"
       /\ m.user = user \/ (HasCopy(l) /\ m.user = l.user)

LEMMA GenerationCarries ==
    ASSUME NEW l, Ready(l), LocalNotice(l), l.pc \in Generating, NEW m, NEW text, NEW leader,
           \/ m = Got(l, text) /\ text \in Texts
           \/ m = Awaiting(l, leader)
           \/ m = [l EXCEPT !.pc = "wake", !.text = text]
    PROVE  Carried(l, m)
<1> USE DEF Generating, Slept, AlertNexts
<1>1. /\ {"pc", "key", "next", "text", "leader"} \subseteq DOMAIN l
      /\ l.next \in InsightNexts \cup OtherNexts
  BY DEF Ready, GenerationReady
<1>2. /\ DOMAIN m = DOMAIN l /\ m.next = l.next
      /\ m.pc \in Slept \/ (m.pc = l.next /\ m.text \in Texts)
      /\ \A f \in DOMAIN l \ {"pc", "text", "leader"} : m[f] = l[f]
  BY <1>1 DEF Got, Awaiting
<1>3. CASE l.next \notin AlertNexts
  <2>1. ~Noticing(m)
    BY <1>1, <1>2, <1>3 DEF Noticing, HasCopy, PushPcs, AlertPcs, LooksUp, SpendPcs, InsightNexts, OtherNexts
  <2> QED
    BY <2>1 DEF Carried
<1>4. CASE l.next \in AlertNexts
  <2>1. HasCopy(l)
    BY <1>4 DEF HasCopy
  <2>2. "user" \in DOMAIN l /\ "alerts" \in DOMAIN l /\ (l.next = "find_alert" => l.alerts \in Texts)
    BY <1>4, <2>1 DEF LocalNotice
  <2>3. m.user = l.user /\ m.alerts = l.alerts
    BY <1>2, <2>2
  <2>4. HasCopy(m) /\ m.pc # "push_alert"
    BY <1>2, <1>4 DEF HasCopy, AlertPcs
  <2>5. LocalNotice(m)
    BY <1>2, <1>4, <2>2, <2>3, TitlesAssumption DEF LocalNotice, AlertPcs
  <2> QED
    BY <2>1, <2>3, <2>4, <2>5 DEF Carried
<1> QED
  BY <1>3, <1>4

-----------------------------------------------------------------------------
(* The inventory carries its copies on to the pushes; the names have none. *)
LEMMA GoesCarried ==
    ASSUME NEW r \in Reqs, NEW p, GoesOn(r, p), LocalNotice(req[r]), HasCopy(req[r]),
           p \in {"insert_item", "insert_expense", "update_expense"} \cup PushPcs,
           p \in SpendPcs => req[r].after = "push_item" /\ "after" \in DOMAIN req[r]
    PROVE  Carried(req[r], req'[r])
<1>1. "user" \in DOMAIN req[r]
  BY DEF LocalNotice
<1>2. req'[r].pc = p /\ req'[r].user = req[r].user /\ "user" \in DOMAIN req'[r]
  BY <1>1 DEF GoesOn, PushPcs
<1>3. p \in SpendPcs => req'[r].after = "push_item"
  BY DEF GoesOn
<1>4. HasCopy(req'[r])
  BY <1>2, <1>3 DEF HasCopy, SpendPcs, LooksUp, PushPcs
<1>5. LocalNotice(req'[r]) /\ req'[r].pc # "push_alert"
  BY <1>2 DEF LocalNotice, PushPcs, AlertPcs, Generating, Slept
<1> QED
  BY <1>2, <1>4, <1>5 DEF Carried

LEMMA NamesCarry ==
    ASSUME LocalsReady, TenantInv, NEW r \in Reqs, LocalNotice(req[r]), NamesArrive(r) \/ NamesStep(r)
    PROVE  Alone(r) /\ Carried(req[r], req'[r])
<1> USE DEF Alone
<1>1. ASSUME NEW l, Begin(r, l), l.pc \in {"insert_account", "rename_account", "delete_account"}
      PROVE  Alone(r) /\ Carried(req[r], req'[r])
  <2>1. req'[r] = l /\ Alone(r)
    BY <1>1, Steps
  <2>2. ~Noticing(l)
    BY <1>1 DEF Noticing, HasCopy, PushPcs, AlertPcs, LooksUp, SpendPcs, Generating, Slept
  <2> QED
    BY <2>1, <2>2 DEF Carried
<1>2. ASSUME NEW c, NEW n, CreateName(r, c, n)
      PROVE  Alone(r) /\ Carried(req[r], req'[r])
  <2>1. Alone(r) /\ req'[r].pc = "find_name" /\ req'[r].next = "answer"
    BY <1>2, CreateNameSo
  <2> QED
    BY <2>1 DEF Carried, Noticing, HasCopy, PushPcs, AlertPcs, LooksUp, SpendPcs, Generating, Slept
<1>3. CASE NamesArrive(r)
  <2>1. ASSUME NEW n, BeginCreateAccount(r, n) PROVE \E l : Begin(r, l) /\ l.pc = "insert_account"
    BY <2>1 DEF BeginCreateAccount
  <2>2. ASSUME NEW i, NEW n, BeginRenameAccount(r, i, n) PROVE \E l : Begin(r, l) /\ l.pc = "rename_account"
    BY <2>2 DEF BeginRenameAccount
  <2>3. ASSUME NEW i, BeginDeleteAccount(r, i) PROVE \E l : Begin(r, l) /\ l.pc = "delete_account"
    BY <2>3 DEF BeginDeleteAccount
  <2> QED
    BY <1>1, <1>2, <1>3, <2>1, <2>2, <2>3 DEF NamesArrive
<1>4. CASE InsertAccount(r) \/ RenameAccount(r) \/ DeleteAccount(r) \/ Answer(r)
  <2>1. Done(r)
    BY <1>4 DEF InsertAccount, RenameAccount, DeleteAccount, Answer
  <2> QED
    BY <2>1, Steps, IdleUnnoticed DEF Carried
<1>5. CASE FindName(r) \/ InsertName(r)
  <2>1. Alone(r) /\ req[r].pc \in LooksUp /\ Ready(req[r]) /\ LocalTyped(req[r], DOMAIN items)
    BY <1>5, LooksSo DEF LocalsReady, TenantInv
  <2>2. CASE req'[r] = Idle
    BY <2>1, <2>2, IdleUnnoticed DEF Carried
  <2>3. CASE req'[r] # Idle
    <3>1. /\ {"pc", "todo", "next"} \subseteq DOMAIN req[r]
          /\ req[r].next \in {"answer", "insert_item", "find_expense"}
          /\ req[r].next = "find_expense" => "after" \in DOMAIN req[r]
      BY <2>1 DEF Ready, NamesReady, Spends, LocalTyped, LooksUp
    <3>2. /\ DOMAIN req'[r] = DOMAIN req[r] /\ req'[r].pc \in {req[r].next, "find_name", "insert_name"}
          /\ \A f \in DOMAIN req[r] \ {"pc", "todo"} : req'[r][f] = req[r][f]
      BY <1>5, <2>3, LooksSo
    <3>3. req'[r].next = req[r].next /\ ("after" \in DOMAIN req[r] => req'[r].after = req[r].after)
      BY <3>1, <3>2
    <3>4. CASE HasCopy(req'[r])
      <4>1. HasCopy(req[r])
        BY <2>1, <3>1, <3>2, <3>3, <3>4 DEF HasCopy, PushPcs, AlertPcs, LooksUp, SpendPcs, Generating, Slept
      <4>2. "user" \in DOMAIN req'[r] /\ req'[r].user = req[r].user
        BY <3>2, <4>1 DEF LocalNotice
      <4>3. LocalNotice(req'[r])
        BY <3>1, <3>2, <4>2 DEF LocalNotice, AlertPcs, Generating, Slept
      <4> QED
        BY <2>1, <3>1, <3>2, <3>4, <4>1, <4>2, <4>3 DEF Carried
    <3>5. CASE ~HasCopy(req'[r])
      BY <2>1, <3>1, <3>2, <3>5 DEF Carried, Noticing
    <3> QED
      BY <3>4, <3>5
  <2> QED
    BY <2>2, <2>3
<1> QED
  BY <1>3, <1>4, <1>5 DEF NamesStep

LEMMA InventoryCarries ==
    ASSUME LocalsReady, TenantInv, NEW r \in Reqs, LocalNotice(req[r]), InventoryArrive(r) \/ InventoryStep(r)
    PROVE  Alone(r) /\ Carried(req[r], req'[r])
<1>1. ASSUME NEW p, Goto(r, p), HasCopy(req[r]),
             p \in {"insert_expense", "update_expense"} \cup PushPcs,
             p \in SpendPcs => req[r].after = "push_item" /\ "after" \in DOMAIN req[r]
      PROVE  Alone(r) /\ Carried(req[r], req'[r])
  <2>1. GoesOn(r, p) /\ Alone(r)
    BY <1>1, GoesOnSo
  <2> QED
    BY <1>1, <2>1, GoesCarried
<1>2. CASE Done(r)
  BY <1>2, GoesOnSo, IdleUnnoticed DEF Carried
<1>3. ASSUME Alone(r), ~Noticing(req'[r])
      PROVE  Alone(r) /\ Carried(req[r], req'[r])
  BY <1>3 DEF Carried
<1>4. CASE InventoryArrive(r)
  <2>1. ASSUME NEW form, BeginCreateItem(r, form)
        PROVE  Alone(r) /\ Carried(req[r], req'[r])
    <3>1. /\ Alone(r) /\ DOMAIN req'[r] = {"pc", "todo", "next", "form", "user"}
          /\ req'[r].pc = "find_name" /\ req'[r].next = "insert_item" /\ req'[r].user = user
      BY <2>1, CreateItemSo
    <3>2. HasCopy(req'[r]) /\ LocalNotice(req'[r])
      BY <3>1 DEF HasCopy, LooksUp, LocalNotice, Generating, Slept, AlertPcs
    <3> QED
      BY <3>1, <3>2 DEF Carried
  <2>2. ASSUME NEW i, NEW a, NEW m, BeginUpdateStock(r, i, a, m)
        PROVE  Alone(r) /\ Carried(req[r], req'[r])
    <3>1. /\ Alone(r) /\ DOMAIN req'[r] = {"pc", "id", "user", "payload", "updates"}
          /\ req'[r].pc = "write_stock" /\ req'[r].user = user
      BY <2>2, UpdateStockSo
    <3>2. HasCopy(req'[r]) /\ LocalNotice(req'[r])
      BY <3>1 DEF HasCopy, LocalNotice, Generating, Slept, AlertPcs
    <3> QED
      BY <3>1, <3>2 DEF Carried
  <2>3. ASSUME NEW i, NEW edit, BeginUpdateItem(r, i, edit)
        PROVE  Alone(r) /\ Carried(req[r], req'[r])
    <3>1. Alone(r) /\ req'[r].pc = "write_item"
      BY <2>3, UpdateItemSo
    <3>2. ~Noticing(req'[r])
      BY <3>1 DEF Noticing, HasCopy, PushPcs, AlertPcs, LooksUp, SpendPcs, Generating, Slept
    <3> QED
      BY <1>3, <3>1, <3>2
  <2>4. ASSUME NEW i, BeginDeleteItem(r, i)
        PROVE  Alone(r) /\ Carried(req[r], req'[r])
    <3>1. Alone(r) /\ req'[r].pc = "delete_expense"
      BY <2>4, BeginDeleteSo
    <3>2. ~Noticing(req'[r])
      BY <3>1 DEF Noticing, HasCopy, PushPcs, AlertPcs, LooksUp, SpendPcs, Generating, Slept
    <3> QED
      BY <1>3, <3>1, <3>2
  <2> QED
    BY <1>4, <2>1, <2>2, <2>3, <2>4 DEF InventoryArrive
<1>5. CASE InsertItem(r)
  <2>1. /\ Alone(r) /\ req[r].pc = "insert_item"
        /\ DOMAIN req'[r] = {"pc", "id", "amount", "after", "status", "user"}
        /\ req'[r].pc = "find_expense" /\ req'[r].after = "push_item" /\ req'[r].user = req[r].user
    BY <1>5, InsertItemSo
  <2>2. HasCopy(req[r]) /\ HasCopy(req'[r]) /\ LocalNotice(req'[r])
    BY <2>1 DEF HasCopy, SpendPcs, LooksUp, LocalNotice, Generating, Slept, AlertPcs
  <2> QED
    BY <2>1, <2>2 DEF Carried
<1>6. CASE FindExpense(r) \/ InsertExpense(r) \/ UpdateExpense(r)
  <2>1. /\ req[r].pc \in {"find_expense", "insert_expense", "update_expense"}
        /\ "after" \in DOMAIN req[r] /\ req[r].after \in {"answer", "push_item"}
    BY <1>6 DEF FindExpense, InsertExpense, UpdateExpense, At, LocalsReady, Ready, NamesReady, Spends
  <2>2. Done(r) \/ \E p : Goto(r, p) /\ p \in {"insert_expense", "update_expense", req[r].after}
    BY <1>6 DEF FindExpense, InsertExpense, UpdateExpense, Raised
  <2>3. ASSUME NEW p, Goto(r, p), p \in {"insert_expense", "update_expense", req[r].after}
        PROVE  Alone(r) /\ Carried(req[r], req'[r])
    <3>1. CASE req[r].after = "push_item"
      <4>1. HasCopy(req[r])
        BY <2>1, <3>1 DEF HasCopy, SpendPcs, LooksUp
      <4>2. p \in {"insert_expense", "update_expense"} \cup PushPcs
        BY <2>3, <3>1 DEF PushPcs
      <4> QED
        BY <1>1, <2>1, <2>3, <3>1, <4>1, <4>2
    <3>2. CASE req[r].after = "answer"
      <4>1. GoesOn(r, p) /\ Alone(r)
        BY <2>3, GoesOnSo
      <4>2. req'[r].pc = p /\ req'[r].after = "answer"
        BY <2>1, <3>2, <4>1 DEF GoesOn
      <4>3. ~Noticing(req'[r])
        BY <2>3, <3>2, <4>2 DEF Noticing, HasCopy, PushPcs, AlertPcs, LooksUp, SpendPcs, Generating, Slept
      <4> QED
        BY <1>3, <4>1, <4>3
    <3> QED
      BY <2>1, <3>1, <3>2
  <2> QED
    BY <1>2, <2>2, <2>3
<1>7. CASE WriteStock(r)
  <2>1. req[r].pc = "write_stock" /\ (Done(r) \/ Goto(r, "push_low_stock"))
    BY <1>7 DEF WriteStock, Raised, At
  <2>2. HasCopy(req[r])
    BY <2>1 DEF HasCopy
  <2> QED
    BY <1>1, <1>2, <2>1, <2>2 DEF PushPcs, SpendPcs, LooksUp
<1>8. CASE WriteItem(r)
  <2>1. CASE items[req[r].id] = NULL
    BY <1>2, <1>8, <2>1 DEF WriteItem, Raised
  <2>2. CASE items[req[r].id] # NULL
    <3>1. Alone(r) /\ req'[r].pc = "find_name" /\ req'[r].next = "find_expense" /\ req'[r].after = "answer"
      BY <1>8, <2>2, WriteItemSo
    <3>2. ~Noticing(req'[r])
      BY <3>1 DEF Noticing, HasCopy, PushPcs, AlertPcs, LooksUp, SpendPcs, Generating, Slept
    <3> QED
      BY <1>3, <3>1, <3>2
  <2> QED
    BY <2>1, <2>2
<1>9. CASE DeleteExpense(r)
  <2>1. GoesOn(r, "delete_item") /\ Alone(r)
    BY <1>9, GoesOnSo DEF DeleteExpense
  <2>2. ~Noticing(req'[r])
    BY <2>1 DEF GoesOn, Noticing, HasCopy, PushPcs, AlertPcs, LooksUp, SpendPcs, Generating, Slept
  <2> QED
    BY <1>3, <2>1, <2>2
<1>10. CASE DeleteItem(r)
  BY <1>2, <1>10 DEF DeleteItem
<1> QED
  BY <1>4, <1>5, <1>6, <1>7, <1>8, <1>9, <1>10 DEF InventoryStep

(* The alerts, up to the one that is inserted.                             *)
LEMMA NextAlertSo ==
    ASSUME LocalsReady, NEW r \in Reqs, req[r].pc \in AlertPcs, LocalNotice(req[r]), NextAlert(r)
    PROVE  Alone(r) /\ Carried(req[r], req'[r]) /\ req'[r].pc \in {"idle", "find_alert"}
<1>1. /\ HasCopy(req[r]) /\ {"pc", "user", "alerts"} \subseteq DOMAIN req[r]
      /\ req[r].alerts \in Seq(Titles) \ {<<>>}
  BY Steps DEF HasCopy, LocalNotice, AlertPcs
<1>2. PICK rest : rest = Tail(req[r].alerts)
  OBVIOUS
<1>3. rest \in Seq(Titles)
  BY <1>1, <1>2
<1>4. CASE rest = <<>>
  <2>1. Done(r)
    BY <1>2, <1>4 DEF NextAlert, Keep, Done
  <2> QED
    BY <2>1, GoesOnSo, IdleUnnoticed DEF Carried, Idle
<1>5. CASE rest # <<>>
  <2>1. PICK l : l = [req[r] EXCEPT !.pc = "find_alert", !.alerts = rest]
    OBVIOUS
  <2>2. Keep(r, l)
    BY <1>2, <1>5, <2>1 DEF NextAlert
  <2>3. req'[r] = l /\ Alone(r)
    BY <2>2, Steps DEF Alone
  <2>4. /\ l.pc = "find_alert" /\ l.alerts = rest /\ l.user = req[r].user
        /\ {"pc", "user", "alerts"} \subseteq DOMAIN l
    BY <1>1, <2>1
  <2>5. HasCopy(l) /\ LocalNotice(l)
    BY <1>3, <1>5, <2>4 DEF HasCopy, AlertPcs, LocalNotice, Generating, Slept
  <2> QED
    BY <1>1, <2>3, <2>4, <2>5 DEF Carried
<1> QED
  BY <1>4, <1>5

LEMMA AlertsCarry ==
    ASSUME LocalsReady, NEW r \in Reqs, LocalNotice(req[r]), BeginAnalytics(r) \/ AskOther(r) \/ FindAlert(r)
    PROVE  Alone(r) /\ Carried(req[r], req'[r])
<1>1. CASE BeginAnalytics(r)
  <2>1. PICK l : l = [pc |-> "ask", key |-> Languages[1], next |-> "ask_other",
                      text |-> NULL, leader |-> NULL, alerts |-> <<>>, user |-> user]
    OBVIOUS
  <2>2. Begin(r, l)
    BY <1>1, <2>1 DEF BeginAnalytics
  <2>3. req'[r] = l /\ Alone(r)
    BY <2>2, Steps DEF Alone
  <2>4. HasCopy(l) /\ LocalNotice(l) /\ l.pc # "push_alert" /\ l.user = user
    BY <2>1 DEF HasCopy, LocalNotice, Generating, AlertNexts, AlertPcs
  <2> QED
    BY <2>3, <2>4 DEF Carried
<1>2. CASE AskOther(r)
  <2>1. req[r].pc = "ask_other" /\ HasCopy(req[r]) /\ Ready(req[r])
    BY <1>2 DEF AskOther, At, HasCopy, LocalsReady
  <2>2. /\ {"pc", "key", "next", "user", "alerts", "text"} \subseteq DOMAIN req[r] /\ req[r].text \in Texts
    BY <2>1 DEF LocalNotice, Ready, GenerationReady
  <2>3. PICK t : t = req[r].text
    OBVIOUS
  <2>4. PICK k : k = [req[r] EXCEPT !.alerts = t]
    OBVIOUS
  <2>5. PICK l : l = [k EXCEPT !.pc = "ask", !.key = Languages[2], !.next = "find_alert"]
    OBVIOUS
  <2>6. Keep(r, l)
    BY <1>2, <2>3, <2>4, <2>5 DEF AskOther, Asking
  <2>7. req'[r] = l /\ Alone(r)
    BY <2>6, Steps DEF Alone
  <2>8. DOMAIN k = DOMAIN req[r] /\ k.alerts = t /\ k.user = req[r].user
    BY <2>2, <2>4
  <2>9. /\ l.pc = "ask" /\ l.next = "find_alert" /\ l.alerts = t /\ l.user = req[r].user
        /\ {"pc", "next", "user", "alerts"} \subseteq DOMAIN l
    BY <2>2, <2>5, <2>8
  <2>10. HasCopy(l) /\ LocalNotice(l)
    BY <2>2, <2>3, <2>9 DEF HasCopy, LocalNotice, Generating, AlertNexts, AlertPcs
  <2> QED
    BY <2>1, <2>7, <2>9, <2>10 DEF Carried
<1>3. CASE FindAlert(r)
  <2>1. req[r].pc = "find_alert"
    BY <1>3 DEF FindAlert, At
  <2>2. CASE NextAlert(r)
    BY <2>1, <2>2, NextAlertSo DEF AlertPcs
  <2>3. CASE Goto(r, "insert_alert")
    <3>1. GoesOn(r, "insert_alert") /\ Alone(r)
      BY <2>3, GoesOnSo
    <3>2. /\ HasCopy(req[r]) /\ {"pc", "user", "alerts"} \subseteq DOMAIN req[r]
          /\ req[r].alerts \in Seq(Titles) \ {<<>>}
      BY <2>1, Steps DEF HasCopy, LocalNotice, AlertPcs
    <3>3. /\ req'[r].pc = "insert_alert" /\ req'[r].user = req[r].user /\ req'[r].alerts = req[r].alerts
          /\ {"pc", "user", "alerts"} \subseteq DOMAIN req'[r]
      BY <3>1, <3>2 DEF GoesOn
    <3>4. HasCopy(req'[r]) /\ LocalNotice(req'[r])
      BY <3>2, <3>3 DEF HasCopy, LocalNotice, Generating, Slept, AlertPcs
    <3> QED
      BY <3>1, <3>2, <3>3, <3>4 DEF Carried
  <2> QED
    BY <1>3, <2>2, <2>3 DEF FindAlert
<1> QED
  BY <1>1, <1>2, <1>3

-----------------------------------------------------------------------------
(* Every step of the desk leaves phones, settings, alerts and pushes       *)
(* alone, or is one of a handful.                                          *)
Aloof ==
    /\ UNCHANGED noticeVars
    /\ DOMAIN req' = Reqs
    /\ \A r \in Reqs : Carried(req[r], req'[r])
OnNotices(r) == DevicesArrive(r) \/ DevicesStep(r) \/ InsertAlert(r) \/ PushAlert(r) \/ InventoryPush(r)

LEMMA CarriedLocal ==
    ASSUME NEW l, NEW m, LocalNotice(l), Carried(l, m)
    PROVE  LocalNotice(m)
  BY UnnoticedLocal DEF Carried

LEMMA NoticeSteps ==
    ASSUME LocalsReady, LocalsReady', GenerationInv, TextInv, TenantInv, DeskNext,
           \A r \in Reqs : LocalNotice(req[r])
    PROVE  Aloof \/ \E r \in Reqs : OnNotices(r)
<1> USE DEF restaurantVars, officeVars
<1>0. DOMAIN req' = Reqs /\ IdsHeld
  BY TenantIds DEF LocalsReady
<1>1. ASSUME NEW r \in Reqs, Alone(r), Carried(req[r], req'[r]), UNCHANGED noticeVars
      PROVE  Aloof
  BY <1>0, <1>1 DEF Alone, Aloof, Carried
<1>2. ASSUME NEW r \in Reqs, ~Noticing(req'[r]), \A q \in Reqs \ {r} : req'[q] = req[q], UNCHANGED noticeVars
      PROVE  Aloof
  BY <1>1, <1>2 DEF Alone, Carried
<1>3. ASSUME NEW r \in Reqs, Afar(req[r]) \/ At(r, "idle"), StaysAfar(r), UNCHANGED noticeVars
      PROVE  Aloof
  BY <1>2, <1>3, OfficeUnnoticed
<1>4. ASSUME NEW r \in Reqs, Arrive(r)
      PROVE  Aloof \/ OnNotices(r)
  <2>1. CASE ArriveAtOffice(r) /\ UNCHANGED restaurantVars
    BY <1>0, <1>3, <2>1, PlansAfar, CouponsAfar, SettingsAfar, TicketsAfar DEF ArriveAtOffice
  <2>2. CASE NamesArrive(r) /\ UNCHANGED noticeVars
    BY <1>1, <2>2, NamesCarry
  <2>3. CASE InventoryArrive(r) /\ UNCHANGED noticeVars
    BY <1>1, <2>3, InventoryCarries
  <2>4. CASE BeginAnalytics(r)
    BY <1>1, <2>4, AlertsCarry DEF BeginAnalytics
  <2>5. CASE (ChatArrive(r) \/ BeginInsight(r)) /\ UNCHANGED noticeVars
    BY <1>2, <2>5, TalkUnnoticed
  <2> QED
    BY <1>4, <2>1, <2>2, <2>3, <2>4, <2>5 DEF Arrive, ArriveAtRestaurant, OnNotices
<1>5. ASSUME NEW r \in Reqs, Step(r)
      PROVE  Aloof \/ OnNotices(r)
  <2>1. CASE OfficeStep(r) /\ UNCHANGED restaurantVars
    BY <1>0, <1>3, <2>1, PlansAfar, CouponsAfar, SettingsAfar, TicketsAfar DEF OfficeStep
  <2>2. CASE NamesStep(r) /\ UNCHANGED noticeVars
    BY <1>1, <2>2, NamesCarry
  <2>3. CASE InventoryStep(r) /\ UNCHANGED noticeVars
    BY <1>1, <2>3, InventoryCarries
  <2>4. CASE AskOther(r) \/ FindAlert(r)
    BY <1>1, <2>4, AlertsCarry DEF AskOther, FindAlert
  <2>5. CASE (ChatStep(r) \/ InsightStep(r)) /\ UNCHANGED noticeVars
    BY <1>2, <2>5, TalkUnnoticed
  <2>6. CASE (Ask(r) \/ Wake(r)) /\ UNCHANGED noticeVars
    <3>1. req[r].pc \in Generating /\ Ready(req[r])
      BY <2>6, AskLocals DEF LocalsReady
    <3>2. req[r].key \in Keys
      BY <3>1 DEF Ready, GenerationReady
    <3>3. \/ Keep(r, Idle)
          \/ \E text \in Texts : Keep(r, Got(req[r], text))
          \/ \E l : Keep(r, Awaiting(req[r], l))
      <4>1. CASE Wake(r)
        <5>1. req[r].text \in Texts \cup {NULL}
          BY <4>1 DEF Wake, TextInv
        <5> QED
          BY <4>1, <5>1 DEF Wake
      <4>2. CASE Ask(r)
        <5>1. cache[req[r].key] \in Texts \cup {NULL}
          BY <3>2 DEF TextInv
        <5>2. inflight[req[r].key] # NULL => inflight[req[r].key].text \in Texts \cup {NULL}
          <6>1. inflight[req[r].key] \in Tasks \cup {NULL}
            BY <3>2 DEF GenerationInv
          <6> QED
            BY <6>1 DEF Tasks
        <5> QED
          BY <4>2, <5>1, <5>2 DEF Ask, Lead, Raised, Done, Keep
      <4> QED
        BY <2>6, <4>1, <4>2
    <3>4. ASSUME NEW l, Keep(r, l), Carried(req[r], l) PROVE Aloof
      <4>1. req'[r] = l /\ Alone(r)
        BY <3>4, Steps DEF Alone
      <4> QED
        BY <1>1, <2>6, <3>4, <4>1
    <3>5. CASE Keep(r, Idle)
      BY <3>4, <3>5, IdleUnnoticed DEF Carried
    <3>6. ASSUME NEW text \in Texts, Keep(r, Got(req[r], text)) PROVE Aloof
      <4>1. PICK l : l = Got(req[r], text)
        OBVIOUS
      <4>2. Carried(req[r], l)
        BY <3>1, <4>1, GenerationCarries
      <4> QED
        BY <3>4, <3>6, <4>1, <4>2
    <3>7. ASSUME NEW w, Keep(r, Awaiting(req[r], w)) PROVE Aloof
      <4>1. PICK l : l = Awaiting(req[r], w)
        OBVIOUS
      <4>2. Carried(req[r], l)
        BY <3>1, <4>1, GenerationCarries
      <4> QED
        BY <3>4, <3>7, <4>1, <4>2
    <3> QED
      BY <3>3, <3>5, <3>6, <3>7
  <2> QED
    BY <1>5, <2>1, <2>2, <2>3, <2>4, <2>5, <2>6 DEF Step, RestaurantStep, AlertsStep, OnNotices
<1>6. ASSUME NEW r \in Reqs, Stop(r)
      PROVE  Aloof
  BY <1>2, <1>6, Steps, IdleUnnoticed DEF Stop, Raised
<1>7. ASSUME NEW k, NEW text, Ends(k, text), UNCHANGED noticeVars
      PROVE  Aloof
  <2>1. ASSUME NEW q \in Reqs PROVE Carried(req[q], req'[q])
    <3>1. CASE q \in Awaiters(k)
      <4>1. req[q].pc \in Generating /\ Ready(req[q])
        BY <3>1 DEF Awaiters, At, Generating, Slept, LocalsReady
      <4>2. PICK m : m = [req[q] EXCEPT !.pc = "wake", !.text = text]
        OBVIOUS
      <4>3. req'[q] = m
        BY <1>7, <3>1, <4>2 DEF Ends
      <4> QED
        BY <4>1, <4>2, <4>3, GenerationCarries
    <3>2. CASE q \notin Awaiters(k)
      BY <1>7, <3>2 DEF Ends, Carried
    <3> QED
      BY <3>1, <3>2
  <2> QED
    BY <1>0, <1>7, <2>1 DEF Aloof
<1>8. ASSUME NEW k \in Keys, ModelAnswers(k)
      PROVE  Aloof
  BY <1>7, <1>8 DEF ModelAnswers, Generate, deskButGenerations
<1>9. CASE GenerationLost
  <2>1. ASSUME NEW r \in Reqs, CancelAwait(r) PROVE Aloof
    BY <1>7, <1>9, <2>1 DEF CancelAwait, GenerationLost, deskButGenerations
  <2>2. ASSUME NEW k, Expire(k) PROVE Aloof
    BY <1>0, <1>9, <2>2 DEF Expire, GenerationLost, deskButGenerations, Aloof, Carried
  <2> QED
    BY <1>9, <2>1, <2>2 DEF GenerationLost
<1> QED
  BY <1>4, <1>5, <1>6, <1>8, <1>9 DEF DeskNext

-----------------------------------------------------------------------------
(* The user's record: one request that writes phones, or settings, writes  *)
(* what was asked of the record there is.                                  *)
OfUser(field) == <<"user", field>>
Change(l, list) == IF l.on THEN Registered(list, l.device) ELSE Unregistered(list, l.device)
Lone(pc, field) == \A q, r \in Reqs : At(q, pc) /\ At(r, pc) /\ OfUser(field) \notin mixed => q = r
LocalNotices == \A r \in Reqs : LocalNotice(req[r])
UserInv ==
    /\ user \in [push_devices : Seq(Phones), notification_settings : Settings]
    /\ Distinct(user.push_devices)
    /\ DOMAIN asked = DOMAIN user
    /\ Lone("write_devices", "push_devices") /\ Lone("write_settings", "notification_settings")
    /\ OfUser("push_devices") \notin mixed =>
          /\ asked.push_devices = user.push_devices
          /\ \A r \in Reqs : At(r, "write_devices") => req[r].list = Change(req[r], user.push_devices)
    /\ OfUser("notification_settings") \notin mixed =>
          /\ asked.notification_settings = user.notification_settings
          /\ \A r \in Reqs : At(r, "write_settings") =>
                req[r].user.notification_settings = [user.notification_settings EXCEPT ![req[r].field] = req[r].on]

LEMMA WritersSeen ==
    ASSUME LocalsReady', IdsHeld', mixed' = mixed \cup SharedWork'
    PROVE  Lone("write_devices", "push_devices")' /\ Lone("write_settings", "notification_settings")'
<1>1. OfUser("push_devices") # NULL /\ OfUser("notification_settings") # NULL
  <2>1. \A f \in {"push_devices", "notification_settings"} : OfUser(f) \in {"user"} \X {"push_devices", "notification_settings"}
    BY DEF OfUser
  <2> QED
    BY <2>1, NothingAssumption
<1>2. ASSUME NEW r \in Reqs, req'[r].pc \in {"write_devices", "write_settings"}
      PROVE  Working(r)' = OfUser(IF req'[r].pc = "write_devices" THEN "push_devices" ELSE "notification_settings")
  <2>1. "id" \notin DOMAIN req'[r] /\ "newest" \notin DOMAIN req'[r]
    BY <1>2 DEF IdsHeld, ItemPcs, SpendPcs, LooksUp, PushPcs, EditPcs, LocalsReady, Ready, GenerationReady,
       Generating, Slept, InsightNexts
  <2> QED
    BY <1>2, <2>1 DEF Working, OfUser
<1>3. ASSUME NEW q \in Reqs, NEW r \in Reqs, req'[q].pc = "write_devices", req'[r].pc = "write_devices",
             OfUser("push_devices") \notin mixed'
      PROVE  q = r
  BY <1>1, <1>2, <1>3, WorkShared
<1>4. ASSUME NEW q \in Reqs, NEW r \in Reqs, req'[q].pc = "write_settings", req'[r].pc = "write_settings",
             OfUser("notification_settings") \notin mixed'
      PROVE  q = r
  BY <1>1, <1>2, <1>4, WorkShared
<1> QED
  BY <1>3, <1>4 DEF Lone, At, OfUser

LEMMA ArrivesSo ==
    ASSUME LocalsReady, UserInv, NEW r \in Reqs, DevicesArrive(r)
    PROVE  /\ Alone(r) /\ req[r].pc = "idle" /\ UNCHANGED noticeVars /\ req'[r].on \in BOOLEAN
           /\ \/ /\ req'[r].pc = "write_devices" /\ DOMAIN req'[r] = {"pc", "on", "device", "list"}
                 /\ req'[r].on => req'[r].device \in Phones
                 /\ req'[r].list = Change(req'[r], user.push_devices)
              \/ /\ req'[r].pc = "write_settings" /\ DOMAIN req'[r] = {"pc", "field", "on", "user"}
                 /\ req'[r].field \in {"push_notifications", "low_stock_alerts"}
                 /\ req'[r].user.notification_settings =
                       [user.notification_settings EXCEPT ![req'[r].field] = req'[r].on]
<1>1. ASSUME NEW l, Begin(r, l)
      PROVE  Alone(r) /\ req[r].pc = "idle" /\ req'[r] = l
  BY <1>1, Steps DEF Alone
<1>2. ASSUME NEW d \in Phones, BeginRegister(r, d)
      PROVE  /\ Alone(r) /\ req[r].pc = "idle" /\ UNCHANGED noticeVars
             /\ req'[r].pc = "write_devices" /\ DOMAIN req'[r] = {"pc", "on", "device", "list"}
             /\ req'[r].on = TRUE /\ req'[r].device = d /\ req'[r].list = Registered(user.push_devices, d)
  <2>1. PICK s : s = Registered(user.push_devices, d)
    OBVIOUS
  <2>2. PICK l : l = [pc |-> "write_devices", on |-> TRUE, device |-> d, list |-> s]
    OBVIOUS
  <2>3. Begin(r, l) /\ UNCHANGED noticeVars
    BY <1>2, <2>1, <2>2 DEF BeginRegister
  <2> QED
    BY <1>1, <2>1, <2>2, <2>3
<1>3. ASSUME NEW id, BeginUnregister(r, id)
      PROVE  /\ Alone(r) /\ req[r].pc = "idle" /\ UNCHANGED noticeVars
             /\ req'[r].pc = "write_devices" /\ DOMAIN req'[r] = {"pc", "on", "device", "list"}
             /\ req'[r].on = FALSE /\ req'[r].device = id /\ req'[r].list = Unregistered(user.push_devices, id)
  <2>1. PICK s : s = Unregistered(user.push_devices, id)
    OBVIOUS
  <2>2. PICK l : l = [pc |-> "write_devices", on |-> FALSE, device |-> id, list |-> s]
    OBVIOUS
  <2>3. Begin(r, l) /\ UNCHANGED noticeVars
    BY <1>3, <2>1, <2>2 DEF BeginUnregister
  <2> QED
    BY <1>1, <2>1, <2>2, <2>3
<1>4. ASSUME NEW field \in DOMAIN user.notification_settings, NEW on \in BOOLEAN, BeginSettings(r, field, on)
      PROVE  /\ Alone(r) /\ req[r].pc = "idle" /\ UNCHANGED noticeVars /\ req'[r].on \in BOOLEAN
             /\ req'[r].pc = "write_settings" /\ DOMAIN req'[r] = {"pc", "field", "on", "user"}
             /\ req'[r].field \in {"push_notifications", "low_stock_alerts"}
             /\ req'[r].user.notification_settings =
                   [user.notification_settings EXCEPT ![req'[r].field] = req'[r].on]
  <2>1. PICK u : u = [user EXCEPT !.notification_settings[field] = on]
    OBVIOUS
  <2>2. PICK l : l = [pc |-> "write_settings", field |-> field, on |-> on, user |-> u]
    OBVIOUS
  <2>3. Begin(r, l) /\ UNCHANGED noticeVars
    BY <1>4, <2>1, <2>2 DEF BeginSettings
  <2>4. "notification_settings" \in DOMAIN user /\ user.notification_settings \in Settings
    BY DEF UserInv
  <2>5. u.notification_settings = [user.notification_settings EXCEPT ![field] = on]
    BY <2>1, <2>4
  <2>6. field \in {"push_notifications", "low_stock_alerts"}
    BY <2>4 DEF Settings
  <2> QED
    BY <1>1, <2>2, <2>3, <2>5, <2>6
<1>5. ASSUME NEW d \in Phones, BeginRegister(r, d) PROVE req'[r].list = Change(req'[r], user.push_devices)
  BY <1>2, <1>5 DEF Change
<1>6. ASSUME NEW id, BeginUnregister(r, id) PROVE req'[r].list = Change(req'[r], user.push_devices)
  BY <1>3, <1>6 DEF Change
<1> QED
  BY <1>2, <1>3, <1>4, <1>5, <1>6 DEF DevicesArrive

(* What is written is what was asked for.                                  *)
LEMMA WritesSo ==
    ASSUME LocalsReady, NEW r \in Reqs, DevicesStep(r)
    PROVE  /\ Alone(r) /\ req'[r] = Idle /\ UNCHANGED <<notifications, posted>>
           /\ \/ At(r, "write_devices") /\ user' = [user EXCEPT !.push_devices = req[r].list]
              \/ At(r, "write_settings")
                   /\ user' = [user EXCEPT !.notification_settings = req[r].user.notification_settings]
<1>1. Done(r)
  BY DEF DevicesStep, WriteDevices, WriteSettings
<1> QED
  BY <1>1, GoesOnSo DEF DevicesStep, WriteDevices, WriteSettings

LEMMA AskedSo ==
    ASSUME LocalsReady, AskedNext, NEW r \in Reqs, DevicesStep(r)
    PROVE  asked' = IF user' = user THEN asked
                    ELSE IF At(r, "write_settings")
                    THEN [asked EXCEPT !.notification_settings[req[r].field] = req[r].on]
                    ELSE [asked EXCEPT !.push_devices = Change(req[r], asked.push_devices)]
<1>1. PICK by : by = {q \in Reqs : req[q].pc \in {"write_devices", "write_settings"} /\ req'[q] # req[q]}
  OBVIOUS
<1>2. /\ Alone(r) /\ req'[r] = Idle /\ req[r].pc \in {"write_devices", "write_settings"}
  BY WritesSo DEF At
<1>3. by = {r}
  BY <1>1, <1>2 DEF Alone, Idle
<1>4. asked' = LET w == CHOOSE q \in by : TRUE IN
               IF by = {} \/ user' = user THEN asked
               ELSE IF At(w, "write_settings")
               THEN [asked EXCEPT !.notification_settings[req[w].field] = req[w].on]
               ELSE [asked EXCEPT !.push_devices = IF req[w].on THEN Registered(asked.push_devices, req[w].device)
                                                   ELSE Unregistered(asked.push_devices, req[w].device)]
  BY <1>1 DEF AskedNext
<1>5. (CHOOSE q \in by : TRUE) = r
  BY <1>3
<1> QED
  BY <1>3, <1>4, <1>5 DEF Change

LEMMA AskedStays ==
    ASSUME AskedNext, user' = user
    PROVE  asked' = asked
  BY DEF AskedNext

(* What a push leaves with its request.                                    *)
LEMMA PushSteps ==
    ASSUME LocalsReady, NEW r \in Reqs, LocalNotice(req[r]), InsertAlert(r) \/ PushAlert(r) \/ InventoryPush(r)
    PROVE  /\ Alone(r) /\ UNCHANGED user /\ HasCopy(req[r]) /\ req'[r].pc # req[r].pc
           /\ req'[r].pc = "push_alert" \/ Carried(req[r], req'[r])
           /\ LocalNotice(req'[r]) /\ (HasCopy(req'[r]) => req'[r].user = req[r].user)
           /\ req'[r].pc \notin {"write_devices", "write_settings"}
<1>1. CASE Done(r) /\ UNCHANGED user /\ req[r].pc \in {"insert_alert"} \cup PushPcs
  BY <1>1, GoesOnSo, IdleUnnoticed, UnnoticedLocal DEF Carried, Idle, HasCopy, AlertPcs, PushPcs, Noticing
<1>2. CASE InsertAlert(r) /\ ~Done(r)
  <2>1. Goto(r, "push_alert") /\ req[r].pc = "insert_alert" /\ UNCHANGED user
    BY <1>2 DEF InsertAlert, Raised, At
  <2>2. GoesOn(r, "push_alert") /\ Alone(r)
    BY <2>1, GoesOnSo
  <2>3. /\ HasCopy(req[r]) /\ {"pc", "user", "alerts"} \subseteq DOMAIN req[r]
        /\ req[r].alerts \in Seq(Titles) \ {<<>>}
    BY <2>1, Steps DEF HasCopy, LocalNotice, AlertPcs
  <2>4. /\ req'[r].pc = "push_alert" /\ req'[r].user = req[r].user /\ req'[r].alerts = req[r].alerts
        /\ {"pc", "user", "alerts"} \subseteq DOMAIN req'[r]
    BY <2>2, <2>3 DEF GoesOn
  <2>5. LocalNotice(req'[r])
    BY <2>3, <2>4 DEF LocalNotice, Generating, Slept, AlertPcs
  <2> QED
    BY <2>1, <2>2, <2>3, <2>4, <2>5
<1>3. CASE PushAlert(r)
  <2>1. req[r].pc = "push_alert" /\ NextAlert(r) /\ UNCHANGED user
    BY <1>3 DEF PushAlert, At
  <2>2. Alone(r) /\ Carried(req[r], req'[r]) /\ req'[r].pc \in {"idle", "find_alert"} /\ HasCopy(req[r])
    BY <2>1, NextAlertSo DEF AlertPcs, HasCopy
  <2>3. LocalNotice(req'[r])
    BY <2>2, CarriedLocal
  <2>4. HasCopy(req'[r]) => req'[r].user = req[r].user
    <3>1. PICK rest : rest = Tail(req[r].alerts)
      OBVIOUS
    <3>2. PICK l : l = [req[r] EXCEPT !.pc = "find_alert", !.alerts = rest]
      OBVIOUS
    <3>3. Keep(r, Idle) \/ Keep(r, l)
      BY <2>1, <3>1, <3>2 DEF NextAlert
    <3>4. req'[r] = Idle \/ req'[r] = l
      BY <3>3, Steps
    <3>5. l.user = req[r].user
      BY <2>2, <3>2 DEF LocalNotice
    <3> QED
      BY <3>4, <3>5, IdleUnnoticed DEF Noticing
  <2> QED
    BY <2>1, <2>2, <2>3, <2>4
<1>4. CASE PushItem(r) /\ ~Done(r)
  <2>1. Goto(r, "push_low_stock") /\ req[r].pc = "push_item" /\ UNCHANGED user
    BY <1>4 DEF PushItem, At
  <2>2. GoesOn(r, "push_low_stock") /\ Alone(r)
    BY <2>1, GoesOnSo
  <2>3. HasCopy(req[r])
    BY <2>1 DEF HasCopy, PushPcs
  <2>4. Carried(req[r], req'[r])
    BY <2>2, <2>3, GoesCarried DEF PushPcs, SpendPcs, LooksUp
  <2>5. "user" \in DOMAIN req[r] /\ req'[r].user = req[r].user /\ req'[r].pc = "push_low_stock"
    BY <2>2, <2>3 DEF LocalNotice, GoesOn
  <2> QED
    BY <2>1, <2>2, <2>3, <2>4, <2>5, CarriedLocal
<1> QED
  BY <1>1, <1>2, <1>3, <1>4 DEF InsertAlert, InventoryPush, PushItem, PushLowStock, Raised, At, PushPcs

LEMMA NoticesKept ==
    ASSUME LocalsReady, LocalNotices, UserInv, Aloof \/ \E r \in Reqs : OnNotices(r)
    PROVE  LocalNotices'
<1>1. CASE Aloof
  BY <1>1, CarriedLocal DEF LocalNotices, Aloof
<1>2. ASSUME NEW r \in Reqs, Alone(r), LocalNotice(req'[r])
      PROVE  LocalNotices'
  BY <1>2 DEF LocalNotices, Alone
<1>3. ASSUME NEW r \in Reqs, DevicesArrive(r)
      PROVE  LocalNotices'
  <2>1. /\ Alone(r) /\ req'[r].on \in BOOLEAN
        /\ \/ /\ req'[r].pc = "write_devices" /\ DOMAIN req'[r] = {"pc", "on", "device", "list"}
              /\ req'[r].on => req'[r].device \in Phones
              /\ req'[r].list = Change(req'[r], user.push_devices)
           \/ /\ req'[r].pc = "write_settings"
              /\ req'[r].field \in {"push_notifications", "low_stock_alerts"}
              /\ req'[r].user.notification_settings =
                    [user.notification_settings EXCEPT ![req'[r].field] = req'[r].on]
    BY <1>3, ArrivesSo
  <2>2. user.push_devices \in Seq(Phones) /\ Distinct(user.push_devices) /\ user.notification_settings \in Settings
    BY DEF UserInv
  <2>3. ~HasCopy(req'[r])
    BY <2>1 DEF HasCopy, PushPcs, AlertPcs, LooksUp, SpendPcs, Generating, Slept
  <2>4. CASE req'[r].pc = "write_devices"
    <3>1. Change(req'[r], user.push_devices) \in Seq(Phones) /\ Distinct(Change(req'[r], user.push_devices))
      BY <2>1, <2>2, <2>4, RegisteredSo DEF Change
    <3>2. LocalNotice(req'[r])
      BY <2>1, <2>3, <2>4, <3>1 DEF LocalNotice, Generating, Slept, AlertPcs
    <3> QED
      BY <1>2, <2>1, <3>2
  <2>5. CASE req'[r].pc = "write_settings"
    <3>1. [user.notification_settings EXCEPT ![req'[r].field] = req'[r].on] \in Settings
      BY <2>1, <2>2, <2>5 DEF Settings
    <3>2. LocalNotice(req'[r])
      BY <2>1, <2>3, <2>5, <3>1 DEF LocalNotice, Generating, Slept, AlertPcs
    <3> QED
      BY <1>2, <2>1, <3>2
  <2> QED
    BY <2>1, <2>4, <2>5
<1>4. ASSUME NEW r \in Reqs, DevicesStep(r)
      PROVE  LocalNotices'
  BY <1>2, <1>4, WritesSo, IdleUnnoticed, UnnoticedLocal
<1> QED
  BY <1>1, <1>2, <1>3, <1>4, PushSteps DEF OnNotices, LocalNotices

LEMMA UserKept ==
    ASSUME LocalsReady, LocalsReady', IdsHeld', LocalNotices, UserInv, AskedNext, mixed' = mixed \cup SharedWork',
           Aloof \/ \E r \in Reqs : OnNotices(r)
    PROVE  UserInv'
<1>0. Lone("write_devices", "push_devices")' /\ Lone("write_settings", "notification_settings")'
  BY WritersSeen
<1>1. ASSUME UNCHANGED user,
             \A r \in Reqs : req'[r].pc \in {"write_devices", "write_settings"} => req'[r] = req[r]
      PROVE  UserInv'
  <2>1. asked' = asked
    BY <1>1, AskedStays
  <2> QED
    BY <1>0, <1>1, <2>1 DEF UserInv, At, OfUser
<1>2. CASE Aloof
  <2>1. ASSUME NEW r \in Reqs, req'[r].pc \in {"write_devices", "write_settings"}
        PROVE  req'[r] = req[r]
    <3>1. Noticing(req'[r]) /\ ~HasCopy(req'[r])
      BY <2>1 DEF Noticing, HasCopy, PushPcs, AlertPcs, LooksUp, SpendPcs, Generating, Slept
    <3> QED
      BY <1>2, <2>1, <3>1 DEF Aloof, Carried
  <2>2. UNCHANGED user
    BY <1>2 DEF Aloof, noticeVars
  <2> QED
    BY <1>1, <2>1, <2>2
<1>3. ASSUME NEW r \in Reqs, InsertAlert(r) \/ PushAlert(r) \/ InventoryPush(r)
      PROVE  UserInv'
  BY <1>1, <1>3, PushSteps DEF LocalNotices, Alone
<1>4. ASSUME NEW r \in Reqs, DevicesArrive(r)
      PROVE  UserInv'
  <2>0. \A q \in Reqs \ {r} : req'[q] = req[q]
    BY <1>4, ArrivesSo DEF Alone
  <2>1. UNCHANGED user /\ asked' = asked
    BY <1>4, ArrivesSo, AskedStays DEF noticeVars
  <2>2. ASSUME NEW q \in Reqs, req'[q].pc = "write_devices", OfUser("push_devices") \notin mixed
        PROVE  req'[q].list = Change(req'[q], user.push_devices)
    <3>1. CASE q = r
      <4>1. req'[r].pc = "write_devices"
        BY <2>2, <3>1
      <4>2. req'[r].list = Change(req'[r], user.push_devices)
        BY <1>4, <4>1, ArrivesSo
      <4> QED
        BY <3>1, <4>2
    <3>2. CASE q # r
      BY <2>0, <2>2, <3>2 DEF UserInv, At
    <3> QED
      BY <3>1, <3>2
  <2>3. ASSUME NEW q \in Reqs, req'[q].pc = "write_settings", OfUser("notification_settings") \notin mixed
        PROVE  req'[q].user.notification_settings =
                  [user.notification_settings EXCEPT ![req'[q].field] = req'[q].on]
    <3>1. CASE q = r
      <4>1. req'[r].pc = "write_settings"
        BY <2>3, <3>1
      <4>2. req'[r].user.notification_settings =
                   [user.notification_settings EXCEPT ![req'[r].field] = req'[r].on]
        BY <1>4, <4>1, ArrivesSo
      <4> QED
        BY <3>1, <4>2
    <3>2. CASE q # r
      BY <2>0, <2>3, <3>2 DEF UserInv, At
    <3> QED
      BY <3>1, <3>2
  <2> QED
    BY <1>0, <2>1, <2>2, <2>3 DEF UserInv, At, OfUser
<1>5. ASSUME NEW r \in Reqs, DevicesStep(r)
      PROVE  UserInv'
  <2>1. /\ Alone(r) /\ req'[r] = Idle
        /\ DOMAIN user = {"push_devices", "notification_settings"}
        /\ user = [push_devices |-> user.push_devices, notification_settings |-> user.notification_settings]
        /\ user.push_devices \in Seq(Phones) /\ user.notification_settings \in Settings
    BY <1>5, WritesSo DEF UserInv
  <2>2. CASE At(r, "write_devices")
    <3>1. PICK list : list = req[r].list
      OBVIOUS
    <3>2. user' = [user EXCEPT !.push_devices = list] /\ list \in Seq(Phones) /\ Distinct(list)
      BY <1>5, <2>2, <3>1, WritesSo DEF At, LocalNotices, LocalNotice
    <3>3. /\ user'.push_devices = list /\ user'.notification_settings = user.notification_settings
          /\ user' \in [push_devices : Seq(Phones), notification_settings : Settings]
          /\ DOMAIN user' = DOMAIN user
      BY <2>1, <3>2
    <3>4. PICK new : new = Change(req[r], asked.push_devices)
      OBVIOUS
    <3>5. asked' = IF user' = user THEN asked ELSE [asked EXCEPT !.push_devices = new]
      BY <1>5, <2>2, <3>4, AskedSo DEF At
    <3>6. /\ DOMAIN asked' = DOMAIN asked /\ asked'.notification_settings = asked.notification_settings
          /\ user' # user => asked'.push_devices = new
      BY <2>1, <3>5 DEF UserInv
    <3>7. ASSUME OfUser("push_devices") \notin mixed'
          PROVE  /\ asked'.push_devices = user'.push_devices
                 /\ \A q \in Reqs : req'[q].pc # "write_devices"
      <4>1. OfUser("push_devices") \notin mixed
        BY <3>7
      <4>2. /\ asked.push_devices = user.push_devices /\ list = Change(req[r], user.push_devices)
            /\ \A q \in Reqs \ {r} : req[q].pc # "write_devices"
        BY <2>2, <3>1, <4>1 DEF UserInv, At, Lone
      <4>3. new = list
        BY <3>4, <4>2
      <4> QED
        BY <2>1, <3>3, <3>5, <3>6, <4>2, <4>3 DEF Alone, Idle
    <3>8. ASSUME OfUser("notification_settings") \notin mixed'
          PROVE  /\ asked'.notification_settings = user'.notification_settings
                 /\ \A q \in Reqs : req'[q].pc = "write_settings" =>
                       req'[q].user.notification_settings =
                          [user'.notification_settings EXCEPT ![req'[q].field] = req'[q].on]
      BY <2>1, <3>3, <3>6, <3>8 DEF UserInv, Alone, Idle, At
    <3> QED
      BY <1>0, <2>1, <3>2, <3>3, <3>6, <3>7, <3>8 DEF UserInv, At, OfUser
  <2>3. CASE At(r, "write_settings")
    <3>1. PICK given : given = req[r].user.notification_settings
      OBVIOUS
    <3>2. user' = [user EXCEPT !.notification_settings = given] /\ given \in Settings
      BY <1>5, <2>3, <3>1, WritesSo DEF At, LocalNotices, LocalNotice
    <3>3. /\ user'.notification_settings = given /\ user'.push_devices = user.push_devices
          /\ user' \in [push_devices : Seq(Phones), notification_settings : Settings]
          /\ DOMAIN user' = DOMAIN user
      BY <2>1, <3>2
    <3>4. PICK new : new = [asked.notification_settings EXCEPT ![req[r].field] = req[r].on]
      OBVIOUS
    <3>5. asked' = IF user' = user THEN asked ELSE [asked EXCEPT !.notification_settings = new]
      BY <1>5, <2>3, <3>4, AskedSo
    <3>6. /\ DOMAIN asked' = DOMAIN asked /\ asked'.push_devices = asked.push_devices
          /\ user' # user => asked'.notification_settings = new
      BY <2>1, <3>5 DEF UserInv
    <3>7. ASSUME OfUser("notification_settings") \notin mixed'
          PROVE  /\ asked'.notification_settings = user'.notification_settings
                 /\ \A q \in Reqs : req'[q].pc # "write_settings"
      <4>1. OfUser("notification_settings") \notin mixed
        BY <3>7
      <4>2. /\ asked.notification_settings = user.notification_settings
            /\ given = [user.notification_settings EXCEPT ![req[r].field] = req[r].on]
            /\ \A q \in Reqs \ {r} : req[q].pc # "write_settings"
        BY <2>3, <3>1, <4>1 DEF UserInv, At, Lone
      <4>3. new = given
        BY <3>4, <4>2
      <4> QED
        BY <2>1, <3>3, <3>5, <3>6, <4>2, <4>3 DEF Alone, Idle
    <3>8. ASSUME OfUser("push_devices") \notin mixed'
          PROVE  /\ asked'.push_devices = user'.push_devices
                 /\ \A q \in Reqs : req'[q].pc = "write_devices" => req'[q].list = Change(req'[q], user'.push_devices)
      BY <2>1, <3>3, <3>6, <3>8 DEF UserInv, Alone, Idle, At
    <3>9. Distinct(user'.push_devices)
      BY <3>3 DEF UserInv
    <3> QED
      BY <1>0, <2>1, <3>3, <3>6, <3>7, <3>8, <3>9 DEF UserInv, At, OfUser
  <2> QED
    BY <1>5, <2>2, <2>3, WritesSo
<1> QED
  BY <1>2, <1>3, <1>4, <1>5 DEF OnNotices

(* A copy is the record there is, unless the record has changed since.     *)
CopyInv == \A r \in Reqs \ outdated : HasCopy(req[r]) => req[r].user = user

LEMMA CopiesKept ==
    ASSUME LocalsReady, LocalNotices, UserInv, CopyInv,
           outdated' = (IF user' # user THEN InFlight ELSE outdated) \cap InFlight',
           Aloof \/ \E r \in Reqs : OnNotices(r)
    PROVE  CopyInv'
<1>0. ~HasCopy(Idle)
  BY IdleUnnoticed DEF Noticing
<1>1. SUFFICES ASSUME NEW q \in Reqs, q \notin outdated', HasCopy(req'[q])
               PROVE  req'[q].user = user'
  BY DEF CopyInv
<1>2. q \in InFlight'
  BY <1>1 DEF InFlight, At, HasCopy, PushPcs, AlertPcs, LooksUp, SpendPcs, Generating, Slept
<1>3. ASSUME UNCHANGED user
      PROVE  HasCopy(req[q]) => req[q].user = user'
  BY <1>1, <1>2, <1>3 DEF CopyInv
<1>4. CASE Aloof
  BY <1>1, <1>3, <1>4 DEF Aloof, Carried, noticeVars, Noticing
<1>5. ASSUME NEW r \in Reqs, InsertAlert(r) \/ PushAlert(r) \/ InventoryPush(r)
      PROVE  req'[q].user = user'
  BY <1>1, <1>3, <1>5, PushSteps DEF LocalNotices, Alone
<1>6. ASSUME NEW r \in Reqs, DevicesArrive(r)
      PROVE  req'[q].user = user'
  <2>1. Alone(r) /\ UNCHANGED user /\ ~HasCopy(req'[r])
    BY <1>6, ArrivesSo DEF noticeVars, HasCopy, PushPcs, AlertPcs, LooksUp, SpendPcs, Generating, Slept
  <2> QED
    BY <1>1, <1>3, <2>1 DEF Alone
<1>7. ASSUME NEW r \in Reqs, DevicesStep(r)
      PROVE  req'[q].user = user'
  <2>1. q # r /\ req'[q] = req[q]
    BY <1>0, <1>1, <1>7, WritesSo DEF Alone
  <2>2. q \in InFlight
    BY <1>2, <2>1 DEF InFlight, At
  <2>3. UNCHANGED user
    BY <1>1, <1>2, <2>2
  <2> QED
    BY <1>1, <1>3, <2>1, <2>3
<1> QED
  BY <1>4, <1>5, <1>6, <1>7 DEF OnNotices

-----------------------------------------------------------------------------
(* A push is sent once: of an alert, by the request that stored it.        *)
Subject(r) == Head(req[r].alerts)
PostInv ==
    /\ notifications \subseteq Titles
    /\ \E S : posted \in Seq(S)
    /\ \A i \in DOMAIN posted : posted[i].subject \in Titles => posted[i].subject \in notifications
    /\ AlertsPushedOnce
    /\ \A r \in Reqs : At(r, "push_alert") =>
          /\ Subject(r) \in notifications
          /\ \A i \in DOMAIN posted : posted[i].subject # Subject(r)
          /\ \A q \in Reqs : At(q, "push_alert") /\ Subject(q) = Subject(r) => q = r

LEMMA TitleIs ==
    ASSUME NEW r \in Reqs, LocalNotice(req[r]), req[r].pc \in AlertPcs
    PROVE  Subject(r) \in Titles
<1>1. PICK s : s = req[r].alerts
  OBVIOUS
<1>2. s \in Seq(Titles) \ {<<>>}
  BY <1>1 DEF LocalNotice
<1>3. Head(s) \in Titles
  BY <1>2
<1> QED
  BY <1>1, <1>3 DEF Subject

Posting(r, subject) ==
    \/ posted' = posted
    \/ /\ Wanted(req[r].user, subject = "low_stock")
       /\ posted' = Append(posted, [subject |-> subject, to |-> req[r].user.push_devices])

LEMMA PostsSo ==
    ASSUME NEW r \in Reqs, LocalNotice(req[r]), PushAlert(r) \/ InventoryPush(r)
    PROVE  /\ UNCHANGED notifications
           /\ \/ At(r, "push_alert") /\ Posting(r, Subject(r))
              \/ \E subject \in {"new_item", "low_stock"} : Posting(r, subject)
<1>1. CASE PushAlert(r)
  <2>1. Subject(r) # "low_stock"
    BY <1>1, TitleIs, TitlesAssumption DEF PushAlert, At, AlertPcs
  <2>2. (Subject(r) = "low_stock") = FALSE
    BY <2>1
  <2>3. At(r, "push_alert") /\ UNCHANGED notifications /\ Push(req[r].user, Subject(r), FALSE)
    BY <1>1 DEF PushAlert, Subject
  <2> QED
    BY <2>2, <2>3 DEF Push, Posting
<1>2. CASE PushItem(r)
  BY <1>2 DEF PushItem, Push, Posting
<1>3. CASE PushLowStock(r)
  BY <1>3 DEF PushLowStock, Push, Posting
<1> QED
  BY <1>1, <1>2, <1>3 DEF InventoryPush

LEMMA Posted ==
    ASSUME NEW S, posted \in Seq(S), NEW r \in Reqs, NEW subject, Posting(r, subject)
    PROVE  /\ \E T : posted' \in Seq(T)
           /\ DOMAIN posted \subseteq DOMAIN posted'
           /\ \A i \in DOMAIN posted : posted'[i] = posted[i]
           /\ \A i, j \in DOMAIN posted' \ DOMAIN posted : i = j
           /\ \A i \in DOMAIN posted' \ DOMAIN posted : posted'[i].subject = subject
           /\ posted' # posted => /\ Wanted(req[r].user, subject = "low_stock")
                                  /\ Last(posted').subject = subject
                                  /\ Last(posted').to = req[r].user.push_devices
<1>1. CASE posted' = posted
  BY <1>1
<1>2. CASE posted' # posted
  <2>1. PICK x : x = [subject |-> subject, to |-> req[r].user.push_devices]
    OBVIOUS
  <2>2. posted' = Append(posted, x) /\ Wanted(req[r].user, subject = "low_stock")
    BY <1>2, <2>1 DEF Posting
  <2>3. posted \in Seq(S \cup {x}) /\ x \in S \cup {x}
    OBVIOUS
  <2>4. posted' \in Seq(S \cup {x}) /\ Len(posted') = Len(posted) + 1 /\ DOMAIN posted = 1 .. Len(posted)
        /\ DOMAIN posted' = 1 .. Len(posted) + 1 /\ Len(posted) \in Nat
        /\ posted'[Len(posted) + 1] = x /\ \A i \in 1 .. Len(posted) : posted'[i] = posted[i]
    BY <2>2, <2>3
  <2>5. Last(posted') = x
    BY <2>4 DEF Last
  <2>6. x.subject = subject /\ x.to = req[r].user.push_devices
    BY <2>1
  <2>7. \A i \in DOMAIN posted' \ DOMAIN posted : i = Len(posted) + 1
    BY <2>4
  <2>8. DOMAIN posted \subseteq DOMAIN posted'
    BY <2>4
  <2>9. \E T : posted' \in Seq(T)
    BY <2>4
  <2> QED
    BY <2>2, <2>4, <2>5, <2>6, <2>7, <2>8, <2>9
<1> QED
  BY <1>1, <1>2

(* What a step leaves of the pushes when it sends none.                    *)
LEMMA PostsStay ==
    ASSUME PostInv, UNCHANGED <<notifications, posted>>,
           \A r \in Reqs : req'[r].pc = "push_alert" => req'[r] = req[r]
    PROVE  PostInv'
<1>1. AlertsPushedOnce' /\ (\E S : posted' \in Seq(S))
  BY DEF PostInv, AlertsPushedOnce
<1>2. ASSUME NEW r \in Reqs, req'[r].pc = "push_alert"
      PROVE  Subject(r)' = Subject(r) /\ At(r, "push_alert")
  BY <1>2 DEF Subject, At
<1> QED
  BY <1>1, <1>2 DEF PostInv, At

LEMMA PostsGrow ==
    ASSUME PostInv, NEW r \in Reqs, LocalNotice(req[r]), Alone(r), req'[r].pc # "push_alert",
           PushAlert(r) \/ InventoryPush(r)
    PROVE  PostInv'
<1>1. PICK S : posted \in Seq(S)
  BY DEF PostInv
<1>2. PICK subject : /\ Posting(r, subject)
                     /\ \/ At(r, "push_alert") /\ subject = Subject(r)
                        \/ subject \in {"new_item", "low_stock"}
  BY PostsSo
<1>3. UNCHANGED notifications
  BY PostsSo
<1>4. /\ \E T : posted' \in Seq(T)
      /\ DOMAIN posted \subseteq DOMAIN posted'
      /\ \A i \in DOMAIN posted : posted'[i] = posted[i]
      /\ \A i, j \in DOMAIN posted' \ DOMAIN posted : i = j
      /\ \A i \in DOMAIN posted' \ DOMAIN posted : posted'[i].subject = subject
  BY <1>1, <1>2, Posted
<1>5. subject \in Titles => /\ subject \in notifications
                            /\ At(r, "push_alert") /\ subject = Subject(r)
                            /\ \A i \in DOMAIN posted : posted[i].subject # subject
  BY <1>2, TitlesAssumption DEF PostInv
<1>6. \A i \in DOMAIN posted' : posted'[i].subject \in Titles => posted'[i].subject \in notifications'
  BY <1>3, <1>4, <1>5 DEF PostInv
<1>7. AlertsPushedOnce'
  BY <1>4, <1>5 DEF PostInv, AlertsPushedOnce
<1>8. ASSUME NEW q \in Reqs, At(q, "push_alert")'
      PROVE  /\ Subject(q)' \in notifications'
             /\ \A i \in DOMAIN posted' : posted'[i].subject # Subject(q)'
             /\ \A p \in Reqs : At(p, "push_alert")' /\ Subject(p)' = Subject(q)' => p = q
  <2>1. ASSUME NEW p \in Reqs, At(p, "push_alert")'
        PROVE  p # r /\ At(p, "push_alert") /\ Subject(p)' = Subject(p)
    BY <2>1 DEF Alone, At, Subject
  <2>2. q # r /\ At(q, "push_alert") /\ Subject(q)' = Subject(q)
    BY <1>8, <2>1
  <2>3. /\ Subject(q) \in notifications /\ Subject(q) \in Titles
        /\ \A i \in DOMAIN posted : posted[i].subject # Subject(q)
        /\ \A p \in Reqs : At(p, "push_alert") /\ Subject(p) = Subject(q) => p = q
    BY <2>2 DEF PostInv
  <2>4. subject # Subject(q)
    BY <1>5, <2>2, <2>3
  <2> QED
    BY <1>3, <1>4, <2>1, <2>2, <2>3, <2>4
<1> QED
  BY <1>3, <1>4, <1>6, <1>7, <1>8 DEF PostInv

LEMMA AlertStored ==
    ASSUME PostInv, LocalsReady, NEW r \in Reqs, LocalNotice(req[r]), InsertAlert(r)
    PROVE  PostInv'
<1>1. req[r].pc = "insert_alert" /\ UNCHANGED posted /\ notifications' = notifications \cup {Subject(r)}
  BY DEF InsertAlert, At, Subject
<1>2. Subject(r) \in Titles
  BY <1>1, TitleIs DEF AlertPcs
<1>3. CASE Subject(r) \in notifications
  <2>1. Done(r)
    BY <1>3 DEF InsertAlert, Raised, Subject
  <2>2. req'[r] = Idle /\ Alone(r)
    BY <2>1, GoesOnSo
  <2>3. \A q \in Reqs : req'[q].pc = "push_alert" => req'[q] = req[q]
    BY <2>2 DEF Alone, Idle
  <2> QED
    BY <1>1, <1>3, <2>3, PostsStay
<1>4. CASE Subject(r) \notin notifications
  <2>1. Goto(r, "push_alert")
    BY <1>4 DEF InsertAlert, Subject
  <2>2. GoesOn(r, "push_alert") /\ Alone(r)
    BY <2>1, GoesOnSo
  <2>3. Subject(r)' = Subject(r)
    BY <1>1, <2>2 DEF GoesOn, Subject, LocalNotice, AlertPcs
  <2>4. ASSUME NEW q \in Reqs, At(q, "push_alert")'
        PROVE  Subject(q)' = Subject(q) /\ (q # r => At(q, "push_alert") /\ Subject(q) \in notifications)
    BY <2>2, <2>3, <2>4 DEF Alone, At, Subject, PostInv
  <2>5. ASSUME NEW q \in Reqs, At(q, "push_alert")'
        PROVE  /\ Subject(q) \in notifications'
               /\ \A i \in DOMAIN posted : posted[i].subject # Subject(q)
               /\ \A p \in Reqs : At(p, "push_alert")' /\ Subject(p) = Subject(q) => p = q
    <3>1. CASE q = r
      <4>1. \A i \in DOMAIN posted : posted[i].subject # Subject(r)
        BY <1>2, <1>4 DEF PostInv
      <4>2. \A p \in Reqs : At(p, "push_alert")' /\ Subject(p) = Subject(r) => p = r
        BY <1>4, <2>4
      <4> QED
        BY <1>1, <3>1, <4>1, <4>2
    <3>2. CASE q # r
      <4>1. At(q, "push_alert") /\ Subject(q) \in notifications
        BY <2>4, <2>5, <3>2
      <4>2. \A p \in Reqs : At(p, "push_alert")' /\ Subject(p) = Subject(q) => p = q
        BY <1>4, <2>4, <4>1 DEF PostInv
      <4> QED
        BY <1>1, <4>1, <4>2 DEF PostInv
    <3> QED
      BY <3>1, <3>2
  <2>6. AlertsPushedOnce' /\ (\E S : posted' \in Seq(S))
    BY <1>1 DEF PostInv, AlertsPushedOnce
  <2>7. /\ notifications' \subseteq Titles
        /\ \A i \in DOMAIN posted' : posted'[i].subject \in Titles => posted'[i].subject \in notifications'
    BY <1>1, <1>2 DEF PostInv
  <2> QED
    BY <1>1, <2>4, <2>5, <2>6, <2>7 DEF PostInv
<1> QED
  BY <1>3, <1>4

LEMMA PostsKept ==
    ASSUME LocalsReady, LocalNotices, UserInv, PostInv, Aloof \/ \E r \in Reqs : OnNotices(r)
    PROVE  PostInv'
<1>1. CASE Aloof
  <2>1. ASSUME NEW r \in Reqs, req'[r].pc = "push_alert" PROVE req'[r] = req[r]
    <3>1. Noticing(req'[r])
      BY <2>1 DEF Noticing, HasCopy, AlertPcs
    <3> QED
      BY <1>1, <2>1, <3>1 DEF Aloof, Carried
  <2> QED
    BY <1>1, <2>1, PostsStay DEF Aloof, noticeVars
<1>2. ASSUME NEW r \in Reqs, DevicesArrive(r) \/ DevicesStep(r) PROVE PostInv'
  <2>1. Alone(r) /\ UNCHANGED <<notifications, posted>> /\ req'[r].pc # "push_alert"
    <3>1. CASE DevicesArrive(r)
      BY <3>1, ArrivesSo DEF noticeVars
    <3>2. CASE DevicesStep(r)
      BY <3>2, WritesSo DEF Idle
    <3> QED
      BY <1>2, <3>1, <3>2
  <2> QED
    BY <2>1, PostsStay DEF Alone
<1>3. ASSUME NEW r \in Reqs, PushAlert(r) \/ InventoryPush(r) PROVE PostInv'
  <2>1. LocalNotice(req[r]) /\ Alone(r)
    BY <1>3, PushSteps DEF LocalNotices
  <2>2. req'[r].pc # "push_alert"
    <3>1. CASE PushAlert(r)
      BY <2>1, <3>1, NextAlertSo DEF PushAlert, At, AlertPcs
    <3>2. CASE InventoryPush(r)
      <4>1. \/ Done(r)
            \/ Goto(r, "push_low_stock")
        BY <3>2 DEF InventoryPush, PushItem, PushLowStock
      <4> QED
        BY <4>1, Steps DEF Idle
    <3> QED
      BY <1>3, <3>1, <3>2
  <2> QED
    BY <1>3, <2>1, <2>2, PostsGrow
<1>4. ASSUME NEW r \in Reqs, InsertAlert(r) PROVE PostInv'
  BY <1>4, AlertStored DEF LocalNotices
<1> QED
  BY <1>1, <1>2, <1>3, <1>4 DEF OnNotices

-----------------------------------------------------------------------------
NoticeInv == TextInv /\ LocalNotices /\ UserInv /\ CopyInv /\ PostInv

LEMMA NoticesStart == HInit => NoticeInv
<1> SUFFICES ASSUME HInit PROVE NoticeInv
  OBVIOUS
<1>1. DeskInit /\ asked = user /\ mixed = {}
  BY DEF HInit
<1>2. /\ \A r \in Reqs : req[r] = Idle
      /\ cache = [k \in Keys |-> NULL]
      /\ NoticesInit
  BY <1>1 DEF DeskInit, RequestsInit, GenerationsInit
<1>3. \A r \in Reqs : ~Noticing(req[r]) /\ req[r].pc = "idle"
  BY <1>2, IdleUnnoticed DEF Idle
<1>4. TextInv
  BY <1>2, <1>3 DEF TextInv, At
<1>5. LocalNotices /\ CopyInv
  BY <1>3, UnnoticedLocal DEF LocalNotices, CopyInv, Noticing
<1>6. PostInv
  <2>1. posted = <<>> /\ notifications = {} /\ DOMAIN posted = {}
    BY <1>2 DEF NoticesInit
  <2>2. posted \in Seq({})
    BY <2>1
  <2> QED
    BY <1>3, <2>1, <2>2 DEF PostInv, AlertsPushedOnce, At
<1>7. UserInv
  <2>1. PICK list : list = OldDevices
    OBVIOUS
  <2>2. list \in Seq(Phones) /\ Distinct(list)
    BY <2>1, PhonesAssumption DEF Distinct
  <2>3. user = [push_devices |-> list,
                notification_settings |-> [push_notifications |-> TRUE, low_stock_alerts |-> TRUE]]
    BY <1>2, <2>1 DEF NoticesInit
  <2>4. user \in [push_devices : Seq(Phones), notification_settings : Settings] /\ user.push_devices = list
    BY <2>2, <2>3 DEF Settings
  <2> QED
    BY <1>1, <1>3, <2>2, <2>4 DEF UserInv, Lone, At
<1> QED
  BY <1>4, <1>5, <1>6, <1>7 DEF NoticeInv

LEMMA NoticesGoOn ==
    ASSUME DeskInv, StockInv, NoticeInv, DeskInv', StockInv', HNext
    PROVE  Aloof \/ \E r \in Reqs : OnNotices(r)
<1>1. DeskNext
  BY DEF HNext
<1> QED
  BY <1>1, NoticeSteps DEF DeskInv, StockInv, NoticeInv, LocalNotices

LEMMA NoticeKept == DeskInv /\ StockInv /\ NoticeInv /\ [HNext]_vars => NoticeInv'
<1> SUFFICES ASSUME DeskInv, StockInv, NoticeInv, [HNext]_vars PROVE NoticeInv'
  OBVIOUS
<1>1. DeskInv' /\ StockInv'
  BY DeskKept, StockKept
<1>2. LocalsReady /\ LocalsReady' /\ IdsHeld'
  <2>1. TenantInv'
    BY <1>1 DEF StockInv
  <2>2. IdsHeld'
    BY <2>1 DEF TenantInv, LocalTyped, IdsHeld
  <2> QED
    BY <1>1, <2>2 DEF DeskInv
<1>3. CASE HNext
  <2>1. Aloof \/ \E r \in Reqs : OnNotices(r)
    BY <1>1, <1>3, NoticesGoOn
  <2>2. /\ AskedNext /\ mixed' = mixed \cup SharedWork'
        /\ outdated' = (IF user' # user THEN InFlight ELSE outdated) \cap InFlight'
        /\ DeskNext
    BY <1>3 DEF HNext
  <2>3. TextInv'
    BY <2>2, TextKept DEF DeskInv, NoticeInv
  <2>4. LocalNotices'
    BY <1>2, <2>1, NoticesKept DEF NoticeInv
  <2>5. UserInv'
    BY <1>2, <2>1, <2>2, UserKept DEF NoticeInv
  <2>6. CopyInv'
    BY <1>2, <2>1, <2>2, CopiesKept DEF NoticeInv
  <2>7. PostInv'
    BY <1>2, <2>1, PostsKept DEF NoticeInv
  <2> QED
    BY <2>3, <2>4, <2>5, <2>6, <2>7 DEF NoticeInv
<1>4. CASE UNCHANGED vars
  <2>1. UNCHANGED <<req, cache, user, notifications, posted, asked, mixed, outdated>>
    BY <1>4 DEF vars, deskVars, historyVars, restaurantVars, noticeVars, generationVars
  <2>2. TextInv' /\ LocalNotices'
    BY <2>1 DEF NoticeInv, TextInv, LocalNotices, At
  <2>3. UserInv'
    BY <2>1 DEF NoticeInv, UserInv, Lone, At
  <2>4. CopyInv'
    BY <2>1 DEF NoticeInv, CopyInv
  <2>5. PostInv'
    BY <2>1, PostsStay DEF NoticeInv
  <2> QED
    BY <2>2, <2>3, <2>4, <2>5 DEF NoticeInv
<1> QED
  BY <1>3, <1>4

LEMMA NoticesHold == HSpec => [](DeskInv /\ StockInv /\ NoticeInv)
<1>1. HInit => NoticeInv
  BY NoticesStart
<1>2. DeskInv /\ StockInv /\ NoticeInv /\ [HNext]_vars => NoticeInv'
  BY NoticeKept
<1> QED
  BY <1>1, <1>2, StockHolds, PTL DEF HSpec

LEMMA PushedAsWanted ==
    ASSUME LocalsReady, LocalNotices, CopyInv, PostInv, Aloof \/ \E r \in Reqs : OnNotices(r)
    PROVE  PushOnlyWhenWanted
<1>1. SUFFICES ASSUME posted' # posted
               PROVE  \E r \in InFlight :
                         /\ req'[r] # req[r]
                         /\ r \in outdated \/ ( /\ Wanted(user, Last(posted').subject = "low_stock")
                                                /\ Last(posted').to = user.push_devices)
  BY DEF PushOnlyWhenWanted
<1>2. PICK r \in Reqs : PushAlert(r) \/ InventoryPush(r)
  <2>1. ~Aloof
    BY <1>1 DEF Aloof, noticeVars
  <2>2. ASSUME NEW r \in Reqs, DevicesArrive(r) \/ DevicesStep(r) \/ InsertAlert(r) PROVE FALSE
    BY <1>1, <2>2 DEF DevicesArrive, BeginRegister, BeginUnregister, BeginSettings, DevicesStep, WriteDevices,
       WriteSettings, InsertAlert, noticeVars
  <2> QED
    BY <2>1, <2>2 DEF OnNotices
<1>3. /\ req'[r].pc # req[r].pc /\ HasCopy(req[r]) /\ LocalNotice(req[r])
  BY <1>2, PushSteps DEF LocalNotices
<1>4. r \in InFlight /\ req'[r] # req[r]
  BY <1>3 DEF InFlight, At, HasCopy, PushPcs, AlertPcs, LooksUp, SpendPcs, Generating, Slept
<1>5. r \notin outdated => req[r].user = user
  BY <1>3 DEF CopyInv
<1>6. PICK subject : Posting(r, subject)
  BY <1>2, <1>3, PostsSo
<1>7. PICK S : posted \in Seq(S)
  BY DEF PostInv
<1>8. /\ Wanted(req[r].user, subject = "low_stock") /\ Last(posted').subject = subject
      /\ Last(posted').to = req[r].user.push_devices
  BY <1>1, <1>6, <1>7, Posted
<1> QED
  BY <1>4, <1>5, <1>8

(* A push shows what the user's record asked for when its request arrived, *)
(* and at least as long as the record stays it is what it asks for now; no *)
(* alert is pushed twice, no phone is told twice, and requests on phones   *)
(* and on settings do not undo each other (_send_push_notification,        *)
(* register_push_device, update_notification_settings, create_if_absent).  *)
THEOREM PushesFollow == HSpec => PushesAsAsked
<1>1. DeskInv /\ StockInv /\ NoticeInv /\ DeskInv' /\ StockInv' /\ NoticeInv' /\ [HNext]_vars
         => [PushOnlyWhenWanted /\ AlertsPushedOnce' /\ OnePhoneOnePush' /\ UserAsAsked']_vars
  <2>1. SUFFICES ASSUME DeskInv, StockInv, NoticeInv, DeskInv', StockInv', NoticeInv', HNext
                 PROVE  PushOnlyWhenWanted /\ AlertsPushedOnce' /\ OnePhoneOnePush' /\ UserAsAsked'
    OBVIOUS
  <2>2. PushOnlyWhenWanted
    BY <2>1, NoticesGoOn, PushedAsWanted DEF DeskInv, NoticeInv
  <2>3. AlertsPushedOnce'
    BY <2>1 DEF NoticeInv, PostInv
  <2>4. OnePhoneOnePush' /\ UserAsAsked'
    <3>1. UserInv'
      BY <2>1 DEF NoticeInv
    <3>2. OnePhoneOnePush'
      BY <3>1 DEF UserInv, Distinct, OnePhoneOnePush
    <3>3. DOMAIN user' = {"push_devices", "notification_settings"}
      BY <3>1 DEF UserInv
    <3>4. ASSUME NEW field \in DOMAIN user', OfUser(field) \notin mixed' PROVE user'[field] = asked'[field]
      BY <3>1, <3>3, <3>4 DEF UserInv, OfUser
    <3> QED
      BY <3>2, <3>4 DEF UserAsAsked, OfUser
  <2> QED
    BY <2>2, <2>3, <2>4
<1> QED
  BY <1>1, NoticesHold, PTL DEF HSpec, PushesAsAsked

-----------------------------------------------------------------------------
(* One plan goes without a key.                                            *)
KeyInv ==
    /\ \A i \in DOMAIN plans : "singleton_key" \in DOMAIN plans[i]
    /\ \A i, j \in DOMAIN plans : plans[i].singleton_key = NULL /\ plans[j].singleton_key = NULL => i = j

LEMMA KeyOf ==
    ASSUME NEW plan, "singleton_key" \in DOMAIN plan, NEW form, "singleton_key" \notin DOMAIN form
    PROVE  "singleton_key" \in DOMAIN With(plan, form) /\ With(plan, form).singleton_key = plan.singleton_key
  BY DEF With

LEMMA KeysStay ==
    ASSUME KeyInv, NEW i, NEW plan, plans' = [plans EXCEPT ![i] = plan],
           i \in DOMAIN plans => "singleton_key" \in DOMAIN plan /\ plan.singleton_key = plans[i].singleton_key
    PROVE  KeyInv'
<1>1. DOMAIN plans' = DOMAIN plans
  OBVIOUS
<1>2. ASSUME NEW j \in DOMAIN plans
      PROVE  "singleton_key" \in DOMAIN plans'[j] /\ plans'[j].singleton_key = plans[j].singleton_key
  <2>1. CASE j = i
    BY <1>2, <2>1
  <2>2. CASE j # i
    BY <1>2, <2>2 DEF KeyInv
  <2> QED
    BY <2>1, <2>2
<1> QED
  BY <1>1, <1>2 DEF KeyInv

LEMMA KeysKept ==
    ASSUME LocalsReady, PricesInv, KeyInv, NEW r \in Reqs, OnPlans(r)
    PROVE  KeyInv'
<1>1. ASSUME UNCHANGED plans PROVE KeyInv'
  BY <1>1 DEF KeyInv
<1>2. CASE ClearPlan(r)
  <2>1. PICK h : plans' = [plans EXCEPT ![h].best = FALSE]
    BY <1>2 DEF ClearPlan
  <2>2. PICK plan : plan = [plans[h] EXCEPT !.best = FALSE]
    OBVIOUS
  <2>3. plans' = [plans EXCEPT ![h] = plan]
    BY <2>1, <2>2
  <2>4. h \in DOMAIN plans => "singleton_key" \in DOMAIN plan /\ plan.singleton_key = plans[h].singleton_key
    BY <2>2 DEF KeyInv
  <2> QED
    BY <2>3, <2>4, KeysStay
<1>3. ASSUME NEW i, NEW form \in PlanEdits \cup {DefaultPlan}, plans' = [plans EXCEPT ![i] = With(@, form)]
      PROVE  KeyInv'
  <2>1. PICK plan : plan = With(plans[i], form)
    OBVIOUS
  <2>2. plans' = [plans EXCEPT ![i] = plan]
    BY <1>3, <2>1
  <2>3. i \in DOMAIN plans => "singleton_key" \in DOMAIN plan /\ plan.singleton_key = plans[i].singleton_key
    <3>1. "singleton_key" \notin DOMAIN form
      BY <1>3, PlanKeysAssumption
    <3>2. SUFFICES ASSUME i \in DOMAIN plans
                   PROVE  "singleton_key" \in DOMAIN plan /\ plan.singleton_key = plans[i].singleton_key
      OBVIOUS
    <3>3. "singleton_key" \in DOMAIN plans[i]
      BY <3>2 DEF KeyInv
    <3> QED
      BY <2>1, <3>1, <3>3, KeyOf
  <2> QED
    BY <2>2, <2>3, KeysStay
<1>4. CASE WritePlan(r)
  <2>1. req[r].form \in PlanEdits
    BY <1>4 DEF WritePlan, At, LocalsReady, Ready, PlansReady
  <2> QED
    BY <1>3, <1>4, <2>1 DEF WritePlan
<1>5. CASE WriteDefault(r)
  BY <1>3, <1>5 DEF WriteDefault
<1>6. CASE InsertPlan(r)
  <2>1. PICK plan : plan = With(req[r].form, [singleton_key |-> NULL])
    OBVIOUS
  <2>2. "singleton_key" \in DOMAIN plan
    BY <2>1 DEF With
  <2>3. CASE \E i \in DOMAIN plans : plans[i].singleton_key = NULL
    BY <1>1, <1>6, <2>3 DEF InsertPlan
  <2>4. CASE ~\E i \in DOMAIN plans : plans[i].singleton_key = NULL
    <3>1. plans' = Append(plans, plan)
      BY <1>6, <2>1, <2>4 DEF InsertPlan
    <3>2. plans \in Seq(Range(plans) \cup {plan})
      BY DEF PricesInv
    <3>3. /\ DOMAIN plans = 1 .. Len(plans) /\ DOMAIN plans' = 1 .. Len(plans) + 1 /\ Len(plans) \in Nat
          /\ \A i \in DOMAIN plans : plans'[i] = plans[i]
          /\ plans'[Len(plans) + 1] = plan
      BY <3>1, <3>2
    <3>4. \A i \in DOMAIN plans' : i \in DOMAIN plans \/ i = Len(plans) + 1
      BY <3>3
    <3> QED
      BY <2>2, <2>4, <3>3, <3>4 DEF KeyInv
  <2> QED
    BY <2>3, <2>4
<1>7. PlansArrive(r) \/ ReadBest(r) => UNCHANGED plans
  BY DEF PlansArrive, BeginCreatePlan, BeginUpdatePlan, BeginStart, ReadBest
<1> QED
  BY <1>1, <1>2, <1>4, <1>5, <1>6, <1>7 DEF OnPlans, PlansStep

LEMMA OneUnkeyed ==
    ASSUME KeyInv
    PROVE  Cardinality({i \in DOMAIN plans : plans[i].singleton_key = NULL}) <= 1
<1>1. PICK S : S = {i \in DOMAIN plans : plans[i].singleton_key = NULL}
  OBVIOUS
<1>2. \A i, j \in S : i = j
  BY <1>1 DEF KeyInv
<1>3. ASSUME S # {} PROVE \E i : S = {i}
  <2>1. PICK i : i \in S
    BY <1>3
  <2>2. S = {i}
    BY <1>2, <2>1
  <2> QED
    BY <2>2
<1>4. Cardinality(S) <= 1
  <2>1. CASE S = {}
    BY <2>1, FS_EmptySet
  <2>2. CASE S # {}
    <3>1. PICK i : S = {i}
      BY <1>3, <2>2
    <3>2. Cardinality({i}) = 1
      BY FS_Singleton
    <3> QED
      BY <3>1, <3>2
  <2> QED
    BY <2>1, <2>2
<1> QED
  BY <1>1, <1>4

-----------------------------------------------------------------------------
(* Apps show, and the memory covers, messages there are.                   *)
ChatInv ==
    /\ shown \in 0 .. Len(chat) /\ memory \subseteq DOMAIN chat
    /\ \A r \in Reqs : "upto" \in DOMAIN req[r] => req[r].upto \in 0 .. Len(chat)
    /\ \A r \in Reqs : At(r, "write_memory") => req[r].memory \subseteq DOMAIN chat

LEMMA ChatGrows ==
    ASSUME chat \in Seq(Messages), chat' \in Seq(Messages), NEW r \in Reqs, ChatArrive(r) \/ ChatStep(r)
    PROVE  Len(chat) <= Len(chat')
<1>1. Len(chat) \in Nat /\ DOMAIN chat = 1 .. Len(chat) /\ Len(chat') \in Nat /\ DOMAIN chat' = 1 .. Len(chat')
  OBVIOUS
<1>2. ASSUME UNCHANGED chat PROVE Len(chat) <= Len(chat')
  BY <1>1, <1>2
<1>3. ASSUME NEW m, chat' = Append(chat, m) PROVE Len(chat) <= Len(chat')
  BY <1>1, <1>3
<1>4. ASSUME NEW i, NEW m, chat' = [chat EXCEPT ![i] = m] PROVE Len(chat) <= Len(chat')
  <2>1. DOMAIN chat' = DOMAIN chat
    BY <1>4
  <2>2. PICK n \in Nat : n = Len(chat) /\ DOMAIN chat = 1 .. n
    BY <1>1
  <2>3. PICK k \in Nat : k = Len(chat') /\ DOMAIN chat' = 1 .. k
    BY <1>1
  <2> QED
    BY <2>1, <2>2, <2>3
<1>5. ASSUME NEW live, BeginMessage(r, live) PROVE Len(chat) <= Len(chat')
  BY <1>3, <1>5 DEF BeginMessage
<1>6. CASE InsertReply(r)
  BY <1>3, <1>6 DEF InsertReply
<1>7. CASE EditMessage(r)
  <2>1. PICK i : chat' = [chat EXCEPT ![i].version = @ + 1]
    BY <1>7 DEF EditMessage
  <2>2. PICK m : m = [chat[i] EXCEPT !.version = @ + 1]
    OBVIOUS
  <2> QED
    BY <1>4, <2>1, <2>2
<1>8. CASE WriteTranslation(r)
  <2>1. PICK i : chat' = [chat EXCEPT ![i].translated = TRUE]
    BY <1>8 DEF WriteTranslation
  <2>2. PICK m : m = [chat[i] EXCEPT !.translated = TRUE]
    OBVIOUS
  <2> QED
    BY <1>4, <2>1, <2>2
<1>9. CASE ReadContext(r) \/ ListChat(r) \/ ReadMemory(r) \/ WriteMemory(r) \/ Broadcast(r) \/ Answered(r)
  BY <1>2, <1>9 DEF ReadContext, ListChat, ReadMemory, WriteMemory, Broadcast, Answered, assistantVars
<1>10. BeginHistory(r) => UNCHANGED chat
  BY DEF BeginHistory, assistantVars
<1>11. ASSUME NEW m, NEW live, BeginEditMessage(r, m, live) PROVE UNCHANGED chat
  BY <1>11 DEF BeginEditMessage, assistantVars
<1> QED
  BY <1>2, <1>5, <1>6, <1>7, <1>8, <1>9, <1>10, <1>11 DEF ChatArrive, ChatStep

LEMMA ChatInvKept ==
    ASSUME LocalsReady, LocalsReady', CouponsInv, PricesInv, ChatInv,
           chat \in Seq(Messages), chat' \in Seq(Messages), DeskNext
    PROVE  ChatInv'
<1>1. Len(chat) \in Nat /\ DOMAIN chat = 1 .. Len(chat) /\ Len(chat') \in Nat /\ DOMAIN chat' = 1 .. Len(chat')
  OBVIOUS
<1>2. CASE OffChat
  BY <1>2, ChatLeft DEF ChatInv, chatVars, At
<1>3. ASSUME NEW r \in Reqs, ChatArrive(r) \/ ChatStep(r)
      PROVE  ChatInv'
  <2>1. Len(chat) <= Len(chat')
    BY <1>3, ChatGrows
  <2>2. DOMAIN chat \subseteq DOMAIN chat' /\ 0 .. Len(chat) \subseteq 0 .. Len(chat')
    BY <1>1, <2>1
  <2>3. /\ \A q \in Reqs \ {r} : req'[q] = req[q]
        /\ "upto" \in DOMAIN req'[r] =>
              req'[r].upto = Len(chat) \/ ("upto" \in DOMAIN req[r] /\ req'[r].upto = req[r].upto)
        /\ At(r, "write_memory")' => req'[r].memory = memory'
        /\ memory' # memory => WriteMemory(r)
        /\ shown' # shown => Broadcast(r)
    BY <1>3, ChatLists
  <2>4. ASSUME NEW q \in Reqs, "upto" \in DOMAIN req'[q] PROVE req'[q].upto \in 0 .. Len(chat')
    <3>1. req'[q].upto \in 0 .. Len(chat)
      BY <1>1, <2>3, <2>4 DEF ChatInv
    <3> QED
      BY <2>2, <3>1
  <2>5. shown' \in 0 .. Len(chat')
    <3>1. CASE Broadcast(r)
      <4>1. "upto" \in DOMAIN req[r]
        BY <3>1, ChatFrom DEF Broadcast, At, ChatReady, ChatPcs, ListedPcs
      <4> QED
        BY <2>2, <3>1, <4>1 DEF ChatInv, Broadcast
    <3>2. CASE UNCHANGED shown
      BY <2>2, <3>2 DEF ChatInv
    <3> QED
      BY <2>3, <3>1, <3>2
  <2>6. memory' \subseteq DOMAIN chat
    <3>1. CASE WriteMemory(r)
      <4>1. "upto" \in DOMAIN req[r]
        BY <3>1, ChatFrom DEF WriteMemory, At, ChatReady, ChatPcs, ListedPcs
      <4>2. PICK n \in 0 .. Len(chat) : n = req[r].upto
        BY <4>1 DEF ChatInv
      <4>3. Spoken(LastOf(n, MemoryLimit)) \subseteq DOMAIN chat
        BY <1>1 DEF Spoken, LastOf
      <4>4. req[r].memory \subseteq DOMAIN chat
        BY <3>1 DEF WriteMemory, ChatInv
      <4> QED
        BY <3>1, <4>2, <4>3, <4>4 DEF WriteMemory
    <3>2. CASE UNCHANGED memory
      BY <3>2 DEF ChatInv
    <3> QED
      BY <2>3, <3>1, <3>2
  <2>7. ASSUME NEW q \in Reqs, At(q, "write_memory")' PROVE req'[q].memory \subseteq DOMAIN chat'
    <3>1. req'[q].memory \subseteq DOMAIN chat
      BY <2>3, <2>6, <2>7 DEF ChatInv, At
    <3> QED
      BY <2>2, <3>1
  <2> QED
    BY <2>2, <2>4, <2>5, <2>6, <2>7 DEF ChatInv
<1> QED
  BY <1>2, <1>3, ChatOrNot

-----------------------------------------------------------------------------
(* A ticket is of a request that has arrived.                              *)
Opening == {r \in Reqs : At(r, "insert_ticket")}
TicketInv == arrived \in Nat /\ Len(tickets) + Cardinality(Opening) <= arrived

LEMMA Arrivals ==
    ASSUME arrived \in Nat, DeskNext
    PROVE  arrived' \in {arrived, arrived + 1}
<1> USE DEF deskButGenerations
<1>1. ASSUME NEW r, NEW l, Begin(r, l) PROVE arrived' = arrived + 1
  BY <1>1 DEF Begin
<1>2. ASSUME NEW r \in Reqs, Arrive(r) PROVE arrived' = arrived + 1
  <2>1. ASSUME NamesArrive(r) PROVE \E l : Begin(r, l)
    BY <2>1 DEF NamesArrive, BeginCreateAccount, BeginRenameAccount, BeginDeleteAccount, CreateName
  <2>2. ASSUME InventoryArrive(r) PROVE \E l : Begin(r, l)
    BY <2>2 DEF InventoryArrive, BeginCreateItem, BeginUpdateStock, BeginUpdateItem, BeginDeleteItem
  <2>3. ASSUME DevicesArrive(r) \/ BeginAnalytics(r) PROVE \E l : Begin(r, l)
    BY <2>3 DEF DevicesArrive, BeginRegister, BeginUnregister, BeginSettings, BeginAnalytics
  <2>4. ASSUME ChatArrive(r) \/ BeginInsight(r) PROVE \E l : Begin(r, l)
    BY <2>4 DEF ChatArrive, BeginHistory, BeginMessage, BeginEditMessage, BeginInsight
  <2>5. ASSUME PlansArrive(r) PROVE \E l : Begin(r, l)
    BY <2>5 DEF PlansArrive, BeginCreatePlan, BeginUpdatePlan, BeginStart
  <2>6. ASSUME CouponsArrive(r) \/ BeginCheckout(r) PROVE \E l : Begin(r, l)
    BY <2>6 DEF CouponsArrive, BeginCreateCoupon, BeginUpdateCoupon, BeginDeleteCoupon, BeginManagement, BeginPreview,
       BeginCheckout
  <2>7. ASSUME SettingsArrive(r) \/ TicketsArrive(r) PROVE \E l : Begin(r, l)
    BY <2>7 DEF SettingsArrive, BeginSettingsRequest, TicketsArrive, BeginTicket, BeginReply, BeginResolve,
       BeginManagementPage
  <2> QED
    BY <1>1, <1>2, <2>1, <2>2, <2>3, <2>4, <2>5, <2>6, <2>7 DEF Arrive, ArriveAtRestaurant, ArriveAtOffice
<1>3. ASSUME NEW r \in Reqs, Step(r) \/ Stop(r) PROVE UNCHANGED arrived
  BY <1>3 DEF Step, Stop
<1>4. ASSUME (\E k \in Keys : ModelAnswers(k)) \/ GenerationLost PROVE UNCHANGED arrived
  BY <1>4 DEF ModelAnswers, GenerationLost
<1> QED
  BY <1>2, <1>3, <1>4 DEF DeskNext

LEMMA TicketsCounted ==
    ASSUME LocalsReady, TicketsShaped, TicketsShaped', TicketInv, DeskNext,
           TicketsLeft \/ \E r \in Reqs : OnTickets(r)
    PROVE  TicketInv'
<1>1. /\ arrived \in Nat /\ arrived' \in {arrived, arrived + 1}
      /\ Len(tickets) \in Nat /\ Len(tickets') \in Nat
  BY Arrivals DEF TicketInv, TicketsShaped, TicketsTyped
<1>2. IsFiniteSet(Opening) /\ Cardinality(Opening) \in Nat
  BY ReqsAssumption, FS_Subset, FS_CardinalityType DEF Opening
<1>3. ASSUME Opening' \subseteq Opening, Len(tickets') = Len(tickets) PROVE TicketInv'
  <2>1. Cardinality(Opening') <= Cardinality(Opening) /\ Cardinality(Opening') \in Nat
    BY <1>2, <1>3, FS_Subset, FS_CardinalityType
  <2> QED
    BY <1>1, <1>2, <1>3, <2>1 DEF TicketInv
<1>4. CASE TicketsLeft
  <2>1. \A q \in Reqs : req'[q].pc = "insert_ticket" => req[q].pc = "insert_ticket"
    BY <1>4 DEF TicketsLeft, Off, TicketPcs
  <2>2. Opening' \subseteq Opening
    BY <2>1 DEF Opening, At
  <2> QED
    BY <1>3, <1>4, <2>2 DEF TicketsLeft
<1>5. ASSUME NEW r \in Reqs, TicketsArrive(r) PROVE TicketInv'
  <2>1. PICK l : Begin(r, l)
    BY <1>5 DEF TicketsArrive, BeginTicket, BeginReply, BeginResolve, BeginManagementPage
  <2>2. arrived' = arrived + 1 /\ \A q \in Reqs \ {r} : req'[q] = req[q]
    BY <2>1, Steps DEF Begin
  <2>3. UNCHANGED tickets
    BY <1>5 DEF TicketsArrive, BeginTicket, BeginReply, BeginResolve, BeginManagementPage
  <2>4. Opening' \subseteq Opening \cup {r}
    BY <2>2 DEF Opening, At
  <2>5. /\ IsFiniteSet(Opening \cup {r}) /\ Cardinality(Opening \cup {r}) <= Cardinality(Opening) + 1
        /\ Cardinality(Opening \cup {r}) \in Nat
    <3>1. /\ IsFiniteSet(Opening \cup {r})
          /\ Cardinality(Opening \cup {r}) = IF r \in Opening THEN Cardinality(Opening) ELSE Cardinality(Opening) + 1
      BY <1>2, FS_AddElement
    <3> QED
      BY <1>2, <3>1
  <2>6. Cardinality(Opening') <= Cardinality(Opening \cup {r}) /\ Cardinality(Opening') \in Nat
    BY <2>4, <2>5, FS_Subset, FS_CardinalityType
  <2> QED
    BY <1>1, <1>2, <2>2, <2>3, <2>5, <2>6 DEF TicketInv
<1>6. ASSUME NEW r \in Reqs, OnTickets(r), TicketsStep(r) PROVE TicketInv'
  <2>1. Only(r)
    BY <1>6, TicketsPart DEF Part
  <2>2. CASE InsertTicket(r)
    <3>1. r \in Opening /\ req'[r] = Idle /\ Len(tickets') = Len(tickets) + 1
      BY <2>2, TicketInserted DEF Opening, At, Opened
    <3>2. Opening' = Opening \ {r}
      BY <2>1, <3>1 DEF Opening, At, Only, Idle
    <3>3. Cardinality(Opening') = Cardinality(Opening) - 1
      BY <1>2, <3>1, <3>2, FS_RemoveElement
    <3> QED
      BY <1>1, <1>2, <3>1, <3>3 DEF TicketInv
  <2>3. CASE ~InsertTicket(r)
    <3>1. req'[r].pc # "insert_ticket" /\ Len(tickets') = Len(tickets)
      <4>1. CASE AddMessage(r)
        BY <4>1, TicketAnswered DEF Amended, Idle
      <4>2. CASE ResolveTicket(r)
        BY <4>2, TicketResolved DEF Amended, Idle
      <4>3. CASE Gather(r)
        BY <4>3, PageGathered DEF Gathers
      <4>4. CASE ShowPage(r)
        BY <4>4, Steps DEF ShowPage, Idle
      <4> QED
        BY <1>6, <2>3, <4>1, <4>2, <4>3, <4>4 DEF TicketsStep
    <3>2. Opening' \subseteq Opening
      BY <2>1, <3>1 DEF Opening, At, Only
    <3> QED
      BY <1>3, <3>1, <3>2
  <2> QED
    BY <2>2, <2>3
<1> QED
  BY <1>4, <1>5, <1>6 DEF OnTickets

-----------------------------------------------------------------------------
TypeInv == KeyInv /\ ChatInv /\ TicketInv

LEMMA TypesStart == HInit => TypeInv
<1> SUFFICES ASSUME HInit PROVE TypeInv
  OBVIOUS
<1>1. /\ \A r \in Reqs : req[r] = Idle
      /\ arrived = 0 /\ tickets = <<>> /\ memory = {} /\ shown = Len(chat) /\ chat \in OldMessages
      /\ plans = <<With(DefaultPlan, [singleton_key |-> "default_plan"])>>
  BY DEF HInit, DeskInit, RequestsInit, AssistantInit, PlansInit, BackOfficeInit
<1>2. KeyInv
  <2>1. PICK plan : plan = With(DefaultPlan, [singleton_key |-> "default_plan"])
    OBVIOUS
  <2>2. plans = <<plan>> /\ "singleton_key" \in DOMAIN plan
    BY <1>1, <2>1 DEF With
  <2>3. DOMAIN plans = {1} /\ plans[1] = plan
    BY <2>2
  <2> QED
    BY <2>2, <2>3 DEF KeyInv
<1>3. ChatInv
  <2>1. Len(chat) \in Nat
    BY <1>1, MessagesAssumption
  <2>2. \A r \in Reqs : "upto" \notin DOMAIN req[r] /\ ~At(r, "write_memory")
    BY <1>1 DEF Idle, At
  <2> QED
    BY <1>1, <2>1, <2>2 DEF ChatInv
<1>4. TicketInv
  <2>1. Opening = {}
    BY <1>1 DEF Opening, At, Idle
  <2>2. Cardinality(Opening) = 0
    BY <2>1, FS_EmptySet
  <2> QED
    BY <1>1, <2>2 DEF TicketInv
<1> QED
  BY <1>2, <1>3, <1>4 DEF TypeInv

LEMMA TypesKept == DeskInv /\ OfficeInv /\ TypeInv /\ [HNext]_vars => TypeInv'
<1> SUFFICES ASSUME DeskInv, OfficeInv, TypeInv, [HNext]_vars PROVE TypeInv'
  OBVIOUS
<1>1. DeskInv' /\ OfficeInv'
  BY DeskKept, OfficeKept
<1>2. CASE HNext
  <2>1. DeskNext
    BY <1>2 DEF HNext
  <2>2. /\ PlansLeft \/ \E r \in Reqs : OnPlans(r)
        /\ TicketsLeft \/ \E r \in Reqs : OnTickets(r)
    BY <1>2, OfficeMoves DEF DeskInv, OfficeInv, TicketsShaped
  <2>3. KeyInv'
    BY <2>2, KeysKept DEF DeskInv, TypeInv, PlansLeft, KeyInv
  <2>4. ChatInv'
    <3>1. LocalsReady /\ LocalsReady' /\ CouponsInv /\ PricesInv /\ chat \in Seq(Messages) /\ chat' \in Seq(Messages)
      BY <1>1 DEF DeskInv, MessagesInv
    <3> QED
      BY <2>1, <3>1, ChatInvKept DEF TypeInv
  <2>5. TicketInv'
    <3>1. LocalsReady /\ TicketsShaped /\ TicketsShaped'
      BY <1>1 DEF DeskInv, OfficeInv
    <3> QED
      BY <2>1, <2>2, <3>1, TicketsCounted DEF TypeInv
  <2> QED
    BY <2>3, <2>4, <2>5 DEF TypeInv
<1>3. CASE UNCHANGED vars
  <2>1. UNCHANGED <<req, arrived, plans, chat, memory, shown, tickets>>
    BY <1>3 DEF vars, deskVars, restaurantVars, officeVars, assistantVars, ticketVars
  <2> QED
    BY <2>1 DEF TypeInv, KeyInv, ChatInv, TicketInv, Opening, At
<1> QED
  BY <1>2, <1>3

(* Stock is never negative, an item has its expense beside it, one plan    *)
(* goes without a key, and what is shown, remembered and counted is there, *)
(* whatever is asked at once and whatever does not end                     *)
(* (update_inventory_stock, create_plan, _broadcast_conversation,          *)
(* create_ticket).                                                         *)
THEOREM DeskTyped == HSpec => []TypeOK
<1>1. DeskInv /\ StockInv /\ NoticeInv /\ OfficeInv /\ TypeInv => TypeOK
  <2> SUFFICES ASSUME DeskInv, StockInv, NoticeInv, OfficeInv, TypeInv PROVE TypeOK
    OBVIOUS
  <2>1. ASSUME NEW i \in Kept
        PROVE  items[i].stock_quantity \in 0 .. MaxStock /\ items[i].stock_status \in StockStatuses
    <3>1. items[i] \in Items
      BY <2>1 DEF StockInv, TenantInv, Kept
    <3> QED
      BY <3>1 DEF Items
  <2>2. DOMAIN expenses = DOMAIN items /\ user.notification_settings \in Settings /\ notifications \subseteq Titles
    BY DEF StockInv, TenantInv, NoticeInv, UserInv, PostInv
  <2>3. shown \in 0 .. Len(chat) /\ memory \subseteq DOMAIN chat
    BY DEF TypeInv, ChatInv
  <2>4. Cardinality({i \in DOMAIN plans : plans[i].singleton_key = NULL}) <= 1
    BY OneUnkeyed DEF TypeInv
  <2>5. DOMAIN tickets \subseteq 1 .. arrived
    <3>1. DOMAIN tickets = 1 .. Len(tickets) /\ Len(tickets) \in Nat
      BY DEF OfficeInv, TicketsShaped, TicketsTyped
    <3>2. Cardinality(Opening) \in Nat
      BY ReqsAssumption, FS_Subset, FS_CardinalityType DEF Opening
    <3> QED
      BY <3>1, <3>2 DEF TypeInv, TicketInv
  <2> QED
    BY <2>1, <2>2, <2>3, <2>4, <2>5 DEF TypeOK
<1>2. HInit => OfficeInv /\ TypeInv
  BY OfficeStarts, TypesStart
<1>3. DeskInv /\ OfficeInv /\ TypeInv /\ [HNext]_vars => OfficeInv' /\ TypeInv'
  BY OfficeKept, TypesKept
<1> QED
  BY <1>1, <1>2, <1>3, NoticesHold, PTL DEF HSpec

=============================================================================
