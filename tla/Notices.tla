------------------------------- MODULE Notices -------------------------------
(***************************************************************************)
(* The phones and notification settings in the record of a restaurant's    *)
(* user, the pushes sent to those phones, and the analytics screen, which  *)
(* stores and pushes the alerts a language model writes.                   *)
(*                                                                         *)
(* get_current_user reads the record when a request arrives; everything    *)
(* the request later does with phones and settings uses that copy.         *)
(***************************************************************************)
EXTENDS Generations

CONSTANTS
    Devices,    \* the phones' ids
    Tokens,     \* their push tokens
    OldDevices, \* the phones registered before, in order
    Languages,  \* the keys of the alerts: their own language first
    Titles      \* of alerts; a text of an alert key is a sequence of titles

Phones == [device_id: Devices, token: Tokens]

ASSUME LanguagesAssumption == {Languages[1], Languages[2]} \subseteq Keys

(* A model that names no alert is not listened to, and the fallback names  *)
(* one; the pushes about items have subjects of their own.                 *)
ASSUME TitlesAssumption ==
    /\ Texts \subseteq Seq(Titles) \ {<<>>}
    /\ Titles \cap {"new_item", "low_stock"} = {}

(* The phones registered before were registered as below.                  *)
ASSUME PhonesAssumption ==
    /\ OldDevices \in Seq(Phones)
    /\ \A i, j \in DOMAIN OldDevices :
          (OldDevices[i].device_id = OldDevices[j].device_id \/ OldDevices[i].token = OldDevices[j].token) => i = j

VARIABLES
    user,           \* [push_devices, notification_settings] in the user's record
    notifications,  \* the dedupe keys of restaurant_notifications
    posted          \* what was sent to Expo, in order: [subject, to]

noticeVars == <<user, notifications, posted>>

Settings == [push_notifications: BOOLEAN, low_stock_alerts: BOOLEAN]

NoticesInit ==
    /\ user = [push_devices |-> OldDevices,
               notification_settings |-> [push_notifications |-> TRUE, low_stock_alerts |-> TRUE]]
    /\ notifications = {}
    /\ posted = <<>>

-----------------------------------------------------------------------------
(* Phones and settings: each handler writes the whole list, or the whole   *)
(* settings, computed from its copy.                                       *)

(* The list but for the phones that are gone, phone by phone.              *)
Without(list, gone) ==
    LET kept[n \in 0 .. Len(list)] ==
          IF n = 0 THEN <<>>
          ELSE IF list[n] \in gone THEN kept[n - 1] ELSE Append(kept[n - 1], list[n])
    IN  kept[Len(list)]

(* The list with phone d; an entry with its id or its token gives way.     *)
Registered(list, d) ==
    Append(Without(list, {e \in Phones : e.device_id = d.device_id \/ e.token = d.token}), d)

Unregistered(list, id) == Without(list, {e \in Phones : e.device_id = id})

BeginRegister(r, d) ==
    /\ Begin(r, [pc |-> "write_devices", on |-> TRUE, device |-> d,
                 list |-> Registered(user.push_devices, d)])
    /\ UNCHANGED noticeVars

BeginUnregister(r, id) ==
    /\ Begin(r, [pc |-> "write_devices", on |-> FALSE, device |-> id,
                 list |-> Unregistered(user.push_devices, id)])
    /\ UNCHANGED noticeVars

WriteDevices(r) ==
    /\ At(r, "write_devices")
    /\ user' = [user EXCEPT !.push_devices = req[r].list]
    /\ Done(r)
    /\ UNCHANGED <<notifications, posted>>

(* The fields given replace those of the copy.                             *)
BeginSettings(r, field, on) ==
    /\ Begin(r, [pc |-> "write_settings", field |-> field, on |-> on,
                 user |-> [user EXCEPT !.notification_settings[field] = on]])
    /\ UNCHANGED noticeVars

(* Mutant: the whole copy of the user is written.                          *)
WriteSettingsWithCopy(r) ==
    /\ At(r, "write_settings")
    /\ user' = req[r].user
    /\ Done(r)
    /\ UNCHANGED <<notifications, posted>>

WriteSettings(r) ==
    /\ At(r, "write_settings")
    /\ user' = [user EXCEPT !.notification_settings = req[r].user.notification_settings]
    /\ Done(r)
    /\ UNCHANGED <<notifications, posted>>

-----------------------------------------------------------------------------
(* _send_push_notification, for request r that carries its copy of the     *)
(* user.  Whatever goes wrong is logged and forgotten.                     *)

Wanted(u, lowStock) ==
    /\ u.notification_settings.push_notifications
    /\ lowStock => u.notification_settings.low_stock_alerts
    /\ u.push_devices # <<>>

Push(u, subject, lowStock) ==
    posted' = IF Wanted(u, lowStock) THEN Append(posted, [subject |-> subject, to |-> u.push_devices])
              ELSE posted

-----------------------------------------------------------------------------
(* The analytics screen: _build_revenue_monitoring_alerts asks for the     *)
(* alerts in both languages and keeps those of the user's own;             *)
(* _store_revenue_monitoring_alert_notifications stores and pushes them.   *)

BeginAnalytics(r) ==
    /\ Begin(r, [pc |-> "ask", key |-> Languages[1], next |-> "ask_other",
                 text |-> NULL, leader |-> NULL, alerts |-> <<>>, user |-> user])
    /\ UNCHANGED noticeVars

AskOther(r) ==
    /\ At(r, "ask_other")
    /\ Keep(r, Asking([req[r] EXCEPT !.alerts = req[r].text], Languages[2], "find_alert"))
    /\ UNCHANGED noticeVars

NextAlert(r) ==
    LET rest == Tail(req[r].alerts) IN
    Keep(r, IF rest = <<>> THEN Idle ELSE [req[r] EXCEPT !.pc = "find_alert", !.alerts = rest])

(* create_if_absent: find_one,                                             *)
FindAlert(r) ==
    /\ At(r, "find_alert")
    /\ IF Head(req[r].alerts) \in notifications THEN NextAlert(r) ELSE Goto(r, "insert_alert")
    /\ UNCHANGED noticeVars

(* then insert_one; a duplicate key ends the whole request with an error.  *)
InsertAlert(r) ==
    LET title == Head(req[r].alerts) IN
    /\ At(r, "insert_alert")
    /\ IF title \in notifications THEN Raised(r) ELSE Goto(r, "push_alert")
    /\ notifications' = notifications \cup {title}
    /\ UNCHANGED <<user, posted>>

(* Only the request that created the notification pushes it.               *)
PushAlert(r) ==
    /\ At(r, "push_alert")
    /\ Push(req[r].user, Head(req[r].alerts), FALSE)
    /\ NextAlert(r)
    /\ UNCHANGED <<user, notifications>>

DevicesArrive(r) ==
    \/ \E d \in Phones : BeginRegister(r, d)
    \/ \E id \in Devices : BeginUnregister(r, id)
    \/ \E field \in DOMAIN user.notification_settings, on \in BOOLEAN : BeginSettings(r, field, on)

DevicesStep(r) == WriteDevices(r) \/ WriteSettings(r)
AlertsStep(r) == AskOther(r) \/ FindAlert(r) \/ InsertAlert(r) \/ PushAlert(r)
=============================================================================
