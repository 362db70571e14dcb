-------------------------------- MODULE Desk --------------------------------
(***************************************************************************)
(* A restaurant and the administrators at work: its inventory and names,   *)
(* the phones and settings of its user, analytics, the chat, the insight   *)
(* of the day and the checkout; their plans, coupons, settings and         *)
(* tickets; all served concurrently by one process.  Only requests of the  *)
(* kinds of topic arrive, which bounds what is put together.               *)
(***************************************************************************)
EXTENDS Inventory, Assistant, Coupons, BackOffice

CONSTANT Topics     \* bounds: [kinds, requests], the kinds of requests and their number

VARIABLE topic

restaurantVars == <<namesVars, inventoryVars, noticeVars, assistantVars>>
officeVars == <<plans, couponVars, checkoutVars, settingsVars, ticketVars>>
deskVars == <<req, arrived, topic, restaurantVars, generationVars, officeVars>>

DeskInit ==
    /\ topic \in Topics
    /\ RequestsInit /\ NamesInit /\ InventoryInit
    /\ NoticesInit /\ GenerationsInit /\ AssistantInit
    /\ PlansInit /\ CouponsInit /\ BackOfficeInit
    /\ coupons # <<>> => "coupons" \in topic.kinds
    /\ settings # <<>> => "settings" \in topic.kinds
    /\ chat # <<>> => "chat" \in topic.kinds

ArriveAtRestaurant(r) ==
    \/ /\ "names" \in topic.kinds
       /\ NamesArrive(r)
       /\ UNCHANGED <<inventoryVars, noticeVars, assistantVars>>
    \/ /\ "stock" \in topic.kinds
       /\ InventoryArrive(r)
       /\ UNCHANGED <<namesVars, noticeVars, assistantVars>>
    \/ /\ \/ "devices" \in topic.kinds /\ DevicesArrive(r)
          \/ "alerts" \in topic.kinds /\ BeginAnalytics(r)
       /\ UNCHANGED <<namesVars, inventoryVars, assistantVars>>
    \/ /\ \/ "chat" \in topic.kinds /\ ChatArrive(r)
          \/ "insights" \in topic.kinds /\ BeginInsight(r)
       /\ UNCHANGED <<namesVars, inventoryVars, noticeVars>>

ArriveAtOffice(r) ==
    \/ "plans" \in topic.kinds /\ PlansArrive(r)    /\ UNCHANGED <<couponVars, checkoutVars, settingsVars, ticketVars>>
    \/ "coupons" \in topic.kinds /\ CouponsArrive(r) /\ UNCHANGED <<plans, checkoutVars, settingsVars, ticketVars>>
    \/ "checkout" \in topic.kinds /\ BeginCheckout(r) /\ UNCHANGED <<plans, couponVars, settingsVars, ticketVars>>
    \/ "settings" \in topic.kinds /\ SettingsArrive(r) /\ UNCHANGED <<plans, couponVars, checkoutVars, ticketVars>>
    \/ "tickets" \in topic.kinds /\ TicketsArrive(r) /\ UNCHANGED <<plans, couponVars, checkoutVars, settingsVars>>

Arrive(r) ==
    /\ arrived < topic.requests
    /\ \/ ArriveAtRestaurant(r) /\ UNCHANGED officeVars
       \/ ArriveAtOffice(r) /\ UNCHANGED restaurantVars
    /\ UNCHANGED <<generationVars, topic>>

RestaurantStep(r) ==
    \/ /\ NamesStep(r)
       /\ UNCHANGED <<inventoryVars, noticeVars, generationVars, assistantVars>>
    \/ /\ InventoryStep(r)
       /\ UNCHANGED <<namesVars, noticeVars, generationVars, assistantVars>>
    \/ /\ InventoryPush(r)
       /\ UNCHANGED <<namesVars, generationVars, assistantVars>>
    \/ /\ DevicesStep(r) \/ AlertsStep(r)
       /\ UNCHANGED <<namesVars, inventoryVars, generationVars, assistantVars>>
    \/ /\ ChatStep(r) \/ InsightStep(r)
       /\ UNCHANGED <<namesVars, inventoryVars, noticeVars, generationVars>>
    \/ /\ Ask(r) \/ Wake(r)
       /\ UNCHANGED restaurantVars

OfficeStep(r) ==
    \/ PlansStep(r)    /\ UNCHANGED <<couponVars, checkoutVars, settingsVars, ticketVars>>
    \/ CouponsStep(r)  /\ UNCHANGED <<plans, checkoutVars, settingsVars, ticketVars>>
    \/ CheckoutStep(r) /\ UNCHANGED <<plans, couponVars, settingsVars, ticketVars>>
    \/ SettingsStep(r) /\ UNCHANGED <<plans, couponVars, checkoutVars, ticketVars>>
    \/ TicketsStep(r)  /\ UNCHANGED <<plans, couponVars, checkoutVars, settingsVars>>

Step(r) ==
    /\ \/ RestaurantStep(r) /\ UNCHANGED officeVars
       \/ OfficeStep(r) /\ UNCHANGED <<restaurantVars, generationVars>>
    /\ UNCHANGED <<arrived, topic>>

(* An await raises, or the process stops there: the handler goes no        *)
(* further.  The tasks of generations have CancelAwait.                    *)
Stop(r) ==
    /\ Failures
    /\ r \in InFlight
    /\ req[r].pc \notin {"await_text", "wake"}
    /\ Raised(r)
    /\ UNCHANGED <<arrived, topic, restaurantVars, generationVars, officeVars>>

deskButGenerations == <<arrived, topic, restaurantVars, officeVars>>

ModelAnswers(k) == Generate(k) /\ UNCHANGED deskButGenerations
GenerationLost ==
    /\ (\E k \in Keys : Expire(k)) \/ (\E r \in Reqs : CancelAwait(r))
    /\ UNCHANGED deskButGenerations

DeskNext ==
    \/ \E r \in Reqs : Arrive(r) \/ Step(r) \/ Stop(r)
    \/ \E k \in Keys : ModelAnswers(k)
    \/ GenerationLost
=============================================================================
