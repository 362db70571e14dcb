----------------------------- MODULE OfficeProps -----------------------------
(***************************************************************************)
(* The properties of the administrators' side of the desk: plans, coupons, *)
(* checkout, settings and tickets.                                         *)
(***************************************************************************)
EXTENDS DeskHistory

CONSTANT SubscribedTo   \* the name of the default plan when a user subscribed to it

(* The best plan is the one last marked so, and no other: unless two       *)
(* requests changed plans at once, or one took the flag from the best plan *)
(* and then failed to give it to another, as the second plan created does. *)
(* A default plan that the settings call best may keep the flag as well: a *)
(* start gives it back after a request cleared it for another plan.        *)
BestPlanAsAsked ==
    (Quiet(<<"plans", 0>>) /\ <<"plans", 0>> \notin mixed \cup stopped) =>
       \/ Flagged = ordered.best
       \/ DefaultPlan.best /\ Flagged = ordered.best \cup {1}

(* Two plans have the same name only if two requests named them at once,   *)
(* or a start gave the default plan its old name back.                     *)
PlanNamesDiffer ==
    <<"plans", 0>> \notin mixed =>
       \A i, j \in DOMAIN plans :
          LowerCase[plans[i].name] = LowerCase[plans[j].name] =>
             i = j \/ (1 \in {i, j} /\ plans[1].name = DefaultPlan.name)

(* A user of the default plan is counted with its price by the overview    *)
(* and the dashboard alike while the plan is on offer under its name or is *)
(* alone; unless another plan has taken the name.                          *)
SubscriberCounted ==
    LET namesakes == {i \in Active : plans[i].name = SubscribedTo} IN
    (1 \in Active /\ (namesakes = {1} \/ Active = {1})) =>
       /\ OverviewRevenue(SubscribedTo) = plans[1].price
       /\ DashboardRevenue(SubscribedTo) = plans[1].price

(* What the administrators want of the plans, they get, and subscribers    *)
(* are counted by it, whichever requests and starts come between.          *)
PlansAsAsked == BestPlanAsAsked /\ PlanNamesDiffer /\ SubscriberCounted

(* A code finds one coupon, however coupons are created at once.           *)
CodesDiffer == \A i, j \in Redeemable : coupons[i].code = coupons[j].code => i = j

(* Nobody is quoted a price below zero or above that of the plan.          *)
QuotesInRange == \A r \in Reqs : At(r, "quote") => req[r].quote.final \in 0 .. req[r].quote.original

(* A coupon whose expiry is stored as a date is not redeemed once expired: *)
(* except if another request ran between the mark and the look-up.         *)
DatedCouponsExpire ==
    \A r \in Reqs \ met : At(r, "quote") =>
       ~(coupons[req[r].from].dated /\ coupons[req[r].from].expires = "past")

(* No coupon is redeemed once expired, if nothing else ran meanwhile.      *)
CouponsExpire ==
    \A r \in Reqs \ met : At(r, "quote") => coupons[req[r].from].expires # "past"

(* A user's checkouts are those of one Stripe customer, the one the        *)
(* platform knows, unless two first checkouts overlapped or one failed     *)
(* between Stripe and the database.                                        *)
OneCustomer ==
    <<"customer", 0>> \notin mixed \cup stopped =>
       /\ stripe.customers <= 1
       /\ stripe.sessions \subseteq {customer}

(* A code means one coupon and no price leaves its range, whatever an      *)
(* administrator enters; and a user is one customer of Stripe.             *)
CheckoutSound == CodesDiffer /\ QuotesInRange /\ DatedCouponsExpire /\ OneCustomer

(* What is shown for a content: an old one is brought up to date first.    *)
Current(content) == IF content = "legacy" THEN "default" ELSE content

(* Settings and legal documents are as last saved.  Editors of the two     *)
(* documents at once can undo each other, and so can a mere reader who     *)
(* brings old ones up to date; two who create the settings can lose all.   *)
SettingsAsSaved ==
    (settings # <<>> /\ <<"settings", "created">> \notin mixed) =>
       /\ settings[1].general = ordered.general
       /\ <<"settings", "legal">> \notin mixed =>
             \A k \in LegalDocuments : Current(settings[1].legal[k]) = Current(ordered.legal[k])

(* Every reply stays in its ticket, whoever else replies or resolves.      *)
RepliesKept ==
    /\ Len(ordered.replies) = Len(tickets)
    /\ \A t \in DOMAIN tickets : Len(tickets[t].messages) = 1 + ordered.replies[t]

(* The counters of the management page add up to its tickets, unless other *)
(* requests ran while it was read.                                         *)
TicketsAddUp ==
    \A r \in Reqs \ met : At(r, "show_page") =>
       req[r].page.open + req[r].page.resolved = req[r].page.total

(* Nothing an administrator has saved or answered is lost to another who   *)
(* does something else, and the pages show it all.                         *)
OfficeAsAsked == SettingsAsSaved /\ RepliesKept /\ TicketsAddUp
=============================================================================
