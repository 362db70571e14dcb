---------------------------- MODULE Subscriptions ----------------------------
(***************************************************************************)
(* The subscription of one restaurant user, in services/subscription.py,   *)
(* endpoints/webhooks.py and services/user_management.py: the subscription *)
(* fields of the users document, the rows of user_subscriptions, and the   *)
(* handlers that write both, one await at a time.                          *)
(*                                                                         *)
(* Stripe is outside: it has the true state of the paid subscriptions and  *)
(* reports every change by a webhook event, which it sends again until it  *)
(* is answered, and perhaps late or twice.                                 *)
(***************************************************************************)
EXTENDS Integers, Sequences

CONSTANTS
    Reqs,           \* bound: request slots, the requests served at once
    SubIds,         \* ids of Stripe subscriptions, in the order of creation
    Kinds,          \* bound: the kinds of requests a run works with
    InOrder,        \* whether events arrive in the order they were sent
    Redelivery,     \* whether an answered event may come again
    MaxArrivals,    \* bound: events Stripe sends and requests, redeliveries too
    MaxFailures,    \* bound: requests that fail half way
    NULL

VARIABLES
    user,       \* the subscription fields of the user
    history,    \* the rows of user_subscriptions, in the order of creation
    stripe,     \* the status of each subscription at Stripe
    log,        \* the events Stripe has sent
    answered,   \* the events the webhook has answered
    req,        \* the local state of each request
    requests, failures  \* bounds

state == <<user, history>>
external == <<stripe, log>>
bounds == <<requests, failures>>
vars == <<user, history, stripe, log, answered, req, requests, failures>>

ASSUME SubIdsAssumption == SubIds \subseteq Nat \ {0}
Statuses == {"active", "trial", "unsubscribed", "suspended", "expired", "canceled"}
StripeStatuses == {"trialing", "active", "past_due", "canceled"}
EventTypes == {"checkout", "subscription", "paid", "failed"}

ASSUME NullAssumption == NULL \notin SubIds /\ NULL \notin StripeStatuses

MapStripeStatus(st) ==
    CASE st = "trialing" -> "trial"
      [] st \in {"past_due", "unpaid", "paused", "incomplete"} -> "suspended"
      [] st = "canceled" -> "canceled"
      [] st = "incomplete_expired" -> "expired"
      [] OTHER -> "active"

(* A request: what it does next, the subscription and the status it works  *)
(* with, the row it found and the event it answers (0 for none).           *)
Idle == [pc |-> "idle", sub |-> NULL, status |-> NULL, row |-> 0, event |-> 0]

Init ==
    /\ user = [plan |-> FALSE, status |-> NULL, stripe |-> NULL]
    /\ history = <<>>
    /\ stripe = [s \in SubIds |-> NULL]
    /\ log = <<>>
    /\ answered = {}
    /\ req = [r \in Reqs |-> Idle]
    /\ requests = 0
    /\ failures = 0

At(r, pc) == req[r].pc = pc
Goto(r, pc) == req' = [req EXCEPT ![r].pc = pc]

Start(r, pc, sub, status, n) ==
    req' = [req EXCEPT ![r] = [pc |-> pc, sub |-> sub, status |-> status, row |-> 0, event |-> n]]

Finish(r) ==
    /\ req' = [req EXCEPT ![r] = Idle]
    /\ answered' = answered \cup ({req[r].event} \ {0})

(* Mutant: an event whose handling failed counts as answered.              *)
AbortAnswered(r) == Finish(r)

(* The request ends in an error; its event is not answered.                *)
Abort(r) ==
    /\ req' = [req EXCEPT ![r] = Idle]
    /\ UNCHANGED answered

MayStart(r, kind) ==
    /\ At(r, "idle")
    /\ kind \in Kinds
    /\ requests + Len(log) < MaxArrivals
    /\ requests' = requests + 1
    /\ UNCHANGED <<answered, failures>>

-----------------------------------------------------------------------------
(* user_subscriptions.                                                     *)

Close(row) == [row EXCEPT !.current = FALSE, !.status = "canceled"]

(* Mutant: the current rows are left.                                      *)
CloseCurrentForUserNot == UNCHANGED history

(* close_current_for_user.                                                 *)
CloseCurrentForUser ==
    history' = [n \in DOMAIN history |->
                  IF history[n].current THEN Close(history[n]) ELSE history[n]]

(* Mutant: closed rows are found too.                                      *)
CurrentRowsAny(s) == {n \in DOMAIN history : history[n].stripe = s}

(* get_current_by_stripe_subscription_id: the newest one, 0 if none.       *)
CurrentRows(s) == {n \in DOMAIN history : history[n].current /\ history[n].stripe = s}
CurrentRow(s) ==
    IF CurrentRows(s) = {} THEN 0
    ELSE CHOOSE n \in CurrentRows(s) : \A m \in CurrentRows(s) : m <= n

(* Mutant: the row of a canceled subscription stays the current one.       *)
StripeRowOpen(r) == [stripe |-> req[r].sub, status |-> req[r].status, current |-> TRUE]

(* The row a synchronisation writes: current unless canceled.              *)
StripeRow(r) ==
    [stripe |-> req[r].sub, status |-> req[r].status, current |-> req[r].status # "canceled"]

-----------------------------------------------------------------------------
(* select_user_plan: a plan or a trial of the application's own.           *)
SelectUserPlan(r) ==
    /\ MayStart(r, "select")
    /\ \E status \in {"active", "trial"} : Start(r, "select_close", NULL, status, 0)
    /\ UNCHANGED <<state, external>>

SelectClose(r) ==
    /\ At(r, "select_close")
    /\ CloseCurrentForUser
    /\ Goto(r, "select_user")
    /\ UNCHANGED <<user, external, answered, bounds>>

SelectUpdateUser(r) ==
    /\ At(r, "select_user")
    /\ user' = [user EXCEPT !.plan = TRUE, !.status = req[r].status]
    /\ Goto(r, "select_create")
    /\ UNCHANGED <<history, external, answered, bounds>>

SelectCreate(r) ==
    /\ At(r, "select_create")
    /\ history' = Append(history, [stripe |-> NULL, status |-> req[r].status, current |-> TRUE])
    /\ Finish(r)
    /\ UNCHANGED <<user, external, bounds>>

(* cancel_user_subscription, of the user as authentication has read it.    *)
CancelUserSubscription(r) ==
    /\ MayStart(r, "cancel")
    /\ \/ /\ user.stripe # NULL
          /\ Start(r, "stripe_cancel", user.stripe, "canceled", 0)
       \/ /\ user.stripe = NULL
          /\ user.plan
          /\ user.status # "canceled"
          /\ Start(r, "cancel_user", NULL, NULL, 0)
    /\ UNCHANGED <<state, external>>

(* Stripe cancels it and answers with its new state, or with an error if   *)
(* it was canceled before.                                                 *)
StripeCancel(r) ==
    /\ At(r, "stripe_cancel")
    /\ IF stripe[req[r].sub] = "canceled"
       THEN Abort(r) /\ UNCHANGED external
       ELSE /\ stripe' = [stripe EXCEPT ![req[r].sub] = "canceled"]
            /\ log' = Append(log, [type |-> "subscription", sub |-> req[r].sub,
                                   status |-> "canceled"])
            /\ Goto(r, "sync_user")
            /\ UNCHANGED answered
    /\ UNCHANGED <<state, bounds>>

CancelUpdateUser(r) ==
    /\ At(r, "cancel_user")
    /\ user' = [plan |-> TRUE, status |-> "canceled", stripe |-> NULL]
    /\ Goto(r, "cancel_close")
    /\ UNCHANGED <<history, external, answered, bounds>>

CancelClose(r) ==
    /\ At(r, "cancel_close")
    /\ CloseCurrentForUser
    /\ Finish(r)
    /\ UNCHANGED <<user, external, bounds>>

-----------------------------------------------------------------------------
(* handle_stripe_webhook.  Subscription events are applied as they were    *)
(* when Stripe sent them; those of a checkout or an invoice make the       *)
(* handler ask Stripe for the subscription.                                *)
Receive(r) ==
    /\ At(r, "idle")
    /\ \E n \in DOMAIN log :
          /\ n \in answered => Redelivery /\ requests + Len(log) < MaxArrivals
          /\ requests' = IF n \in answered THEN requests + 1 ELSE requests
          /\ InOrder => \A m \in 1 .. n - 1 : m \in answered
          /\ \A q \in Reqs : req[q].event # n
          /\ CASE log[n].type = "subscription" ->
                    Start(r, "sync_user", log[n].sub, MapStripeStatus(log[n].status), n)
               [] log[n].type = "failed" -> Start(r, "failed_find_user", log[n].sub, NULL, n)
               [] OTHER -> Start(r, "retrieve", log[n].sub, NULL, n)
    /\ UNCHANGED <<state, external, answered, failures>>

Retrieve(r) ==
    /\ At(r, "retrieve")
    /\ Start(r, "sync_user", req[r].sub, MapStripeStatus(stripe[req[r].sub]), req[r].event)
    /\ UNCHANGED <<state, external, answered, bounds>>

(* Mutant: the user does not get the id of the subscription.               *)
SyncUpdateUserNoId(r) ==
    /\ At(r, "sync_user")
    /\ user' = [user EXCEPT !.plan = TRUE, !.status = req[r].status]
    /\ Goto(r, "sync_find")
    /\ UNCHANGED <<history, external, answered, bounds>>

(* _sync_stripe_subscription_object: the user, whom the metadata names,    *)
SyncUpdateUser(r) ==
    /\ At(r, "sync_user")
    /\ user' = [plan |-> TRUE, status |-> req[r].status, stripe |-> req[r].sub]
    /\ Goto(r, "sync_find")
    /\ UNCHANGED <<history, external, answered, bounds>>

(* Mutant: the row is taken for granted.                                   *)
SyncFindAssumed(r) ==
    /\ At(r, "sync_find")
    /\ req' = [req EXCEPT ![r].row = CurrentRow(req[r].sub), ![r].pc = "sync_update"]
    /\ UNCHANGED <<state, external, answered, bounds>>

(* then the current row of the subscription,                               *)
SyncFind(r) ==
    /\ At(r, "sync_find")
    /\ LET n == CurrentRow(req[r].sub)
       IN  req' = [req EXCEPT ![r].row = n, ![r].pc = IF n = 0 THEN "sync_close" ELSE "sync_update"]
    /\ UNCHANGED <<state, external, answered, bounds>>

SyncUpdate(r) ==
    /\ At(r, "sync_update")
    /\ history' = [history EXCEPT ![req[r].row] = StripeRow(r)]
    /\ Finish(r)
    /\ UNCHANGED <<user, external, bounds>>

(* or, without one, a new row in place of the current one.                 *)
SyncClose(r) ==
    /\ At(r, "sync_close")
    /\ CloseCurrentForUser
    /\ Goto(r, "sync_create")
    /\ UNCHANGED <<user, external, answered, bounds>>

SyncCreate(r) ==
    /\ At(r, "sync_create")
    /\ history' = Append(history, StripeRow(r))
    /\ Finish(r)
    /\ UNCHANGED <<user, external, bounds>>

(* _mark_failed_subscription: the user who has the subscription,           *)
FailedFindUser(r) ==
    /\ At(r, "failed_find_user")
    /\ Goto(r, IF user.stripe = req[r].sub THEN "failed_user" ELSE "failed_find")
    /\ UNCHANGED <<state, external, answered, bounds>>

FailedUpdateUser(r) ==
    /\ At(r, "failed_user")
    /\ user' = [user EXCEPT !.status = "suspended"]
    /\ Goto(r, "failed_find")
    /\ UNCHANGED <<history, external, answered, bounds>>

(* then its current row, if there is one.                                  *)
FailedFind(r) ==
    /\ At(r, "failed_find")
    /\ LET n == CurrentRow(req[r].sub)
       IN  IF n = 0
           THEN Finish(r)
           ELSE /\ req' = [req EXCEPT ![r].row = n, ![r].pc = "failed_update"]
                /\ UNCHANGED answered
    /\ UNCHANGED <<state, external, bounds>>

FailedUpdate(r) ==
    /\ At(r, "failed_update")
    /\ history' = [history EXCEPT ![req[r].row].status = "suspended"]
    /\ Finish(r)
    /\ UNCHANGED <<user, external, bounds>>

-----------------------------------------------------------------------------
(* handle_revenuecat_webhook: one write of the user, whatever the history. *)
RevenueCat(r) ==
    /\ MayStart(r, "revenuecat")
    /\ \/ user' = [user EXCEPT !.plan = TRUE, !.status = "active"]
       \/ \E status \in {"expired", "canceled", "suspended"} :
             user' = [user EXCEPT !.status = status]
    /\ UNCHANGED <<history, external, req>>

(* update_user.                                                            *)
AdminUpdateUser(r) ==
    /\ MayStart(r, "admin")
    /\ \E status \in Statuses : user' = [user EXCEPT !.status = status]
    /\ UNCHANGED <<history, external, req>>

(* activate_user writes back the status it has read, or "active" for       *)
(* "suspended".                                                            *)
ActivateUser(r) ==
    /\ MayStart(r, "admin")
    /\ Start(r, "activate", NULL, IF user.status = "suspended" THEN "active" ELSE user.status, 0)
    /\ UNCHANGED <<state, external>>

Activate(r) ==
    /\ At(r, "activate")
    /\ user' = [user EXCEPT !.status = req[r].status]
    /\ Finish(r)
    /\ UNCHANGED <<history, external, bounds>>

-----------------------------------------------------------------------------
(* A request fails between two awaits, or the process stops.               *)
Fail(r) ==
    /\ ~At(r, "idle")
    /\ failures < MaxFailures
    /\ failures' = failures + 1
    /\ Abort(r)
    /\ UNCHANGED <<state, external, requests>>

(* Stripe.  A user who has no live subscription completes a checkout,      *)
Send(events) ==
    /\ requests + Len(log) + Len(events) <= MaxArrivals
    /\ log' = log \o events
    /\ UNCHANGED <<state, answered, req, bounds>>

Event(type, s, st) == [type |-> type, sub |-> s, status |-> st]

Subscribe(s) ==
    /\ stripe[s] = NULL
    /\ \A t \in SubIds : IF t < s THEN stripe[t] = "canceled" ELSE stripe[t] = NULL
    /\ \E st \in {"trialing", "active"} :
          /\ stripe' = [stripe EXCEPT ![s] = st]
          /\ Send(<<Event("checkout", s, st), Event("subscription", s, st)>>)

(* a live subscription is renewed, fails to be, is paid after all, or ends.*)
Renew(s) ==
    /\ stripe[s] \in {"trialing", "active"}
    /\ stripe' = [stripe EXCEPT ![s] = "active"]
    /\ Send(<<Event("subscription", s, "active"), Event("paid", s, "active")>>)

PaymentFails(s) ==
    /\ stripe[s] \in {"trialing", "active"}
    /\ stripe' = [stripe EXCEPT ![s] = "past_due"]
    /\ Send(<<Event("subscription", s, "past_due"), Event("failed", s, "past_due")>>)

Recover(s) ==
    /\ stripe[s] = "past_due"
    /\ stripe' = [stripe EXCEPT ![s] = "active"]
    /\ Send(<<Event("subscription", s, "active"), Event("paid", s, "active")>>)

End(s) ==
    /\ stripe[s] \notin {NULL, "canceled"}
    /\ stripe' = [stripe EXCEPT ![s] = "canceled"]
    /\ Send(<<Event("subscription", s, "canceled")>>)

Stripe(s) == Subscribe(s) \/ Renew(s) \/ PaymentFails(s) \/ Recover(s) \/ End(s)

-----------------------------------------------------------------------------
Step(r) ==
    \/ SelectClose(r) \/ SelectUpdateUser(r) \/ SelectCreate(r)
    \/ StripeCancel(r) \/ CancelUpdateUser(r) \/ CancelClose(r)
    \/ Retrieve(r)
    \/ SyncUpdateUser(r) \/ SyncFind(r) \/ SyncUpdate(r) \/ SyncClose(r) \/ SyncCreate(r)
    \/ FailedFindUser(r) \/ FailedUpdateUser(r) \/ FailedFind(r) \/ FailedUpdate(r)
    \/ Activate(r)

Arrive(r) ==
    \/ SelectUserPlan(r) \/ CancelUserSubscription(r)
    \/ RevenueCat(r) \/ AdminUpdateUser(r) \/ ActivateUser(r)

Next ==
    \/ \E r \in Reqs : Arrive(r) \/ Receive(r) \/ Step(r) \/ Fail(r)
    \/ "stripe" \in Kinds /\ \E s \in SubIds : Stripe(s)

(* A request that was accepted runs on, and Stripe sends an event until it *)
(* is answered.                                                            *)
Fairness == \A r \in Reqs : WF_vars(Step(r)) /\ WF_vars(Receive(r))

Spec == Init /\ [][Next]_vars
=============================================================================
