-------------------------- MODULE SubscriptionProps --------------------------
(***************************************************************************)
(* What the subscription of a user promises.                               *)
(***************************************************************************)
EXTENDS Subscriptions

Current == {n \in DOMAIN history : history[n].current}

Selecting == {"select_close", "select_user", "select_create"}
Syncing == {"sync_user", "sync_find", "sync_update", "sync_close", "sync_create"}
Failing == {"failed_find_user", "failed_user", "failed_find", "failed_update"}
PCs == Selecting \cup Syncing \cup Failing
         \cup {"idle", "stripe_cancel", "cancel_user", "cancel_close", "retrieve", "activate"}

Users == [plan: BOOLEAN, status: Statuses \cup {NULL}, stripe: SubIds \cup {NULL}]
Rows == [stripe: SubIds \cup {NULL}, status: Statuses, current: BOOLEAN]
Events == [type: EventTypes, sub: SubIds, status: StripeStatuses]
Locals == [pc: PCs, sub: SubIds \cup {NULL}, status: Statuses \cup {NULL}, row: Nat, event: Nat]

(* What a handler needs for its next await it has by then.                 *)
Prepared(r) ==
    /\ req[r].pc \in Syncing \cup Failing \cup {"retrieve", "stripe_cancel"} => req[r].sub \in SubIds
    /\ req[r].pc \in Syncing \cup Selecting \cup {"stripe_cancel"} => req[r].status \in Statuses
    /\ req[r].pc \in {"sync_update", "failed_update"} => req[r].row \in DOMAIN history
    /\ req[r].event \in {0} \cup DOMAIN log

(* Every user, row, event and request has its shape, and a handler that    *)
(* updates a row has found one.                                            *)
TypeOK ==
    /\ user \in Users
    /\ history \in Seq(Rows)
    /\ stripe \in [SubIds -> StripeStatuses \cup {NULL}]
    /\ log \in Seq(Events)
    /\ req \in [Reqs -> Locals]
    /\ \A r \in Reqs : Prepared(r)

(* Everything Stripe sent is answered and no request is in flight.         *)
Settled ==
    /\ \A r \in Reqs : At(r, "idle")
    /\ answered = DOMAIN log

(* The user and the history show the latest Stripe subscription s.         *)
Follows(s) ==
    /\ user.plan
    /\ user.stripe = s
    /\ user.status = MapStripeStatus(stripe[s])
    /\ IF stripe[s] = "canceled" THEN Current = {}
       ELSE \E n \in Current : Current = {n} /\ history[n].stripe = s
                                             /\ history[n].status = user.status

FollowsLatest ==
    \A s \in SubIds : stripe[s] # NULL /\ (\A t \in SubIds : t > s => stripe[t] = NULL) => Follows(s)

(* Once Stripe's events are answered, the subscription is what Stripe says *)
(* of the latest one: applying old payloads, asking Stripe for newer ones, *)
(* a cancellation by the user in between and deliveries after a failure    *)
(* end in the right state.                                                 *)
SettledFollowsStripe == Settled => FollowsLatest

(* It gets there: when Stripe has no more to report, user and history      *)
(* become and stay what Stripe says.                                       *)
ConvergesToStripe == <>[]FollowsLatest
=============================================================================
