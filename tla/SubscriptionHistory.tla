-------------------------- MODULE SubscriptionHistory --------------------------
(***************************************************************************)
(* What has happened to the subscription.  Nothing in the code orders the  *)
(* requests and events of a user: what they read may be out of date when   *)
(* they write.  The properties say of which writes that is so, and that    *)
(* nothing else leaves two current rows, changes a closed one, or lets the *)
(* user and the history differ from Stripe's subscription for good.        *)
(***************************************************************************)
EXTENDS SubscriptionProps

VARIABLES
    outdated,   \* requests since whose look at the history it has changed
    spoilt,     \* whether one of them has left a row beside the current one
    own,        \* the event of the cancellation a request has itself made
    mixed,      \* synchronisations since whose write of the user another wrote
    drifted     \* whether user and history may differ from Stripe's

hvars == <<vars, outdated, spoilt, own, mixed, drifted>>

(* A row is created after the current ones were closed, and updated after  *)
(* it was found.                                                           *)
Relying == {"select_user", "select_create", "sync_create", "sync_update", "failed_update"}

(* The user is written, the history not yet.                               *)
HalfDone == {"sync_find", "sync_update", "sync_close", "sync_create"}

(* The requests at pcs that something changed for behind their back.       *)
Behind(set, pcs, changed) ==
    {r \in Reqs : /\ req[r].pc \in pcs /\ req'[r].pc \in pcs
                  /\ r \in set \/ (req'[r] = req[r] /\ changed)}

(* The event that says what a request is about to write, 0 if what it      *)
(* writes does not come from Stripe; whether that event, and whether one   *)
(* that Stripe sent later, was applied before.                             *)
News(r) == IF req[r].event # 0 THEN req[r].event ELSE own[r]
Overtaken(r) == \E n \in answered : n >= News(r)
Late(r) == \E n \in answered : n > News(r)

(* Somebody writes whom Stripe did not tell to, or not first of all.       *)
Drifts == state' # state /\ \A r \in Reqs : req'[r] # req[r] => Overtaken(r)

Synchronised(r) == SyncUpdate(r) \/ SyncCreate(r)

HInit ==
    /\ Init
    /\ outdated = {}
    /\ spoilt = FALSE
    /\ own = [r \in Reqs |-> 0]
    /\ mixed = {}
    /\ drifted = FALSE

HNext ==
    /\ Next
    /\ outdated' = Behind(outdated, Relying, history' # history)
    /\ spoilt' = (/\ Current' # {}
                  /\ \/ spoilt
                     \/ \E r \in outdated : SelectCreate(r) \/ Synchronised(r))
    /\ own' = [r \in Reqs |-> IF At(r, "stripe_cancel") /\ At(r, "sync_user")' THEN Len(log')
                              ELSE IF At(r, "idle")' THEN 0 ELSE own[r]]
    /\ mixed' = Behind(mixed, HalfDone, state' # state)
    /\ drifted' = IF \E r \in Reqs : Synchronised(r)
                  THEN spoilt \/ \E r \in Reqs : Synchronised(r) /\ (Late(r) \/ r \in mixed)
                  ELSE drifted \/ Drifts

HSpec == HInit /\ [][HNext]_hvars

FairHSpec == HSpec /\ Fairness

-----------------------------------------------------------------------------
(* A user has at most one current row of subscription history: selecting a *)
(* plan, canceling, and whatever Stripe reports, in any order and twice,   *)
(* close the old row before they create one, even if they fail half way.   *)
(* Only requests whose look at the history was out of date leave two, and  *)
(* no longer than until the next that closes the current rows.             *)
AtMostOneCurrent == spoilt \/ \A m, n \in Current : m = n

(* "Immutable subscription history records": a row that has been closed    *)
(* never changes, and no row is removed.  Only a request that found the    *)
(* row current, before another closed it, still writes it.                 *)
ClosedRowsStay ==
    [][\A n \in DOMAIN history :
         ~history[n].current =>
            /\ n \in DOMAIN history'
            /\ \/ history'[n] = history[n]
               \/ \E r \in outdated : req[r].row = n /\ (SyncUpdate(r) \/ FailedUpdate(r))]_hvars

(* Whatever else has happened, once a synchronisation with Stripe's newest *)
(* news has run from its first write to its last with no other write in    *)
(* between, user and history are what Stripe says whenever all events are  *)
(* answered.  They stay so, whatever fails on the way, until somebody else *)
(* writes or an event is applied too late or again.                        *)
FollowsUnlessDrifted == Settled => FollowsLatest \/ drifted
=============================================================================
