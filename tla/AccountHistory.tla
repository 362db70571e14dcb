---------------------------- MODULE AccountHistory ----------------------------
(***************************************************************************)
(* What has happened to the accounts, and the properties.  Requests that   *)
(* run at once do disturb each other, and nothing in the code orders them: *)
(* the properties say which of them, and that nothing else goes wrong.     *)
(***************************************************************************)
EXTENDS Accounts

VARIABLES
    crossed,    \* <<address, purpose>> of codes issued by requests at once
    shared,     \* codes that two requests have held at once
    said,       \* the status billing or an update last gave each user
    overtaken,  \* requests that hold a status read before it was given
    unsaid      \* users whose status was since set otherwise, not given

hvars == <<vars, crossed, shared, said, overtaken, unsaid>>

Busy(pcs) == {r \in Reqs : req[r].pc \in pcs}

HInit ==
    /\ Init
    /\ crossed = {}
    /\ shared = {}
    /\ said = [u \in Users |-> NULL]
    /\ overtaken = {}
    /\ unsaid = {}

(* A status is given by billing, or by an administrator in so many words.  *)
Says(u) ==
    /\ users'[u] # users[u]
    /\ \/ ChangeSubscription
       \/ \E r \in Reqs : UpdateWrite(r) /\ req[r].user = u /\ "status" \in DOMAIN req[r].change

(* Registrations and activations write back the status they have read.     *)
Holds(r, u) == req[r].pc \in {"register", "activate"} /\ req[r].user = u

(* One does harm if the status was given anew meanwhile, and an activation *)
(* of a suspended subscription is meant to change it.                      *)
TakesBack(r, u) ==
    /\ req[r].user = u
    /\ \/ RegisterUpdate(r) /\ r \in overtaken
       \/ ActivateWrite(r) /\ (r \in overtaken \/ req[r].row.status = "suspended")

HNext ==
    /\ Next
    /\ crossed' = crossed \cup
         {<<req[r].email, req[r].purpose>> : r \in
             {r \in Busy({"issue_create"}) : \E q \in Busy({"issue_create"}) \ {r} :
                 /\ req[q].email = req[r].email
                 /\ req[q].purpose = req[r].purpose}}
    /\ shared' = shared \cup
         {req[r].code : r \in {r \in Busy({"consume"}) :
             \E q \in Busy({"consume"}) \ {r} : req[q].code = req[r].code}}
    /\ said' = [u \in Users |-> IF Says(u) THEN users'[u].status ELSE said[u]]
    /\ overtaken' = {r \in Reqs : \E u \in Existing :
                        Holds(r, u) /\ Holds(r, u)' /\ (r \in overtaken \/ Says(u))}
    /\ unsaid' = {u \in Existing : ~Says(u) /\ (u \in unsaid \/ \E r \in Reqs : TakesBack(r, u))}

HSpec == HInit /\ [][HNext]_hvars

-----------------------------------------------------------------------------
(* Type invariant.  An address belongs to one user.                        *)
TypeOK ==
    /\ users \in [Users -> Rows \cup {NULL}]
    /\ \A u, w \in Existing : users[u].email = users[w].email => u = w
    /\ \A n \in DOMAIN codes :
          codes[n] \in [email : Emails, purpose : Purposes, user : Existing, value : Values,
                        open : BOOLEAN, uses : Nat]
    /\ profiles \subseteq Existing
    /\ \A r \in Reqs :
          /\ req[r].user \in Existing \cup {NULL}
          /\ req[r].row \in Rows \cup {NULL}
          /\ req[r].code \in DOMAIN codes \cup {0}

(* A new code closes those before it: of an address and a purpose there is *)
(* one open code, if no two requests have issued one at the same time.     *)
OneOpenCode ==
    \A m, n \in DOMAIN codes :
       (/\ m # n
        /\ codes[m].open /\ codes[n].open
        /\ codes[m].email = codes[n].email
        /\ codes[m].purpose = codes[n].purpose)
          => <<codes[m].email, codes[m].purpose>> \in crossed

(* A code serves one request only, if no two requests held it at once.     *)
CodesServeOnce == \A n \in DOMAIN codes : codes[n].uses <= 1 \/ n \in shared

(* A code serves the purpose and the address it was mailed for, and the    *)
(* user, or one of the two users has another address by now.               *)
ServesItsUser(r) ==
    LET code == codes[req[r].code]
    IN /\ code.email = req[r].email
       /\ code.purpose = req[r].purpose
       /\ \/ code.user = req[r].user
          \/ \E u \in {code.user, req[r].user} : users[u].email # code.email

(* Codes are of use to one user, once, and only the newest is: verify and  *)
(* reset find a code and consume it later, and issuing one closes others.  *)
CodesAreSound ==
    [][/\ \A r \in Reqs : ConsumeCode(r) => ServesItsUser(r)
       /\ OneOpenCode' /\ CodesServeOnce']_hvars

(* A verification is taken back by an administrator who says so, or by a   *)
(* registration that began before the verification.                        *)
VerifiedStays ==
    \A u \in Existing :
       (users[u].verified /\ ~users'[u].verified)
          => \E r \in Reqs :
                /\ req[r].user = u
                /\ \/ At(r, "register") /\ ~req[r].row.verified
                   \/ At(r, "update") /\ "verified" \in DOMAIN req[r].change

(* An account that an administrator has closed opens again by what an      *)
(* administrator or the bootstrap does, by a code, or by a registration    *)
(* anew of an account that was not verified.                               *)
ClosedStaysClosed ==
    \A u \in Existing :
       (users[u].account # NULL /\ ~users[u].active /\ users'[u].active)
          => \E r \in Reqs :
                /\ req[r].user = u
                /\ \/ req[r].actor # NULL
                   \/ At(r, "bootstrap")
                   \/ At(r, "verified")
                   \/ At(r, "register") /\ ~req[r].row.verified

(* Once there is an active administrator there always is one, as nobody    *)
(* takes his own rights away: unless the one who acts has lost them since  *)
(* the request began, or a registration had read an account before it was  *)
(* made the administrator's.                                               *)
ActiveAdmins == {u \in Existing : users[u].role = "admin" /\ users[u].active}

AnAdminRemains ==
    ActiveAdmins # {} =>
       \/ ActiveAdmins' # {}
       \/ \E r \in Reqs :
             \/ RegisterUpdate(r)
             \/ /\ SuspendWrite(r) \/ UpdateWrite(r)
                /\ req[r].actor \notin ActiveAdmins

(* No request undoes what it has not read: a verification, a suspension or *)
(* the last administrator is lost to those requests only.                  *)
AccountsStand == [][VerifiedStays /\ ClosedStaysClosed /\ AnAdminRemains]_hvars

(* The status of a user is the one billing or an update gave it last.      *)
(* Only an activation of a suspended subscription, or a registration or    *)
(* activation that had read the user before, sets another, and it does     *)
(* only until the next status is given.                                    *)
SubscriptionStatusStands ==
    \A u \in Existing : users[u].status = said[u] \/ u \in unsaid

(* The flag is copied from a profile that is there, and whoever has saved  *)
(* the profile is not asked for it again, with or without the flag.        *)
AskedOnce ==
    \A u \in Existing :
       /\ users[u].onboarded => u \in profiles
       /\ u \in profiles => Guard(u, "restaurant") # "onboarding_required"

Remedy(verdict) == IF verdict = "onboarding_required" THEN "onboarding" ELSE "subscriptions"

(* Where a user is sent by the guard, the guard lets the user go, and once *)
(* the profile is saved it does not send there again, even if the request  *)
(* that saved it failed before it set the flag.                            *)
NeverLockedOut ==
    /\ AskedOnce
    /\ \A u \in Existing :
          MayLogIn(u) => /\ Guard(u, "auth") = "pass"
                         /\ \/ Guard(u, "restaurant") = "pass"
                            \/ Guard(u, Remedy(Guard(u, "restaurant"))) = "pass"
=============================================================================
