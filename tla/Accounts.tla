------------------------------- MODULE Accounts -------------------------------
(***************************************************************************)
(* Accounts, in services/auth.py, user_management.py, onboarding.py and    *)
(* bootstrap.py, dependencies/auth.py and middleware/subscription_guard.py:*)
(* the users documents, the codes mailed to them, the onboarding profiles, *)
(* and the requests that read and write them, one await at a time.         *)
(*                                                                         *)
(* Several requests run at once.  Each has read the user it works for      *)
(* before it writes, and others may have written in between.               *)
(***************************************************************************)
EXTENDS Integers, Sequences, FiniteSetsExt

CONSTANTS
    Reqs,           \* bound: request slots, the requests served at once
    Users,          \* ids of users documents; bound: none is created without one left
    Emails,         \* e-mail addresses
    AdminEmail,     \* settings.super_admin_email
    Passwords,
    AdminPassword,  \* settings.super_admin_password
    Values,         \* what a code may be: two codes may be equal by chance
    Updates,        \* what update_user may be told to write: values by field
    Kinds,          \* bound: the kinds of requests a run works with
    MaxRequests,    \* bound: requests
    NULL

VARIABLES
    users,      \* users: the document of each id, NULL before it exists
    codes,      \* auth_codes, in the order of creation
    profiles,   \* the ids with a completed onboarding profile
    req,        \* the local state of each request
    serving,    \* whether a worker has started
    requests    \* bound: requests begun

vars == <<users, codes, profiles, req, serving, requests>>

ASSUME AdminAssumption == AdminEmail \in Emails /\ AdminPassword \in Passwords

Roles == {"owner", "admin"}
AccountStatuses == {"restricted", "suspended"}
SubscriptionStatuses == {"active", "suspended"}
Purposes == {"registration", "reset", "admin_reset"}

Rows == [email : Emails, pass : Passwords, role : Roles, active : BOOLEAN, verified : BOOLEAN,
         account : AccountStatuses \cup {NULL}, plan : BOOLEAN,
         status : SubscriptionStatuses \cup {NULL}, onboarded : BOOLEAN]

(* UserManagementUpdateRequest, its fields that matter here: any of them,  *)
(* and none of them null.                                                  *)
UpdateFields == [email |-> Emails, role |-> Roles, active |-> BOOLEAN, verified |-> BOOLEAN,
                 account |-> AccountStatuses, plan |-> {TRUE}, status |-> SubscriptionStatuses]

ASSUME UpdatesAssumption ==
    \A updates \in Updates :
       /\ DOMAIN updates \subseteq DOMAIN UpdateFields
       /\ \A f \in DOMAIN updates : updates[f] \in UpdateFields[f]

ASSUME NullAssumption == NULL \notin Users \cup Emails \cup Passwords \cup Rows

NewUser(e, p, role) ==
    [email |-> e, pass |-> p, role |-> role, active |-> TRUE, verified |-> role = "admin",
     account |-> NULL, plan |-> FALSE, status |-> NULL, onboarded |-> FALSE]

(* A request: where it is, the user it works for and that user's document  *)
(* as it has read it, its input and what it has found.                     *)
Idle == [pc |-> "idle", user |-> NULL, row |-> NULL, actor |-> NULL, email |-> NULL,
         pass |-> NULL, purpose |-> NULL, value |-> NULL, code |-> 0, change |-> NULL]

(* A worker has started, and made the administrator, or none has yet.      *)
Init ==
    /\ serving \in BOOLEAN
    /\ users \in {[u \in Users |-> IF serving /\ u = a
                                   THEN NewUser(AdminEmail, AdminPassword, "admin") ELSE NULL] :
                  a \in Users}
    /\ codes = <<>>
    /\ profiles = {}
    /\ req = [r \in Reqs |-> Idle]
    /\ requests = 0

Existing == {u \in Users : users[u] # NULL}

(* get_by_email.  users.email has a unique index.                          *)
UserOf(e) ==
    LET found == {u \in Existing : users[u].email = e}
    IN IF found = {} THEN NULL ELSE CHOOSE u \in found : TRUE

RowOf(u) == IF u = NULL THEN NULL ELSE users[u]

At(r, pc) == req[r].pc = pc
Goto(r, pc) == req' = [req EXCEPT ![r].pc = pc]
Finish(r) == req' = [req EXCEPT ![r] = Idle]

Reading(pc, u) == [Idle EXCEPT !.pc = pc, !.user = u]

(* The first await of a request, after which it holds what it has read.    *)
Start(r, kind, read) ==
    /\ At(r, "idle")
    /\ kind \in Kinds
    /\ serving \/ kind = "start"
    /\ requests < MaxRequests
    /\ requests' = requests + 1
    /\ req' = [req EXCEPT ![r] = read]
    /\ UNCHANGED <<users, codes, profiles, serving>>

(* $set: the given fields of a document, and no other.                     *)
Amended(row, updates) ==
    [f \in DOMAIN row |-> IF f \in DOMAIN updates THEN updates[f] ELSE row[f]]

(* The next step of the request writes the user and nothing else.          *)
Write(r, row, pc) ==
    /\ users' = [users EXCEPT ![req[r].user] = row]
    /\ req' = [req EXCEPT ![r].pc = pc, ![r].email = row.email,
                                        ![r].row = NULL, ![r].pass = NULL]
    /\ UNCHANGED <<codes, profiles, serving, requests>>

Update(r, row) ==
    /\ users' = [users EXCEPT ![req[r].user] = row]
    /\ Finish(r)
    /\ UNCHANGED <<codes, profiles, serving, requests>>

(* Any request may end in an error between two awaits, the sending of a    *)
(* mail among them.                                                        *)
Fail(r) ==
    /\ ~At(r, "idle")
    /\ Finish(r)
    /\ UNCHANGED <<users, codes, profiles, serving, requests>>

-----------------------------------------------------------------------------
(* The guard of the HTTP requests, and the user of a request.              *)

AllowedPaths == {"auth", "settings", "subscriptions", "users", "dashboard", "support"}
OnboardingPaths == {"onboarding", "auth", "subscriptions", "upload"}
BlockedStatuses == {"canceled", "expired", "suspended", "unsubscribed"}

(* Mutant: the profile is not asked when the flag is not set.              *)
HasCompletedOnboardingFlag(u) == users[u].onboarded

HasCompletedOnboarding(u) == users[u].onboarded \/ u \in profiles

(* SubscriptionGuardMiddleware.dispatch, of a request with a token of u.   *)
Guard(u, path) ==
    IF path \in AllowedPaths \/ users[u].role = "admin" THEN "pass"
    ELSE IF ~users[u].plan THEN "missing_plan"
    ELSE IF users[u].status \in BlockedStatuses THEN "inactive_subscription"
    ELSE IF ~HasCompletedOnboarding(u) /\ path \notin OnboardingPaths THEN "onboarding_required"
    ELSE "pass"

(* get_current_user behind the guard: the token's user, if it is active.   *)
CurrentUser(u, path) == u \in Existing /\ Guard(u, path) = "pass" /\ users[u].active

(* require_roles(UserRole.SUPER_ADMIN).                                    *)
CurrentAdmin(u) == CurrentUser(u, "users") /\ users[u].role = "admin"

(* login_restaurant, with the right password: a suspended or restricted    *)
(* account is let in to be told so.                                        *)
MayLogIn(u) ==
    /\ users[u].role = "owner"
    /\ IF users[u].active THEN users[u].verified
       ELSE \/ users[u].account \in AccountStatuses
            \/ users[u].account = NULL /\ users[u].status = "suspended"

-----------------------------------------------------------------------------
(* Mutant: a verified account is registered anew as well.                  *)
RegisterRestaurantAny(r) ==
    \E e \in Emails, p \in Passwords :
       Start(r, "register", [Reading("register", UserOf(e)) EXCEPT !.row = RowOf(UserOf(e)),
                               !.email = e, !.pass = p, !.purpose = "registration"])

(* register_restaurant: an account not yet verified is registered anew.    *)
RegisterRestaurant(r) ==
    \E e \in Emails, p \in Passwords :
       LET u == UserOf(e)
       IN /\ u # NULL => ~users[u].verified
          /\ Start(r, "register", [Reading("register", u) EXCEPT !.row = RowOf(u), !.email = e,
                                     !.pass = p, !.purpose = "registration"])

(* Mutant: users.email is not unique.                                      *)
RegisterCreateNotUnique(r) ==
    /\ At(r, "register")
    /\ req[r].user = NULL
    /\ Existing # Users
    /\ LET u == CHOOSE free \in Users \ Existing : TRUE
       IN /\ users' = [users EXCEPT ![u] = NewUser(req[r].email, req[r].pass, "owner")]
          /\ req' = [req EXCEPT ![r].pc = "issue", ![r].user = u, ![r].pass = NULL]
    /\ UNCHANGED <<codes, profiles, serving, requests>>

(* An account of the address that was created since makes it fail.         *)
RegisterCreate(r) ==
    /\ At(r, "register")
    /\ req[r].user = NULL
    /\ IF UserOf(req[r].email) # NULL
       THEN Finish(r) /\ UNCHANGED users
       ELSE LET u == CHOOSE free \in Users \ Existing : TRUE
            IN /\ Existing # Users
               /\ users' = [users EXCEPT ![u] = NewUser(req[r].email, req[r].pass, "owner")]
               /\ req' = [req EXCEPT ![r].pc = "issue", ![r].user = u, ![r].pass = NULL]
    /\ UNCHANGED <<codes, profiles, serving, requests>>

(* The subscription and the onboarding flag are those it has read.         *)
RegisterUpdate(r) ==
    /\ At(r, "register")
    /\ req[r].user # NULL
    /\ Write(r, [req[r].row EXCEPT !.email = users[req[r].user].email, !.pass = req[r].pass,
                                   !.role = "owner", !.active = TRUE, !.verified = FALSE],
             "issue")

(* resend_restaurant_registration_code.                                    *)
ResendCode(r) ==
    \E u \in Existing :
       /\ users[u].role = "owner"
       /\ ~users[u].verified
       /\ Start(r, "register", [Reading("issue", u) EXCEPT !.email = users[u].email,
                                  !.purpose = "registration"])

(* forgot_password_restaurant and forgot_password_admin.                   *)
ResetPurpose(u) == IF users[u].role = "admin" THEN "admin_reset" ELSE "reset"

ForgotPassword(r) ==
    \E u \in Existing :
       /\ users[u].verified
       /\ Start(r, "reset", [Reading("issue", u) EXCEPT !.email = users[u].email,
                               !.purpose = ResetPurpose(u)])

(* create_code, its update_many: no code of the purpose stays open,        *)
Concerns(r, n) == codes[n].email = req[r].email /\ codes[n].purpose = req[r].purpose

IssueClose(r) ==
    /\ At(r, "issue")
    /\ codes' = [n \in DOMAIN codes |->
                   IF Concerns(r, n) THEN [codes[n] EXCEPT !.open = FALSE] ELSE codes[n]]
    /\ Goto(r, "issue_create")
    /\ UNCHANGED <<users, profiles, serving, requests>>

(* and its create.  The mail that follows changes nothing here.            *)
IssueCreate(r) ==
    /\ At(r, "issue_create")
    /\ \E v \in Values :
          codes' = Append(codes, [email |-> req[r].email, purpose |-> req[r].purpose,
                                  user |-> req[r].user, value |-> v, open |-> TRUE, uses |-> 0])
    /\ Finish(r)
    /\ UNCHANGED <<users, profiles, serving, requests>>

(* Ten minutes pass.  Consumed or expired, a code is found no more.        *)
Expire ==
    /\ \E n \in DOMAIN codes :
          codes[n].open /\ codes' = [codes EXCEPT ![n].open = FALSE]
    /\ UNCHANGED <<users, profiles, req, serving, requests>>

-----------------------------------------------------------------------------
(* verify_restaurant_registration.                                         *)
VerifyRegistration(r) ==
    \E u \in Existing, v \in Values :
       /\ users[u].role = "owner"
       /\ Start(r, "verify", [Reading("find_code", u) EXCEPT !.email = users[u].email,
                                !.value = v, !.purpose = "registration"])

(* reset_password_restaurant and reset_password_admin.                     *)
ResetPassword(r) ==
    \E u \in Existing, v \in Values, p \in Passwords :
       /\ users[u].verified
       /\ Start(r, "reset", [Reading("find_code", u) EXCEPT !.email = users[u].email,
                               !.pass = p, !.value = v, !.purpose = ResetPurpose(u)])

(* Mutant: a consumed code is found again.                                 *)
MatchingAny(r) == {n \in DOMAIN codes : Concerns(r, n) /\ codes[n].value = req[r].value}

(* verify_code: the newest open code of the address that is equal.         *)
Matching(r) == {n \in DOMAIN codes : Concerns(r, n) /\ codes[n].open /\ codes[n].value = req[r].value}

FindCode(r) ==
    /\ At(r, "find_code")
    /\ IF Matching(r) = {} THEN Finish(r)
       ELSE req' = [req EXCEPT ![r] = [@ EXCEPT !.pc = "consume", !.code = Max(Matching(r)),
                                                !.value = NULL]]
    /\ UNCHANGED <<users, codes, profiles, serving, requests>>

(* consume_code, whatever has become of the code since.                    *)
ConsumeCode(r) ==
    /\ At(r, "consume")
    /\ codes' = [codes EXCEPT ![req[r].code].open = FALSE, ![req[r].code].uses = @ + 1]
    /\ req' = [req EXCEPT ![r] =
                  [Reading(IF req[r].purpose = "registration" THEN "verified" ELSE "set_password",
                           req[r].user) EXCEPT !.pass = req[r].pass]]
    /\ UNCHANGED <<users, profiles, serving, requests>>

VerifyUser(r) ==
    /\ At(r, "verified")
    /\ Update(r, [users[req[r].user] EXCEPT !.verified = TRUE, !.active = TRUE])

SetPassword(r) ==
    /\ At(r, "set_password")
    /\ Update(r, [users[req[r].user] EXCEPT !.pass = req[r].pass])

(* change_password, of a user who knows the password it has read.          *)
ChangePassword(r) ==
    \E u \in Users, p \in Passwords :
       /\ CurrentUser(u, "restaurant")
       /\ p # users[u].pass
       /\ Start(r, "change", [Reading("set_password", u) EXCEPT !.pass = p])

-----------------------------------------------------------------------------
(* _save_profile of the onboarding: the profile, and then the flag.        *)
SaveProfile(r) ==
    \E u \in Users :
       /\ CurrentUser(u, "onboarding")
       /\ Start(r, "onboarding", Reading("profile", u))

UpsertProfile(r) ==
    /\ At(r, "profile")
    /\ profiles' = profiles \cup {req[r].user}
    /\ Goto(r, "flag")
    /\ UNCHANGED <<users, codes, serving, requests>>

SetOnboarded(r) ==
    /\ At(r, "flag")
    /\ Update(r, [users[req[r].user] EXCEPT !.onboarded = TRUE])

(* What module Subscriptions does to a user, of which only this matters    *)
(* here: a plan, and a status that lets the user in or not.                *)
ChangeSubscription ==
    /\ "billing" \in Kinds
    /\ requests < MaxRequests
    /\ requests' = requests + 1
    /\ \E u \in Existing, status \in SubscriptionStatuses :
          /\ users[u].role = "owner"
          /\ users' = [users EXCEPT ![u].plan = TRUE, ![u].status = status]
    /\ UNCHANGED <<codes, profiles, req, serving>>

-----------------------------------------------------------------------------
(* User management, by an administrator a.                                 *)
StartAdmin(r, a, read) ==
    /\ CurrentAdmin(a)
    /\ Start(r, "admin", [read EXCEPT !.actor = a])

(* suspend_user and restrict_user, never of oneself.                       *)
SuspendUser(r) ==
    \E a, u \in Existing, status \in AccountStatuses :
       /\ a # u
       /\ StartAdmin(r, a, [Reading("suspend", u) EXCEPT !.change = [account |-> status]])

SuspendWrite(r) ==
    /\ At(r, "suspend")
    /\ Update(r, [users[req[r].user] EXCEPT !.active = FALSE, !.account = req[r].change.account])

ActivateUser(r) ==
    \E a, u \in Existing : StartAdmin(r, a, [Reading("activate", u) EXCEPT !.row = users[u]])

(* Mutant: every status becomes active.                                    *)
ActivateWriteAny(r) ==
    /\ At(r, "activate")
    /\ Update(r, [users[req[r].user] EXCEPT !.active = TRUE, !.account = NULL, !.status = "active"])

(* activate_user writes the subscription status it has read.               *)
ActivateWrite(r) ==
    /\ At(r, "activate")
    /\ Update(r, [users[req[r].user] EXCEPT
                    !.active = TRUE, !.account = NULL,
                    !.status = IF req[r].row.status = "suspended" THEN "active"
                               ELSE req[r].row.status])

(* _prevent_self_demotion.                                                 *)
DemotesOneself(a, u, updates) ==
    /\ a = u
    /\ \/ "active" \in DOMAIN updates /\ ~updates.active
       \/ "role" \in DOMAIN updates /\ updates.role # users[u].role

(* update_user.  An address is looked up first,                            *)
UpdateUser(r) ==
    \E a, u \in Existing, updates \in Updates :
       /\ ~DemotesOneself(a, u, updates)
       /\ StartAdmin(r, a, [Reading(IF "email" \in DOMAIN updates THEN "update_find" ELSE "update", u)
                             EXCEPT !.change = updates])

EmailTaken(r) ==
    /\ "email" \in DOMAIN req[r].change
    /\ UserOf(req[r].change.email) \notin {NULL, req[r].user}

UpdateFind(r) ==
    /\ At(r, "update_find")
    /\ IF EmailTaken(r) THEN Finish(r) ELSE Goto(r, "update")
    /\ UNCHANGED <<users, codes, profiles, serving, requests>>

(* and may be taken all the same when all of it is written.                *)
UpdateWrite(r) ==
    /\ At(r, "update")
    /\ IF EmailTaken(r)
       THEN Finish(r) /\ UNCHANGED <<users, codes, profiles, serving, requests>>
       ELSE Update(r, Amended(users[req[r].user], req[r].change))

-----------------------------------------------------------------------------
(* ensure_super_admin, at every start of a worker.  It writes the fields   *)
(* that were different when it looked.                                     *)
EnsureSuperAdmin(r) ==
    LET u == UserOf(AdminEmail)
    IN Start(r, "start", [Reading("bootstrap", u) EXCEPT !.row = RowOf(u)])

BootstrapCreate(r) ==
    /\ At(r, "bootstrap")
    /\ req[r].user = NULL
    /\ IF UserOf(AdminEmail) # NULL THEN UNCHANGED <<users, serving>>
       ELSE LET u == CHOOSE free \in Users \ Existing : TRUE
            IN /\ Existing # Users
               /\ users' = [users EXCEPT ![u] = NewUser(AdminEmail, AdminPassword, "admin")]
               /\ serving' = TRUE
    /\ Finish(r)
    /\ UNCHANGED <<codes, profiles, requests>>

BootstrapUpdate(r) ==
    /\ At(r, "bootstrap")
    /\ req[r].user # NULL
    /\ LET read == req[r].row
           wanted == NewUser(AdminEmail, AdminPassword, "admin")
           Written(f) == f \in {"email", "role", "active", "verified", "pass"} /\ read[f] # wanted[f]
       IN users' = [users EXCEPT ![req[r].user] =
                      [f \in DOMAIN read |-> IF Written(f) THEN wanted[f] ELSE @[f]]]
    /\ serving' = TRUE
    /\ Finish(r)
    /\ UNCHANGED <<codes, profiles, requests>>

-----------------------------------------------------------------------------
Handler(r) ==
    \/ RegisterRestaurant(r) \/ RegisterCreate(r) \/ RegisterUpdate(r) \/ ResendCode(r)
    \/ ForgotPassword(r) \/ IssueClose(r) \/ IssueCreate(r)
    \/ VerifyRegistration(r) \/ ResetPassword(r) \/ FindCode(r) \/ ConsumeCode(r)
    \/ VerifyUser(r) \/ SetPassword(r) \/ ChangePassword(r)
    \/ SaveProfile(r) \/ UpsertProfile(r) \/ SetOnboarded(r)
    \/ SuspendUser(r) \/ SuspendWrite(r) \/ ActivateUser(r) \/ ActivateWrite(r)
    \/ UpdateUser(r) \/ UpdateFind(r) \/ UpdateWrite(r)
    \/ EnsureSuperAdmin(r) \/ BootstrapCreate(r) \/ BootstrapUpdate(r)
    \/ Fail(r)

Next ==
    \/ \E r \in Reqs : Handler(r)
    \/ Expire
    \/ ChangeSubscription

Spec == Init /\ [][Next]_vars
=============================================================================
