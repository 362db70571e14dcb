---------------------------- MODULE AccountProofs ----------------------------
(***************************************************************************)
(* The properties of AccountHistory hold for any number of users, requests *)
(* and codes, whatever requests run at once.                               *)
(***************************************************************************)
EXTENDS AccountHistory, SequenceTheorems, WellFoundedInduction, TLAPS

PCs == {"idle", "register", "issue", "issue_create", "find_code", "consume", "verified",
        "set_password", "profile", "flag", "suspend", "activate", "update", "update_find",
        "bootstrap"}
Changes == Updates \cup [account : AccountStatuses]

Locals == [pc : PCs, user : Users \cup {NULL}, row : Rows \cup {NULL}, actor : Users \cup {NULL},
           email : Emails \cup {NULL}, pass : Passwords \cup {NULL},
           purpose : Purposes \cup {NULL}, value : Values \cup {NULL}, code : Nat,
           change : Changes \cup {NULL}]

Codes == [email : Emails, purpose : Purposes, user : Users, value : Values,
          open : BOOLEAN, uses : Nat]

(* What takes no right from an administrator.                              *)
Harmless(updates) ==
    /\ "active" \in DOMAIN updates => updates["active"] = TRUE
    /\ "role" \in DOMAIN updates => updates["role"] = "admin"

(* What a request needs at its next await: its input,                      *)
Provided(l) ==
    /\ l.pc \in {"register", "issue", "issue_create", "find_code", "consume"} =>
          l.email \in Emails /\ l.purpose \in Purposes
    /\ l.pc \in {"register", "set_password"} => l.pass \in Passwords
    /\ l.pc \in {"find_code", "consume"} /\ l.purpose # "registration" => l.pass \in Passwords
    /\ l.pc = "suspend" => l.change \in [account : AccountStatuses] /\ l.actor # l.user
    /\ l.pc \in {"update", "update_find"} => l.change \in Updates /\ (l.actor = l.user => Harmless(l.change))
    /\ l.pc \in {"suspend", "activate", "update", "update_find"} => l.actor # NULL
    /\ l.pc = "activate" => l.row \in Rows

(* and what it has found, of the users e, the codes cs and the profiles ps.*)
Found(l, e, cs, ps) ==
    /\ l.user \in e \cup {NULL}
    /\ l.pc \notin {"idle", "register", "bootstrap"} => l.user \in e
    /\ l.code \in DOMAIN cs \cup {0}
    /\ l.pc = "consume" => /\ l.code \in DOMAIN cs
                           /\ cs[l.code].email = l.email /\ cs[l.code].purpose = l.purpose
    /\ l.pc = "flag" => l.user \in ps
    /\ l.pc = "register" /\ l.user # NULL =>
          l.row \in Rows /\ ~l.row.verified /\ (l.row.onboarded => l.user \in ps)
    /\ l.pc = "bootstrap" /\ l.user # NULL => l.row \in Rows /\ l.row.email = AdminEmail

Prepared(l, e, cs, ps) == l \in Locals /\ Provided(l) /\ Found(l, e, cs, ps)

UsersOK ==
    /\ users \in [Users -> Rows \cup {NULL}]
    /\ \A u, w \in Existing : users[u].email = users[w].email => u = w
    /\ \A u \in Existing : users[u].onboarded => u \in profiles
    /\ profiles \subseteq Existing
CodesOK == codes \in Seq(Codes) /\ \A n \in DOMAIN codes : codes[n].user \in Existing
RequestsOK ==
    /\ req \in [Reqs -> Locals]
    /\ \A r \in Reqs : Prepared(req[r], Existing, codes, profiles)

(* The shapes, and what each request holds at each await.                  *)
Shapes == UsersOK /\ CodesOK /\ RequestsOK

(* The codes: an open one has not been used, nor has one that a request    *)
(* holds alone; where a request is about to create one, none is open.      *)
IssuedAlone(r) ==
    At(r, "issue_create") =>
       \A n \in DOMAIN codes :
          (codes[n].open /\ Concerns(r, n)) => <<req[r].email, req[r].purpose>> \in crossed
HeldAlone(r) == At(r, "consume") => codes[req[r].code].uses = 0 \/ req[r].code \in shared

CodesHeld ==
    /\ \A n \in DOMAIN codes : codes[n].open => codes[n].uses = 0
    /\ \A r \in Reqs : IssuedAlone(r) /\ HeldAlone(r)
    /\ OneOpenCode
    /\ CodesServeOnce

(* The status a request has read is the one that was said, if none was     *)
(* said since it read it and it is not to be said again anyway.            *)
StatusHeld ==
    /\ \A u \in Users \ Existing : said[u] = NULL
    /\ \A r \in Reqs, u \in Existing :
          Holds(r, u) => req[r].row.status = said[u] \/ r \in overtaken \/ u \in unsaid
    /\ SubscriptionStatusStands

(* The inductive invariant.                                                *)
AccountInv == Shapes /\ CodesHeld /\ StatusHeld

-----------------------------------------------------------------------------
(* Users.                                                                  *)

LEMMA Rowed == ASSUME UsersOK, NEW u \in Existing
               PROVE  u \in Users /\ u # NULL /\ users[u] \in Rows
  BY NullAssumption DEF UsersOK, Existing

(* get_by_email finds the user of an address, if there is one.             *)
LEMMA FoundUser ==
    ASSUME UsersOK, NEW e
    PROVE  /\ UserOf(e) \in Existing \cup {NULL}
           /\ UserOf(e) = NULL => \A u \in Existing : users[u].email # e
           /\ UserOf(e) # NULL => users[UserOf(e)].email = e
<1> DEFINE found == {u \in Existing : users[u].email = e}
<1>1. CASE found = {}
  BY <1>1, Rowed DEF UserOf
<1>2. CASE found # {}
  <2>1. UserOf(e) \in found
    BY <1>2 DEF UserOf
  <2> QED
    BY <2>1, Rowed
<1> QED
  BY <1>1, <1>2

(* Writing a row whose address no other user has.                          *)
LEMMA Written ==
    ASSUME UsersOK, NEW u \in Users, NEW row \in Rows, users' = [users EXCEPT ![u] = row],
           UNCHANGED profiles, row.onboarded => u \in profiles,
           \A w \in Existing \ {u} : users[w].email # row.email
    PROVE  UsersOK' /\ Existing' = Existing \cup {u} /\ users'[u] = row
<1>1. users' \in [Users -> Rows \cup {NULL}] /\ users'[u] = row
  BY DEF UsersOK
<1>2. \A w \in Users \ {u} : users'[w] = users[w]
  BY DEF UsersOK
<1>3. Existing' = Existing \cup {u}
  BY <1>1, <1>2, NullAssumption DEF Existing
<1>4. ASSUME NEW w \in Existing', NEW v \in Existing', users'[w].email = users'[v].email
      PROVE  w = v
  BY <1>1, <1>2, <1>3, <1>4 DEF UsersOK, Existing
<1>5. ASSUME NEW w \in Existing', users'[w].onboarded
      PROVE  w \in profiles'
  BY <1>1, <1>2, <1>3, <1>5 DEF UsersOK, Existing
<1> QED
  BY <1>1, <1>3, <1>4, <1>5 DEF UsersOK

-----------------------------------------------------------------------------
(* Requests.                                                               *)

Grow == /\ Existing \subseteq Existing' /\ profiles \subseteq profiles'
        /\ \A n \in DOMAIN codes : /\ n \in DOMAIN codes'
                                   /\ codes'[n].email = codes[n].email
                                   /\ codes'[n].purpose = codes[n].purpose

(* What others have found stays found when users, codes and profiles are   *)
(* added; so a step gives its own request a local state, and no other.     *)
LEMMA LocalStep ==
    ASSUME RequestsOK, Grow, NEW r \in Reqs, NEW l, req' = [req EXCEPT ![r] = l],
           Prepared(l, Existing', codes', profiles')
    PROVE  RequestsOK'
<1>1. l \in Locals
  BY DEF Prepared
<1>2. req' \in [Reqs -> Locals] /\ req'[r] = l
  BY <1>1 DEF RequestsOK
<1>3. ASSUME NEW q \in Reqs
      PROVE  Prepared(req'[q], Existing', codes', profiles')
  <2>1. CASE q = r
    BY <1>2, <2>1
  <2>2. CASE q # r
    <3>1. req'[q] = req[q] /\ Prepared(req[q], Existing, codes, profiles)
      BY <2>2 DEF RequestsOK
    <3>2. Found(req[q], Existing, codes, profiles) => Found(req[q], Existing', codes', profiles')
      BY DEF Found, Grow
    <3> QED
      BY <3>1, <3>2 DEF Prepared
  <2> QED
    BY <2>1, <2>2
<1> QED
  BY <1>2, <1>3 DEF RequestsOK

LEMMA NoLocalStep == ASSUME RequestsOK, Grow, UNCHANGED req PROVE RequestsOK'
<1>1. ASSUME NEW q \in Reqs
      PROVE  Prepared(req[q], Existing', codes', profiles')
  BY DEF RequestsOK, Prepared, Found, Grow
<1> QED
  BY <1>1 DEF RequestsOK

LEMMA Same == ASSUME UNCHANGED <<codes, profiles>>, Existing \subseteq Existing' PROVE Grow
  BY DEF Grow

LEMMA Idles == \A e, cs, ps : Prepared(Idle, e, cs, ps)
  BY DEF Prepared, Provided, Found, Idle, Locals, PCs

LEMMA Carried == ASSUME RequestsOK, NEW r \in Reqs
                 PROVE  req[r] \in Locals /\ Provided(req[r]) /\ Found(req[r], Existing, codes, profiles)
  BY DEF RequestsOK, Prepared

LEMMA CodesKept == ASSUME CodesOK, UNCHANGED codes, Existing \subseteq Existing' PROVE CodesOK'
  BY DEF CodesOK

LEMMA UsersKept == ASSUME UsersOK, UNCHANGED <<users, profiles>> PROVE UsersOK' /\ Existing' = Existing
  BY DEF UsersOK, Existing

(* Most steps leave the codes and every status alone, and a request that   *)
(* takes one holds no code after it and no status but the present one.     *)
Calm(l) ==
    /\ l.pc \notin {"issue_create", "consume"}
    /\ l.pc \in {"register", "activate"} /\ l.user # NULL =>
          l.user \in Existing /\ l.row.status = users[l.user].status

StatusOf(u) == IF u \in Existing THEN users[u].status ELSE NULL

Undisturbed ==
    /\ UNCHANGED codes
    /\ \A q \in Reqs : req'[q] = req[q] \/ Calm(req'[q])
    /\ Existing \subseteq Existing'
    /\ \A u \in Existing' : users'[u].status = StatusOf(u)

(* Some write a status: the one that their request has read or was given.  *)
Restores(r, status) ==
    /\ UNCHANGED codes
    /\ req[r].user \in Existing /\ Existing' = Existing
    /\ \A q \in Reqs : IF q = r THEN Calm(req'[q]) ELSE req'[q] = req[q]
    /\ req'[r].pc \notin {"register", "activate"}
    /\ \A w \in Existing :
          users'[w].status = IF w = req[r].user THEN status ELSE users[w].status

(* A step that changes no more than the local state.                       *)
LEMMA QuietStep ==
    ASSUME Shapes, NEW r \in Reqs, NEW l, req' = [req EXCEPT ![r] = l],
           UNCHANGED <<users, codes, profiles>>, Prepared(l, Existing, codes, profiles)
    PROVE  Shapes' /\ (Calm(l) => Undisturbed)
<1>1. UsersOK' /\ Existing' = Existing
  BY UsersKept DEF Shapes
<1>2. CodesOK'
  BY <1>1, CodesKept DEF Shapes
<1>3. Grow
  BY <1>1, Same
<1>4. RequestsOK'
  BY <1>1, <1>3, LocalStep DEF Shapes
<1>5. Calm(l) => Undisturbed
  BY <1>1 DEF Undisturbed, StatusOf, Shapes, RequestsOK
<1> QED
  BY <1>1, <1>2, <1>4, <1>5 DEF Shapes

LEMMA Started ==
    ASSUME Shapes, NEW r \in Reqs, NEW kind, NEW l, Start(r, kind, l),
           Prepared(l, Existing, codes, profiles), Calm(l)
    PROVE  Shapes' /\ Undisturbed
  BY QuietStep DEF Start

LEMMA Finished ==
    ASSUME Shapes, NEW r \in Reqs, Finish(r), UNCHANGED <<users, codes, profiles>>
    PROVE  Shapes' /\ Undisturbed
<1>1. Calm(Idle)
  BY DEF Calm, Idle
<1> QED
  BY <1>1, QuietStep, Idles DEF Finish

(* A step that writes a user and gives its request a local state.          *)
LEMMA WriteStep ==
    ASSUME Shapes, NEW r \in Reqs, NEW u \in Users, NEW row \in Rows, NEW l,
           users' = [users EXCEPT ![u] = row], req' = [req EXCEPT ![r] = l],
           UNCHANGED <<codes, profiles>>, row.onboarded => u \in profiles,
           \A w \in Existing \ {u} : users[w].email # row.email,
           Prepared(l, Existing \cup {u}, codes, profiles)
    PROVE  /\ Shapes' /\ users'[u] = row
           /\ \/ ~Calm(l)
              \/ row.status # StatusOf(u)
              \/ Undisturbed
<1>1. UsersOK' /\ Existing' = Existing \cup {u} /\ users'[u] = row
  BY Written DEF Shapes
<1>2. CodesOK'
  BY <1>1, CodesKept DEF Shapes
<1>3. Grow
  BY <1>1, Same
<1>4. RequestsOK'
  BY <1>1, <1>3, LocalStep DEF Shapes
<1>5. ASSUME Calm(l), row.status = StatusOf(u)
      PROVE  Undisturbed
  <2>1. \A w \in Existing' : users'[w].status = StatusOf(w)
    BY <1>1, <1>5 DEF Shapes, UsersOK, Existing, StatusOf
  <2>2. \A q \in Reqs : req'[q] = req[q] \/ Calm(req'[q])
    BY <1>5 DEF Shapes, RequestsOK
  <2> QED
    BY <1>1, <2>1, <2>2 DEF Undisturbed
<1> QED
  BY <1>1, <1>2, <1>4, <1>5 DEF Shapes

(* A write that ends its request.                                          *)
LEMMA LastStep ==
    ASSUME Shapes, NEW r \in Reqs, NEW u \in Users, NEW row \in Rows,
           users' = [users EXCEPT ![u] = row], Finish(r),
           UNCHANGED <<codes, profiles>>, row.onboarded => u \in profiles,
           \A w \in Existing \ {u} : users[w].email # row.email
    PROVE  /\ Shapes' /\ users'[u] = row
           /\ row.status = StatusOf(u) => Undisturbed
<1>1. req' = [req EXCEPT ![r] = Idle] /\ Prepared(Idle, Existing \cup {u}, codes, profiles)
  BY Idles DEF Finish
<1>2. Calm(Idle)
  BY DEF Calm, Idle
<1>3. /\ Shapes' /\ users'[u] = row
      /\ \/ ~Calm(Idle)
         \/ row.status # StatusOf(u)
         \/ Undisturbed
  BY <1>1, WriteStep
<1> QED
  BY <1>2, <1>3

LEMMA Restored ==
    ASSUME Shapes, NEW r \in Reqs, req[r].user \in Existing, NEW row \in Rows, NEW l, Calm(l),
           l.pc \notin {"register", "activate"}, users' = [users EXCEPT ![req[r].user] = row], req' = [req EXCEPT ![r] = l],
           UNCHANGED codes
    PROVE  Restores(r, row.status)
<1>1. users \in [Users -> Rows \cup {NULL}] /\ req \in [Reqs -> Locals] /\ req[r].user \in Users
  BY Rowed DEF Shapes, UsersOK, RequestsOK
<1>2. Existing' = Existing
  BY <1>1, NullAssumption DEF Existing
<1>3. \A q \in Reqs : IF q = r THEN Calm(req'[q]) ELSE req'[q] = req[q]
  BY <1>1
<1>4. \A w \in Existing :
         users'[w].status = IF w = req[r].user THEN row.status ELSE users[w].status
  BY <1>1, Rowed DEF Shapes
<1>5. req'[r] = l
  BY <1>1
<1> QED
  BY <1>2, <1>3, <1>4, <1>5 DEF Restores

(* An update of the request's user that keeps the address.                 *)
LEMMA UpdateStep ==
    ASSUME Shapes, NEW r \in Reqs, req[r].user \in Existing, NEW row \in Rows, Update(r, row),
           row.onboarded => req[r].user \in profiles, row.email = users[req[r].user].email
    PROVE  /\ Shapes' /\ users'[req[r].user] = row
           /\ row.status = users[req[r].user].status => Undisturbed
<1>1. \A w \in Existing \ {req[r].user} : users[w].email # row.email
  BY DEF Shapes, UsersOK
<1>2. req[r].user \in Users
  BY Rowed DEF Shapes
<1>3. users' = [users EXCEPT ![req[r].user] = row] /\ Finish(r) /\ UNCHANGED <<codes, profiles>>
  BY DEF Update
<1>4. StatusOf(req[r].user) = users[req[r].user].status
  BY DEF StatusOf
<1>5. /\ Shapes' /\ users'[req[r].user] = row
      /\ row.status = StatusOf(req[r].user) => Undisturbed
  BY <1>1, <1>2, <1>3, LastStep
<1> QED
  BY <1>4, <1>5

-----------------------------------------------------------------------------
(* The actions, one by one, preserve the shapes.                           *)

LEMMA RegisterRestaurantStep ==
    ASSUME Shapes, NEW r \in Reqs, RegisterRestaurant(r) PROVE Shapes' /\ Undisturbed
<1>0. PICK e \in Emails, p \in Passwords : \E u, l :
         /\ u = UserOf(e) /\ (u # NULL => ~users[u].verified)
         /\ l = [Reading("register", u) EXCEPT !.row = RowOf(u), !.email = e,
                                               !.pass = p, !.purpose = "registration"]
         /\ Start(r, "register", l)
  BY DEF RegisterRestaurant
<1>1. PICK u, l :
         /\ u = UserOf(e) /\ (u # NULL => ~users[u].verified)
         /\ l = [Reading("register", u) EXCEPT !.row = RowOf(u), !.email = e,
                                               !.pass = p, !.purpose = "registration"]
         /\ Start(r, "register", l)
  BY <1>0
<1>2. u \in Existing \cup {NULL}
  BY <1>1, FoundUser DEF Shapes
<1>3. u # NULL => u \in Users /\ users[u] \in Rows /\ RowOf(u) = users[u]
                 /\ (users[u].onboarded => u \in profiles)
  BY <1>2, Rowed DEF Shapes, RowOf, UsersOK
<1>4. RowOf(u) \in Rows \cup {NULL} /\ u \in Users \cup {NULL}
  BY <1>3 DEF RowOf
<1>5. /\ l \in Locals /\ l.pc = "register" /\ l.user = u /\ l.row = RowOf(u) /\ l.email = e
      /\ l.pass = p /\ l.purpose = "registration" /\ l.code = 0
  BY <1>1, <1>4 DEF Reading, Idle, Locals, PCs, Purposes
<1>6. Prepared(l, Existing, codes, profiles) /\ Calm(l)
  BY <1>1, <1>2, <1>3, <1>5 DEF Calm, Prepared, Provided, Found, Purposes
<1> QED
  BY <1>1, <1>6, Started

LEMMA RegisterCreateStep ==
    ASSUME Shapes, NEW r \in Reqs, RegisterCreate(r) PROVE Shapes' /\ Undisturbed
<1>1. req[r] \in Locals /\ Provided(req[r]) /\ Found(req[r], Existing, codes, profiles)
  BY Carried DEF Shapes
<1>2. req[r].email \in Emails /\ req[r].pass \in Passwords /\ req[r].purpose \in Purposes
  BY <1>1 DEF RegisterCreate, At, Provided
<1>3. CASE UserOf(req[r].email) # NULL
  BY <1>3, Finished DEF RegisterCreate
<1>4. CASE UserOf(req[r].email) = NULL
  <2>1. PICK u, row, l :
           /\ u = CHOOSE free \in Users \ Existing : TRUE
           /\ row = NewUser(req[r].email, req[r].pass, "owner")
           /\ l = [req[r] EXCEPT !.pc = "issue", !.user = u, !.pass = NULL]
           /\ Existing # Users /\ users' = [users EXCEPT ![u] = row]
           /\ req' = [req EXCEPT ![r].pc = "issue", ![r].user = u, ![r].pass = NULL]
           /\ UNCHANGED <<codes, profiles>>
    BY <1>4 DEF RegisterCreate
  <2>2. u \in Users \ Existing
    <3>1. Existing \subseteq Users
      BY DEF Existing
    <3>2. \E free : free \in Users \ Existing
      BY <2>1, <3>1
    <3> QED
      BY <2>1, <3>2
  <2>3. row \in Rows /\ row.email = req[r].email /\ ~row.onboarded /\ row.status = NULL
    BY <1>2, <2>1 DEF NewUser, Rows, Roles
  <2>4. \A w \in Existing \ {u} : users[w].email # row.email
    BY <1>4, <2>3, FoundUser DEF Shapes
  <2>5. req' = [req EXCEPT ![r] = l]
    <3>1. /\ l = [req[r] EXCEPT !.pc = "issue", !.user = u, !.pass = NULL]
          /\ req' = [req EXCEPT ![r].pc = "issue", ![r].user = u, ![r].pass = NULL]
      BY <2>1
    <3>2. req \in [Reqs -> Locals]
      BY DEF Shapes, RequestsOK
    <3> QED
      BY <3>1, <3>2 DEF Locals
  <2>6. /\ l \in Locals /\ l.pc = "issue" /\ l.user = u /\ l.email = req[r].email
        /\ l.purpose = req[r].purpose /\ l.code = req[r].code
    BY <1>1, <2>1, <2>2, ZenonT(60) DEF Locals, PCs
  <2>7. Prepared(l, Existing \cup {u}, codes, profiles) /\ Calm(l)
    BY <1>1, <1>2, <2>6 DEF Calm, Prepared, Provided, Found
  <2>8. users' = [users EXCEPT ![u] = row] /\ UNCHANGED <<codes, profiles>> /\ u \in Users
    BY <2>1, <2>2
  <2> QED
    BY <2>2, <2>3, <2>4, <2>5, <2>7, <2>8, WriteStep DEF StatusOf
<1> QED
  BY <1>3, <1>4

LEMMA RegisterUpdateStep ==
    ASSUME Shapes, NEW r \in Reqs, RegisterUpdate(r)
    PROVE  Shapes' /\ Restores(r, req[r].row.status)
<1> DEFINE u == req[r].user
<1>1. req[r] \in Locals /\ Provided(req[r]) /\ Found(req[r], Existing, codes, profiles)
  BY Carried DEF Shapes
<1>2. PICK row, l :
         /\ At(r, "register") /\ u # NULL
         /\ row = [req[r].row EXCEPT !.email = users[u].email, !.pass = req[r].pass,
                                     !.role = "owner", !.active = TRUE, !.verified = FALSE]
         /\ l = [req[r] EXCEPT !.pc = "issue", !.email = row.email, !.row = NULL, !.pass = NULL]
         /\ Write(r, row, "issue")
  BY DEF RegisterUpdate
<1>3. u \in Existing /\ req[r].row \in Rows /\ (req[r].row.onboarded => u \in profiles)
      /\ req[r].pass \in Passwords /\ req[r].purpose \in Purposes
  BY <1>1, <1>2 DEF Provided, Found, At
<1>4. u \in Users /\ users[u] \in Rows
  BY <1>3, Rowed DEF Shapes
<1>5. row \in Rows /\ row.email = users[u].email /\ (row.onboarded => u \in profiles)
  BY <1>2, <1>3, <1>4 DEF Rows, Roles
<1>6. row.email \in Emails
  BY <1>5 DEF Rows
<1>7. \A w \in Existing \ {u} : users[w].email # row.email
  BY <1>3, <1>5 DEF Shapes, UsersOK
<1>8. users' = [users EXCEPT ![u] = row] /\ req' = [req EXCEPT ![r] = l] /\ UNCHANGED <<codes, profiles>>
  <2>1. /\ req' = [req EXCEPT ![r].pc = "issue", ![r].email = row.email,
                              ![r].row = NULL, ![r].pass = NULL]
        /\ users' = [users EXCEPT ![u] = row] /\ UNCHANGED <<codes, profiles>>
    BY <1>2 DEF Write
  <2>2. req \in [Reqs -> Locals]
    BY DEF Shapes, RequestsOK
  <2>3. l = [req[r] EXCEPT !.pc = "issue", !.email = row.email, !.row = NULL, !.pass = NULL]
    BY <1>2
  <2>4. req' = [req EXCEPT ![r] = l]
    BY <2>1, <2>2, <2>3 DEF Locals
  <2> QED
    BY <2>1, <2>4
<1>9. /\ l \in Locals /\ l.pc = "issue" /\ l.user = u /\ l.email = row.email
      /\ l.purpose = req[r].purpose /\ l.code = req[r].code
  BY <1>1, <1>2, <1>6, ZenonT(60) DEF Locals, PCs
<1>10. Prepared(l, Existing \cup {u}, codes, profiles)
  BY <1>1, <1>3, <1>6, <1>9 DEF Prepared, Provided, Found
<1>11. Shapes'
  BY <1>4, <1>5, <1>7, <1>8, <1>10, WriteStep
<1>12. row.status = req[r].row.status
  BY <1>2, <1>3 DEF Rows
<1>13. Calm(l)
  BY <1>9 DEF Calm
<1>14. Restores(r, row.status)
  BY <1>3, <1>5, <1>8, <1>9, <1>13, Restored
<1> QED
  BY <1>11, <1>12, <1>14

LEMMA ResendCodeStep ==
    ASSUME Shapes, NEW r \in Reqs, ResendCode(r) PROVE Shapes' /\ Undisturbed
<1>0. PICK u \in Existing : \E l :
         /\ l = [Reading("issue", u) EXCEPT !.email = users[u].email, !.purpose = "registration"]
         /\ Start(r, "register", l)
  BY DEF ResendCode
<1>1. PICK l :
         /\ l = [Reading("issue", u) EXCEPT !.email = users[u].email, !.purpose = "registration"]
         /\ Start(r, "register", l)
  BY <1>0
<1>2. u \in Users /\ users[u].email \in Emails
  BY Rowed DEF Shapes, Rows
<1>3. /\ l \in Locals /\ l.pc = "issue" /\ l.user = u /\ l.email = users[u].email
      /\ l.purpose = "registration" /\ l.code = 0
  BY <1>1, <1>2 DEF Reading, Idle, Locals, PCs, Purposes
<1>4. Prepared(l, Existing, codes, profiles) /\ Calm(l)
  BY <1>2, <1>3 DEF Calm, Prepared, Provided, Found, Purposes
<1> QED
  BY <1>1, <1>4, Started

LEMMA ForgotPasswordStep ==
    ASSUME Shapes, NEW r \in Reqs, ForgotPassword(r) PROVE Shapes' /\ Undisturbed
<1>0. PICK u \in Existing : \E l :
         /\ l = [Reading("issue", u) EXCEPT !.email = users[u].email, !.purpose = ResetPurpose(u)]
         /\ Start(r, "reset", l)
  BY DEF ForgotPassword
<1>1. PICK l :
         /\ l = [Reading("issue", u) EXCEPT !.email = users[u].email, !.purpose = ResetPurpose(u)]
         /\ Start(r, "reset", l)
  BY <1>0
<1>2. u \in Users /\ users[u].email \in Emails /\ ResetPurpose(u) \in Purposes
  BY Rowed DEF Shapes, Rows, ResetPurpose, Purposes
<1>3. /\ l \in Locals /\ l.pc = "issue" /\ l.user = u /\ l.email = users[u].email
      /\ l.purpose = ResetPurpose(u) /\ l.code = 0
  BY <1>1, <1>2 DEF Reading, Idle, Locals, PCs
<1>4. Prepared(l, Existing, codes, profiles) /\ Calm(l)
  BY <1>2, <1>3 DEF Calm, Prepared, Provided, Found
<1> QED
  BY <1>1, <1>4, Started

LEMMA VerifyRegistrationStep ==
    ASSUME Shapes, NEW r \in Reqs, VerifyRegistration(r) PROVE Shapes' /\ Undisturbed
<1>0. PICK u \in Existing, v \in Values : \E l :
         /\ l = [Reading("find_code", u) EXCEPT !.email = users[u].email,
                                                !.value = v, !.purpose = "registration"]
         /\ Start(r, "verify", l)
  BY DEF VerifyRegistration
<1>1. PICK l :
         /\ l = [Reading("find_code", u) EXCEPT !.email = users[u].email,
                                                !.value = v, !.purpose = "registration"]
         /\ Start(r, "verify", l)
  BY <1>0
<1>2. u \in Users /\ users[u].email \in Emails
  BY Rowed DEF Shapes, Rows
<1>3. /\ l \in Locals /\ l.pc = "find_code" /\ l.user = u /\ l.email = users[u].email
      /\ l.purpose = "registration" /\ l.code = 0
  BY <1>1, <1>2 DEF Reading, Idle, Locals, PCs, Purposes
<1>4. Prepared(l, Existing, codes, profiles) /\ Calm(l)
  BY <1>2, <1>3 DEF Calm, Prepared, Provided, Found, Purposes
<1> QED
  BY <1>1, <1>4, Started

LEMMA ResetPasswordStep ==
    ASSUME Shapes, NEW r \in Reqs, ResetPassword(r) PROVE Shapes' /\ Undisturbed
<1>0. PICK u \in Existing, v \in Values, p \in Passwords : \E l :
         /\ l = [Reading("find_code", u) EXCEPT !.email = users[u].email, !.pass = p,
                                                !.value = v, !.purpose = ResetPurpose(u)]
         /\ Start(r, "reset", l)
  BY DEF ResetPassword
<1>1. PICK l :
         /\ l = [Reading("find_code", u) EXCEPT !.email = users[u].email, !.pass = p,
                                                !.value = v, !.purpose = ResetPurpose(u)]
         /\ Start(r, "reset", l)
  BY <1>0
<1>2. u \in Users /\ users[u].email \in Emails /\ ResetPurpose(u) \in Purposes
  BY Rowed DEF Shapes, Rows, ResetPurpose, Purposes
<1>3. /\ l \in Locals /\ l.pc = "find_code" /\ l.user = u /\ l.email = users[u].email
      /\ l.pass = p /\ l.purpose = ResetPurpose(u) /\ l.code = 0
  BY <1>1, <1>2 DEF Reading, Idle, Locals, PCs
<1>4. Prepared(l, Existing, codes, profiles) /\ Calm(l)
  BY <1>2, <1>3 DEF Calm, Prepared, Provided, Found
<1> QED
  BY <1>1, <1>4, Started

LEMMA ChangePasswordStep ==
    ASSUME Shapes, NEW r \in Reqs, ChangePassword(r) PROVE Shapes' /\ Undisturbed
<1>0. PICK u \in Users, p \in Passwords : \E l :
         /\ u \in Existing
         /\ l = [Reading("set_password", u) EXCEPT !.pass = p]
         /\ Start(r, "change", l)
  BY DEF ChangePassword, CurrentUser
<1>1. PICK l :
         /\ u \in Existing
         /\ l = [Reading("set_password", u) EXCEPT !.pass = p]
         /\ Start(r, "change", l)
  BY <1>0
<1>2. l \in Locals /\ l.pc = "set_password" /\ l.user = u /\ l.pass = p /\ l.code = 0
  BY <1>1 DEF Reading, Idle, Locals, PCs
<1>3. Prepared(l, Existing, codes, profiles) /\ Calm(l)
  BY <1>1, <1>2 DEF Calm, Prepared, Provided, Found
<1> QED
  BY <1>1, <1>3, Started

LEMMA SaveProfileStep ==
    ASSUME Shapes, NEW r \in Reqs, SaveProfile(r) PROVE Shapes' /\ Undisturbed
<1>0. PICK u \in Users : \E l :
         u \in Existing /\ l = Reading("profile", u) /\ Start(r, "onboarding", l)
  BY DEF SaveProfile, CurrentUser
<1>1. PICK l :
         u \in Existing /\ l = Reading("profile", u) /\ Start(r, "onboarding", l)
  BY <1>0
<1>2. l \in Locals /\ l.pc = "profile" /\ l.user = u /\ l.code = 0
  BY <1>1 DEF Reading, Idle, Locals, PCs
<1>3. Prepared(l, Existing, codes, profiles) /\ Calm(l)
  BY <1>1, <1>2 DEF Calm, Prepared, Provided, Found
<1> QED
  BY <1>1, <1>3, Started

LEMMA SuspendUserStep ==
    ASSUME Shapes, NEW r \in Reqs, SuspendUser(r) PROVE Shapes' /\ Undisturbed
<1>0. PICK a \in Existing, u \in Existing, status \in AccountStatuses : \E l :
         /\ a # u
         /\ l = [[Reading("suspend", u) EXCEPT !.change = [account |-> status]] EXCEPT !.actor = a]
         /\ Start(r, "admin", l)
  BY DEF SuspendUser, StartAdmin
<1>1. PICK l :
         /\ a # u
         /\ l = [[Reading("suspend", u) EXCEPT !.change = [account |-> status]] EXCEPT !.actor = a]
         /\ Start(r, "admin", l)
  BY <1>0
<1>2. a \in Users /\ u \in Users /\ a # NULL
  BY Rowed DEF Shapes
<1>3. /\ l \in Locals /\ l.pc = "suspend" /\ l.user = u /\ l.change = [account |-> status]
      /\ l.actor = a /\ l.code = 0
  BY <1>1, <1>2 DEF Reading, Idle, Locals, PCs, Changes
<1>4. Prepared(l, Existing, codes, profiles) /\ Calm(l)
  BY <1>1, <1>2, <1>3 DEF Calm, Prepared, Provided, Found
<1> QED
  BY <1>1, <1>4, Started

LEMMA ActivateUserStep ==
    ASSUME Shapes, NEW r \in Reqs, ActivateUser(r) PROVE Shapes' /\ Undisturbed
<1>0. PICK a \in Existing, u \in Existing : \E l :
         /\ l = [[Reading("activate", u) EXCEPT !.row = users[u]] EXCEPT !.actor = a]
         /\ Start(r, "admin", l)
  BY DEF ActivateUser, StartAdmin
<1>1. PICK l :
         /\ l = [[Reading("activate", u) EXCEPT !.row = users[u]] EXCEPT !.actor = a]
         /\ Start(r, "admin", l)
  BY <1>0
<1>2. a \in Users /\ u \in Users /\ a # NULL /\ users[u] \in Rows
  BY Rowed DEF Shapes
<1>3. /\ l \in Locals /\ l.pc = "activate" /\ l.user = u /\ l.row = users[u]
      /\ l.actor = a /\ l.code = 0
  BY <1>1, <1>2 DEF Reading, Idle, Locals, PCs
<1>4. Prepared(l, Existing, codes, profiles) /\ Calm(l)
  BY <1>1, <1>2, <1>3 DEF Calm, Prepared, Provided, Found
<1> QED
  BY <1>1, <1>4, Started

(* The administrator who acts demotes nobody who is himself.               *)
LEMMA UpdateUserStep ==
    ASSUME Shapes, NEW r \in Reqs, UpdateUser(r) PROVE Shapes' /\ Undisturbed
<1>0. PICK a \in Existing, u \in Existing, updates \in Updates : \E pc, l :
         /\ ~DemotesOneself(a, u, updates) /\ CurrentAdmin(a)
         /\ pc = IF "email" \in DOMAIN updates THEN "update_find" ELSE "update"
         /\ l = [[Reading(pc, u) EXCEPT !.change = updates] EXCEPT !.actor = a]
         /\ Start(r, "admin", l)
  BY DEF UpdateUser, StartAdmin
<1>1. PICK pc, l :
         /\ ~DemotesOneself(a, u, updates) /\ CurrentAdmin(a)
         /\ pc = IF "email" \in DOMAIN updates THEN "update_find" ELSE "update"
         /\ l = [[Reading(pc, u) EXCEPT !.change = updates] EXCEPT !.actor = a]
         /\ Start(r, "admin", l)
  BY <1>0
<1>2. a \in Users /\ u \in Users /\ a # NULL /\ pc \in {"update", "update_find"}
  BY <1>1, Rowed DEF Shapes
<1>3. a = u => Harmless(updates)
  <2>1. CASE a = u
    <3>1. users[u].role = "admin"
      BY <1>1, <2>1 DEF CurrentAdmin
    <3>2. "active" \in DOMAIN updates => updates["active"] \in BOOLEAN
      BY UpdatesAssumption DEF UpdateFields
    <3> QED
      BY <1>1, <2>1, <3>1, <3>2 DEF DemotesOneself, Harmless
  <2> QED
    BY <2>1
<1>4. /\ l \in Locals /\ l.pc = pc /\ l.user = u /\ l.change = updates
      /\ l.actor = a /\ l.code = 0
  BY <1>1, <1>2 DEF Reading, Idle, Locals, PCs, Changes
<1>5. Prepared(l, Existing, codes, profiles) /\ Calm(l)
  BY <1>2, <1>3, <1>4 DEF Calm, Prepared, Provided, Found
<1> QED
  BY <1>1, <1>5, Started

LEMMA EnsureSuperAdminStep ==
    ASSUME Shapes, NEW r \in Reqs, EnsureSuperAdmin(r) PROVE Shapes' /\ Undisturbed
<1>1. PICK u, l : /\ u = UserOf(AdminEmail)
                  /\ l = [Reading("bootstrap", u) EXCEPT !.row = RowOf(u)]
                  /\ Start(r, "start", l)
  BY DEF EnsureSuperAdmin
<1>2. u \in Existing \cup {NULL} /\ (u # NULL => users[u].email = AdminEmail)
  BY <1>1, FoundUser DEF Shapes
<1>3. u # NULL => u \in Users /\ users[u] \in Rows /\ RowOf(u) = users[u]
  BY <1>2, Rowed DEF Shapes, RowOf
<1>4. RowOf(u) \in Rows \cup {NULL} /\ u \in Users \cup {NULL}
  BY <1>3 DEF RowOf
<1>5. l \in Locals /\ l.pc = "bootstrap" /\ l.user = u /\ l.row = RowOf(u) /\ l.code = 0
  BY <1>1, <1>4 DEF Reading, Idle, Locals, PCs
<1>6. Prepared(l, Existing, codes, profiles) /\ Calm(l)
  BY <1>2, <1>3, <1>5 DEF Calm, Prepared, Provided, Found
<1> QED
  BY <1>1, <1>6, Started

LEMMA VerifyUserStep ==
    ASSUME Shapes, NEW r \in Reqs, VerifyUser(r) PROVE Shapes' /\ Undisturbed
<1> DEFINE u == req[r].user
<1>1. req[r] \in Locals /\ Provided(req[r]) /\ Found(req[r], Existing, codes, profiles)
  BY Carried DEF Shapes
<1>2. PICK row : /\ At(r, "verified") /\ Update(r, row)
                 /\ row = [users[u] EXCEPT !.verified = TRUE, !.active = TRUE]
  BY DEF VerifyUser
<1>3. u \in Existing
  BY <1>1, <1>2 DEF At, Provided, Found
<1>4. u \in Users /\ users[u] \in Rows /\ (users[u].onboarded => u \in profiles)
  BY <1>3, Rowed DEF Shapes, UsersOK
<1>5. row \in Rows /\ row.email = users[u].email /\ row.status = users[u].status
      /\ (row.onboarded => u \in profiles)
  BY <1>2, <1>3, <1>4 DEF Rows
<1> QED
  BY <1>2, <1>3, <1>5, UpdateStep

LEMMA SetPasswordStep ==
    ASSUME Shapes, NEW r \in Reqs, SetPassword(r) PROVE Shapes' /\ Undisturbed
<1> DEFINE u == req[r].user
<1>1. req[r] \in Locals /\ Provided(req[r]) /\ Found(req[r], Existing, codes, profiles)
  BY Carried DEF Shapes
<1>2. PICK row : /\ At(r, "set_password") /\ Update(r, row)
                 /\ row = [users[u] EXCEPT !.pass = req[r].pass]
  BY DEF SetPassword
<1>3. u \in Existing /\ req[r].pass \in Passwords
  BY <1>1, <1>2 DEF At, Provided, Found
<1>4. u \in Users /\ users[u] \in Rows /\ (users[u].onboarded => u \in profiles)
  BY <1>3, Rowed DEF Shapes, UsersOK
<1>5. row \in Rows /\ row.email = users[u].email /\ row.status = users[u].status
      /\ (row.onboarded => u \in profiles)
  BY <1>2, <1>3, <1>4 DEF Rows
<1> QED
  BY <1>2, <1>3, <1>5, UpdateStep

LEMMA SetOnboardedStep ==
    ASSUME Shapes, NEW r \in Reqs, SetOnboarded(r) PROVE Shapes' /\ Undisturbed
<1> DEFINE u == req[r].user
<1>1. req[r] \in Locals /\ Provided(req[r]) /\ Found(req[r], Existing, codes, profiles)
  BY Carried DEF Shapes
<1>2. PICK row : /\ At(r, "flag") /\ Update(r, row)
                 /\ row = [users[u] EXCEPT !.onboarded = TRUE]
  BY DEF SetOnboarded
<1>3. u \in Existing /\ u \in profiles
  BY <1>1, <1>2 DEF At, Provided, Found
<1>4. u \in Users /\ users[u] \in Rows /\ (users[u].onboarded => u \in profiles)
  BY <1>3, Rowed DEF Shapes, UsersOK
<1>5. row \in Rows /\ row.email = users[u].email /\ row.status = users[u].status
      /\ (row.onboarded => u \in profiles)
  BY <1>2, <1>3, <1>4 DEF Rows
<1> QED
  BY <1>2, <1>3, <1>5, UpdateStep

LEMMA SuspendWriteStep ==
    ASSUME Shapes, NEW r \in Reqs, SuspendWrite(r) PROVE Shapes' /\ Undisturbed
<1> DEFINE u == req[r].user
<1>1. req[r] \in Locals /\ Provided(req[r]) /\ Found(req[r], Existing, codes, profiles)
  BY Carried DEF Shapes
<1>2. PICK row : /\ At(r, "suspend") /\ Update(r, row)
                 /\ row = [users[u] EXCEPT !.active = FALSE, !.account = req[r].change.account]
  BY DEF SuspendWrite
<1>3. u \in Existing /\ req[r].change.account \in AccountStatuses
  BY <1>1, <1>2 DEF At, Provided, Found
<1>4. u \in Users /\ users[u] \in Rows /\ (users[u].onboarded => u \in profiles)
  BY <1>3, Rowed DEF Shapes, UsersOK
<1>5. row \in Rows /\ row.email = users[u].email /\ row.status = users[u].status
      /\ (row.onboarded => u \in profiles)
  BY <1>2, <1>3, <1>4 DEF Rows
<1> QED
  BY <1>2, <1>3, <1>5, UpdateStep

LEMMA ActivateWriteStep ==
    ASSUME Shapes, NEW r \in Reqs, ActivateWrite(r)
    PROVE  Shapes' /\ Restores(r, IF req[r].row.status = "suspended" THEN "active"
                                  ELSE req[r].row.status)
<1> DEFINE u == req[r].user
<1>1. req[r] \in Locals /\ Provided(req[r]) /\ Found(req[r], Existing, codes, profiles)
  BY Carried DEF Shapes
<1>2. PICK row, status :
         /\ At(r, "activate") /\ Update(r, row)
         /\ status = IF req[r].row.status = "suspended" THEN "active" ELSE req[r].row.status
         /\ row = [users[u] EXCEPT !.active = TRUE, !.account = NULL, !.status = status]
  BY DEF ActivateWrite
<1>3. u \in Existing /\ req[r].row \in Rows
  BY <1>1, <1>2 DEF At, Provided, Found
<1>4. u \in Users /\ users[u] \in Rows /\ (users[u].onboarded => u \in profiles)
  BY <1>3, Rowed DEF Shapes, UsersOK
<1>5. status \in SubscriptionStatuses \cup {NULL}
  BY <1>2, <1>3 DEF Rows, SubscriptionStatuses
<1>6. /\ row \in Rows /\ row.email = users[u].email /\ (row.onboarded => u \in profiles)
      /\ row.status = status
  BY <1>2, <1>4, <1>5 DEF Rows
<1>7. Shapes' /\ users'[u] = row
  BY <1>2, <1>3, <1>6, UpdateStep
<1>8. users' = [users EXCEPT ![u] = row] /\ req' = [req EXCEPT ![r] = Idle] /\ UNCHANGED codes
  BY <1>2 DEF Update, Finish
<1>9. Calm(Idle) /\ Idle.pc \notin {"register", "activate"}
  BY DEF Calm, Idle
<1>10. Restores(r, status)
  BY <1>3, <1>4, <1>6, <1>7, <1>8, <1>9, Restored
<1> QED
  BY <1>2, <1>7, <1>10

(* What an update makes of a row.                                          *)
LEMMA AmendedRow ==
    ASSUME NEW row \in Rows, NEW updates \in Updates, NEW new, new = Amended(row, updates)
    PROVE  /\ new \in Rows /\ new.onboarded = row.onboarded
           /\ \A f \in {"email", "role", "active", "verified", "status"} :
                 new[f] = IF f \in DOMAIN updates THEN updates[f] ELSE row[f]
<1> DEFINE fields == {"email", "pass", "role", "active", "verified", "account", "plan", "status", "onboarded"}
<1>1. DOMAIN row = fields
  BY DEF Rows
<1>2. \A f \in fields : new[f] = IF f \in DOMAIN updates THEN updates[f] ELSE row[f]
  BY <1>1 DEF Amended
<1>3. /\ "pass" \notin DOMAIN updates /\ "onboarded" \notin DOMAIN updates
      /\ "email" \in DOMAIN updates => updates["email"] \in Emails
      /\ "role" \in DOMAIN updates => updates["role"] \in Roles
      /\ "active" \in DOMAIN updates => updates["active"] \in BOOLEAN
      /\ "verified" \in DOMAIN updates => updates["verified"] \in BOOLEAN
      /\ "account" \in DOMAIN updates => updates["account"] \in AccountStatuses
      /\ "plan" \in DOMAIN updates => updates["plan"] \in BOOLEAN
      /\ "status" \in DOMAIN updates => updates["status"] \in SubscriptionStatuses
  BY UpdatesAssumption DEF UpdateFields
<1>4. /\ row["email"] \in Emails /\ row["pass"] \in Passwords /\ row["role"] \in Roles
      /\ row["active"] \in BOOLEAN /\ row["verified"] \in BOOLEAN
      /\ row["account"] \in AccountStatuses \cup {NULL} /\ row["plan"] \in BOOLEAN
      /\ row["status"] \in SubscriptionStatuses \cup {NULL} /\ row["onboarded"] \in BOOLEAN
  BY DEF Rows
<1>5. /\ new["email"] \in Emails /\ new["pass"] \in Passwords /\ new["role"] \in Roles
      /\ new["active"] \in BOOLEAN /\ new["verified"] \in BOOLEAN
      /\ new["account"] \in AccountStatuses \cup {NULL} /\ new["plan"] \in BOOLEAN
      /\ new["status"] \in SubscriptionStatuses \cup {NULL} /\ new["onboarded"] = row["onboarded"]
  BY <1>2, <1>3, <1>4
<1>6. new = [email |-> new["email"], pass |-> new["pass"], role |-> new["role"],
             active |-> new["active"], verified |-> new["verified"], account |-> new["account"],
             plan |-> new["plan"], status |-> new["status"], onboarded |-> new["onboarded"]]
  BY <1>1 DEF Amended
<1>7. new \in Rows
  BY <1>4, <1>5, <1>6 DEF Rows
<1> QED
  BY <1>2, <1>5, <1>7

(* The unique index lets only an address be written that is free.          *)
LEMMA UpdateWriteStep ==
    ASSUME Shapes, NEW r \in Reqs, UpdateWrite(r)
    PROVE  /\ Shapes'
           /\ \/ Undisturbed
              \/ "status" \in DOMAIN req[r].change /\ Restores(r, req[r].change["status"])
<1> DEFINE u == req[r].user
           updates == req[r].change
<1>1. CASE EmailTaken(r)
  BY <1>1, Finished DEF UpdateWrite
<1>2. CASE ~EmailTaken(r)
  <2>1. req[r] \in Locals /\ Provided(req[r]) /\ Found(req[r], Existing, codes, profiles)
    BY Carried DEF Shapes
  <2>2. PICK row : At(r, "update") /\ Update(r, row) /\ row = Amended(users[u], updates)
    BY <1>2 DEF UpdateWrite
  <2>3. u \in Existing /\ updates \in Updates
    BY <2>1, <2>2 DEF At, Provided, Found
  <2>4. u \in Users /\ users[u] \in Rows /\ (users[u].onboarded => u \in profiles)
    BY <2>3, Rowed DEF Shapes, UsersOK
  <2>5. /\ row \in Rows /\ (row.onboarded => u \in profiles)
        /\ row.email = IF "email" \in DOMAIN updates THEN updates["email"] ELSE users[u].email
        /\ row.status = IF "status" \in DOMAIN updates THEN updates["status"] ELSE users[u].status
    BY <2>2, <2>3, <2>4, AmendedRow
  <2>6. \A w \in Existing \ {u} : users[w].email # row.email
    <3>1. CASE "email" \in DOMAIN updates
      <4>1. UserOf(updates["email"]) \in {NULL, u}
        BY <1>2, <3>1 DEF EmailTaken
      <4> QED
        BY <2>5, <3>1, <4>1, FoundUser DEF Shapes, UsersOK
    <3>2. CASE "email" \notin DOMAIN updates
      BY <2>3, <2>5, <3>2 DEF Shapes, UsersOK
    <3> QED
      BY <3>1, <3>2
  <2>7. users' = [users EXCEPT ![u] = row] /\ Finish(r) /\ UNCHANGED <<codes, profiles>>
    BY <2>2 DEF Update
  <2>8. StatusOf(u) = users[u].status
    BY <2>3 DEF StatusOf
  <2>9. Shapes' /\ (row.status = StatusOf(u) => Undisturbed)
    BY <2>4, <2>5, <2>6, <2>7, LastStep, ZenonT(60)
  <2>10. Restores(r, row.status)
    <3>1. Calm(Idle) /\ Idle.pc \notin {"register", "activate"}
      BY DEF Calm, Idle
    <3>2. req' = [req EXCEPT ![r] = Idle]
      BY <2>7 DEF Finish
    <3> QED
      BY <2>3, <2>5, <2>7, <3>1, <3>2, Restored
  <2> QED
    BY <2>5, <2>8, <2>9, <2>10
<1> QED
  BY <1>1, <1>2

LEMMA UpdateFindStep ==
    ASSUME Shapes, NEW r \in Reqs, UpdateFind(r) PROVE Shapes' /\ Undisturbed
<1>1. CASE Finish(r)
  BY <1>1, Finished DEF UpdateFind
<1>2. CASE Goto(r, "update")
  <2>1. req[r] \in Locals /\ Provided(req[r]) /\ Found(req[r], Existing, codes, profiles)
    BY Carried DEF Shapes
  <2>2. PICK l : l = [req[r] EXCEPT !.pc = "update"] /\ req' = [req EXCEPT ![r] = l]
    BY <1>2 DEF Goto
  <2>3. /\ l \in Locals /\ l.pc = "update" /\ l.user = req[r].user /\ l.code = req[r].code
        /\ l.actor = req[r].actor /\ l.change = req[r].change
    BY <2>1, <2>2 DEF Locals, PCs
  <2>4. /\ req[r].user \in Existing /\ req[r].change \in Updates /\ req[r].actor # NULL
        /\ req[r].actor = req[r].user => Harmless(req[r].change)
    BY <2>1 DEF UpdateFind, At, Provided, Found
  <2>5. Prepared(l, Existing, codes, profiles) /\ Calm(l)
    BY <2>1, <2>3, <2>4 DEF Calm, Prepared, Provided, Found
  <2> QED
    BY <2>2, <2>5, QuietStep DEF UpdateFind
<1> QED
  BY <1>1, <1>2 DEF UpdateFind

LEMMA UpsertProfileStep ==
    ASSUME Shapes, NEW r \in Reqs, UpsertProfile(r) PROVE Shapes' /\ Undisturbed
<1>1. req[r] \in Locals /\ Provided(req[r]) /\ Found(req[r], Existing, codes, profiles)
  BY Carried DEF Shapes
<1>2. PICK l : l = [req[r] EXCEPT !.pc = "flag"] /\ req' = [req EXCEPT ![r] = l]
  BY DEF UpsertProfile, Goto
<1>3. /\ profiles' = profiles \cup {req[r].user} /\ UNCHANGED <<users, codes>>
      /\ req[r].user \in Existing
  BY <1>1 DEF UpsertProfile, At, Found
<1>4. Existing' = Existing /\ UsersOK'
  BY <1>3 DEF Shapes, UsersOK, Existing
<1>5. Grow /\ CodesOK'
  BY <1>3, <1>4, CodesKept DEF Shapes, Grow
<1>6. l \in Locals /\ l.pc = "flag" /\ l.user = req[r].user /\ l.code = req[r].code
  BY <1>1, <1>2 DEF Locals, PCs
<1>7. Prepared(l, Existing', codes', profiles')
  BY <1>1, <1>3, <1>4, <1>6 DEF Prepared, Provided, Found
<1>8. Shapes'
  BY <1>2, <1>4, <1>5, <1>7, LocalStep DEF Shapes
<1>9. req \in [Reqs -> Locals] /\ (\A u \in Existing : users'[u] = users[u]) /\ Calm(l)
  BY <1>3, <1>6 DEF Shapes, RequestsOK, Calm
<1> QED
  BY <1>2, <1>3, <1>4, <1>8, <1>9 DEF Undisturbed, StatusOf

(* Two fields of a user written at once are one row written.               *)
LEMMA Charged ==
    ASSUME users \in [Users -> Rows \cup {NULL}], NEW u \in Users, users[u] \in Rows, NEW status,
           NEW row, row = [users[u] EXCEPT !.plan = TRUE, !.status = status],
           users' = [users EXCEPT ![u].plan = TRUE, ![u].status = status]
    PROVE  users' = [users EXCEPT ![u] = row]
  BY DEF Rows

LEMMA ChangeSubscriptionStep ==
    ASSUME Shapes, ChangeSubscription PROVE Shapes' /\ Existing' = Existing
<1>0. PICK u \in Existing, status \in SubscriptionStatuses : \E row :
         /\ row = [users[u] EXCEPT !.plan = TRUE, !.status = status]
         /\ users' = [users EXCEPT ![u].plan = TRUE, ![u].status = status]
         /\ UNCHANGED <<codes, profiles, req>>
  BY DEF ChangeSubscription
<1>1. PICK row :
         /\ row = [users[u] EXCEPT !.plan = TRUE, !.status = status]
         /\ users' = [users EXCEPT ![u].plan = TRUE, ![u].status = status]
         /\ UNCHANGED <<codes, profiles, req>>
  BY <1>0
<1>2. u \in Users /\ users[u] \in Rows /\ (users[u].onboarded => u \in profiles)
  BY Rowed DEF Shapes, UsersOK
<1>3. row \in Rows /\ row.email = users[u].email /\ (row.onboarded => u \in profiles)
  BY <1>1, <1>2 DEF Rows
<1>4. \A w \in Existing \ {u} : users[w].email # row.email
  BY <1>3 DEF Shapes, UsersOK
<1>5. UsersOK' /\ Existing' = Existing
  <2>1. users \in [Users -> Rows \cup {NULL}]
    BY DEF Shapes, UsersOK
  <2>2. /\ row = [users[u] EXCEPT !.plan = TRUE, !.status = status]
        /\ users' = [users EXCEPT ![u].plan = TRUE, ![u].status = status]
    BY <1>1
  <2>3. users' = [users EXCEPT ![u] = row]
    BY <1>2, <2>1, <2>2, Charged
  <2>4. UNCHANGED profiles /\ UsersOK
    BY <1>1 DEF Shapes
  <2>5. UsersOK' /\ Existing' = Existing \cup {u}
    BY <1>2, <1>3, <1>4, <2>3, <2>4, Written
  <2> QED
    BY <2>5
<1>6. Grow /\ CodesOK'
  BY <1>1, <1>5, Same, CodesKept DEF Shapes
<1> QED
  BY <1>1, <1>5, <1>6, NoLocalStep DEF Shapes

LEMMA BootstrapCreateStep ==
    ASSUME Shapes, NEW r \in Reqs, BootstrapCreate(r) PROVE Shapes' /\ Undisturbed
<1>1. CASE UserOf(AdminEmail) # NULL
  BY <1>1, Finished DEF BootstrapCreate
<1>2. CASE UserOf(AdminEmail) = NULL
  <2>1. PICK u, row :
           /\ u = CHOOSE free \in Users \ Existing : TRUE
           /\ row = NewUser(AdminEmail, AdminPassword, "admin")
           /\ Existing # Users /\ users' = [users EXCEPT ![u] = row]
           /\ UNCHANGED <<codes, profiles>>
    BY <1>2 DEF BootstrapCreate
  <2>2. u \in Users \ Existing
    <3>1. Existing \subseteq Users
      BY DEF Existing
    <3>2. \E free : free \in Users \ Existing
      BY <2>1, <3>1
    <3> QED
      BY <2>1, <3>2
  <2>3. row \in Rows /\ row.email = AdminEmail /\ ~row.onboarded /\ row.status = NULL
    BY <2>1, AdminAssumption DEF NewUser, Rows, Roles
  <2>4. \A w \in Existing \ {u} : users[w].email # row.email
    BY <1>2, <2>3, FoundUser DEF Shapes
  <2>5. users' = [users EXCEPT ![u] = row] /\ UNCHANGED <<codes, profiles>> /\ u \in Users
        /\ Finish(r)
    BY <2>1, <2>2 DEF BootstrapCreate
  <2> QED
    BY <2>2, <2>3, <2>4, <2>5, LastStep DEF StatusOf
<1> QED
  BY <1>1, <1>2

(* What the bootstrap has read has the administrator's address already, so *)
(* it does not write the address, which another may have taken since.      *)
LEMMA BootstrapUpdateStep ==
    ASSUME Shapes, NEW r \in Reqs, BootstrapUpdate(r) PROVE Shapes' /\ Undisturbed
<1> DEFINE u == req[r].user
           read == req[r].row
           wanted == NewUser(AdminEmail, AdminPassword, "admin")
           written(f) == f \in {"email", "role", "active", "verified", "pass"} /\ read[f] # wanted[f]
<1>1. req[r] \in Locals /\ Provided(req[r]) /\ Found(req[r], Existing, codes, profiles)
  BY Carried DEF Shapes
<1>2. PICK row : /\ At(r, "bootstrap") /\ u # NULL /\ Finish(r)
                 /\ row = [f \in DOMAIN read |-> IF written(f) THEN wanted[f] ELSE users[u][f]]
                 /\ users' = [users EXCEPT ![u] = row]
                 /\ UNCHANGED <<codes, profiles>>
  BY DEF BootstrapUpdate
<1>3. u \in Existing /\ read \in Rows /\ read.email = AdminEmail
  BY <1>1, <1>2 DEF At, Found
<1>4. u \in Users /\ users[u] \in Rows /\ (users[u].onboarded => u \in profiles)
  BY <1>3, Rowed DEF Shapes, UsersOK
<1>5. wanted \in Rows /\ wanted.email = AdminEmail
  BY AdminAssumption DEF NewUser, Rows, Roles
<1>6. row \in Rows /\ row.email = users[u].email /\ row.status = users[u].status
      /\ (row.onboarded => u \in profiles)
  <2> HIDE DEF u, read, wanted
  <2>1. DOMAIN read = {"email", "pass", "role", "active", "verified", "account", "plan", "status", "onboarded"}
    BY <1>3 DEF Rows
  <2>2. /\ row.email = users[u].email /\ row.account = users[u].account /\ row.plan = users[u].plan
        /\ row.status = users[u].status /\ row.onboarded = users[u].onboarded
    BY <1>2, <1>3, <1>5, <2>1
  <2>3. /\ row.pass \in {wanted.pass, users[u].pass} /\ row.role \in {wanted.role, users[u].role}
        /\ row.active \in {wanted.active, users[u].active}
        /\ row.verified \in {wanted.verified, users[u].verified}
    BY <1>2, <2>1
  <2>4. row = [email |-> row.email, pass |-> row.pass, role |-> row.role, active |-> row.active,
               verified |-> row.verified, account |-> row.account, plan |-> row.plan,
               status |-> row.status, onboarded |-> row.onboarded]
    BY <1>2, <2>1
  <2>5. /\ row.email \in Emails /\ row.pass \in Passwords /\ row.role \in Roles
        /\ row.active \in BOOLEAN /\ row.verified \in BOOLEAN
        /\ row.account \in AccountStatuses \cup {NULL} /\ row.plan \in BOOLEAN
        /\ row.status \in SubscriptionStatuses \cup {NULL} /\ row.onboarded \in BOOLEAN
    BY <1>4, <1>5, <2>2, <2>3 DEF Rows
  <2>6. row \in Rows
    BY <2>4, <2>5 DEF Rows
  <2> QED
    BY <1>4, <2>2, <2>6
<1>7. \A w \in Existing \ {u} : users[w].email # row.email
  BY <1>3, <1>6 DEF Shapes, UsersOK
<1> HIDE DEF u, read, wanted, written
<1>8. users' = [users EXCEPT ![u] = row] /\ UNCHANGED <<codes, profiles>> /\ Finish(r)
  BY <1>2
<1> QED
  BY <1>3, <1>4, <1>6, <1>7, <1>8, LastStep DEF StatusOf

-----------------------------------------------------------------------------
(* The codes.                                                              *)

(* Closing or using codes keeps their shape, and what is found.            *)
LEMMA CodesMapped ==
    ASSUME CodesOK, UNCHANGED <<users, profiles>>, NEW cs, codes' = cs,
           cs = [n \in DOMAIN codes |-> cs[n]],
           \A n \in DOMAIN codes : /\ cs[n] \in Codes /\ cs[n].email = codes[n].email
                                   /\ cs[n].purpose = codes[n].purpose /\ cs[n].user = codes[n].user
    PROVE  CodesOK' /\ Grow
<1>1. DOMAIN codes = 1 .. Len(codes) /\ Len(codes) \in Nat
  BY LenProperties DEF CodesOK
<1>2. cs \in [1 .. Len(codes) -> Codes]
  BY <1>1
<1>3. cs \in Seq(Codes)
  BY <1>1, <1>2, SeqDef
<1>4. Existing' = Existing
  BY DEF Existing
<1>5. DOMAIN cs = DOMAIN codes
  OBVIOUS
<1> QED
  BY <1>3, <1>4, <1>5 DEF CodesOK, Grow

(* create_code, its update_many: what concerns the request is closed.      *)
LEMMA IssueCloseStep ==
    ASSUME Shapes, NEW r \in Reqs, IssueClose(r)
    PROVE  /\ Shapes' /\ UNCHANGED users /\ DOMAIN codes' = DOMAIN codes
           /\ \A n \in DOMAIN codes :
                 /\ \A f \in {"email", "purpose", "user", "value", "uses"} : codes'[n][f] = codes[n][f]
                 /\ codes'[n].open = (codes[n].open /\ ~Concerns(r, n))
           /\ req'[r].pc = "issue_create"
           /\ req'[r].email = req[r].email /\ req'[r].purpose = req[r].purpose
           /\ \A q \in Reqs \ {r} : req'[q] = req[q]
<1>1. req[r] \in Locals /\ Provided(req[r]) /\ Found(req[r], Existing, codes, profiles)
  BY Carried DEF Shapes
<1>2. PICK l, cs :
         /\ l = [req[r] EXCEPT !.pc = "issue_create"] /\ req' = [req EXCEPT ![r] = l]
         /\ cs = [n \in DOMAIN codes |->
                    IF Concerns(r, n) THEN [codes[n] EXCEPT !.open = FALSE] ELSE codes[n]]
         /\ codes' = cs /\ UNCHANGED <<users, profiles>>
  BY DEF IssueClose, Goto
<1>3. \A n \in DOMAIN codes : codes[n] \in Codes
  BY ElementOfSeq, LenProperties DEF Shapes, CodesOK
<1>4. ASSUME NEW n \in DOMAIN codes
      PROVE  /\ cs[n] \in Codes
             /\ cs[n].email = codes[n].email /\ cs[n].purpose = codes[n].purpose
             /\ cs[n].user = codes[n].user /\ cs[n].value = codes[n].value
             /\ cs[n].uses = codes[n].uses
             /\ cs[n].open = (codes[n].open /\ ~Concerns(r, n))
  <2>1. CASE Concerns(r, n)
    <3>1. cs[n] = [codes[n] EXCEPT !.open = FALSE]
      BY <1>2, <2>1
    <3> QED
      BY <1>3, <2>1, <3>1 DEF Codes
  <2>2. CASE ~Concerns(r, n)
    <3>1. cs[n] = codes[n]
      BY <1>2, <2>2
    <3> QED
      BY <1>3, <2>2, <3>1 DEF Codes
  <2> QED
    BY <2>1, <2>2
<1>5. cs = [n \in DOMAIN codes |-> cs[n]]
  BY <1>2
<1>6. CodesOK' /\ Grow
  BY <1>2, <1>4, <1>5, CodesMapped, ZenonT(60) DEF Shapes
<1>7. UsersOK' /\ Existing' = Existing
  BY <1>2, UsersKept DEF Shapes
<1>8. /\ l \in Locals /\ l.pc = "issue_create" /\ l.user = req[r].user /\ l.email = req[r].email
      /\ l.purpose = req[r].purpose /\ l.code = req[r].code
  BY <1>1, <1>2 DEF Locals, PCs
<1>9. DOMAIN cs = DOMAIN codes
  BY <1>2
<1>10. Prepared(l, Existing', codes', profiles')
  BY <1>1, <1>2, <1>7, <1>8, <1>9 DEF IssueClose, At, Prepared, Provided, Found
<1>11. RequestsOK'
  BY <1>2, <1>6, <1>10, LocalStep DEF Shapes
<1>12. req'[r] = l /\ \A q \in Reqs \ {r} : req'[q] = req[q]
  BY <1>2 DEF Shapes, RequestsOK
<1>13. Shapes'
  BY <1>6, <1>7, <1>11 DEF Shapes
<1>14. UNCHANGED users /\ DOMAIN codes' = DOMAIN codes /\ codes' = cs
  BY <1>2, <1>9
<1>15. ASSUME NEW n \in DOMAIN codes
       PROVE  /\ \A f \in {"email", "purpose", "user", "value", "uses"} : codes'[n][f] = codes[n][f]
              /\ codes'[n].open = (codes[n].open /\ ~Concerns(r, n))
  BY <1>4, <1>14
<1>16. /\ req'[r].pc = "issue_create"
       /\ req'[r].email = req[r].email /\ req'[r].purpose = req[r].purpose
  BY <1>8, <1>12
<1> QED
  BY <1>12, <1>13, <1>14, <1>15, <1>16

LEMMA ExpireStep ==
    ASSUME Shapes, Expire
    PROVE  /\ Shapes' /\ UNCHANGED <<users, req>> /\ DOMAIN codes' = DOMAIN codes
           /\ \A n \in DOMAIN codes :
                 /\ \A f \in {"email", "purpose", "user", "value", "uses"} : codes'[n][f] = codes[n][f]
                 /\ codes'[n].open => codes[n].open
<1>0. PICK k \in DOMAIN codes :
         codes' = [codes EXCEPT ![k].open = FALSE] /\ UNCHANGED <<users, profiles, req>>
  BY DEF Expire
<1>1. PICK cs, code :
         /\ code = [codes[k] EXCEPT !.open = FALSE] /\ cs = [codes EXCEPT ![k] = code]
         /\ codes' = cs /\ UNCHANGED <<users, profiles, req>>
  BY <1>0
<1>2. \A n \in DOMAIN codes : codes[n] \in Codes
  BY ElementOfSeq, LenProperties DEF Shapes, CodesOK
<1>3. /\ code \in Codes /\ code.email = codes[k].email /\ code.purpose = codes[k].purpose
      /\ code.user = codes[k].user /\ code.value = codes[k].value /\ code.uses = codes[k].uses
      /\ ~code.open
  BY <1>1, <1>2 DEF Codes
<1>4. \A n \in DOMAIN codes : cs[n] = IF n = k THEN code ELSE codes[n]
  BY <1>1
<1>5. cs = [n \in DOMAIN codes |-> cs[n]] /\ DOMAIN cs = DOMAIN codes
  <2>1. cs = [codes EXCEPT ![k] = code]
    BY <1>1
  <2>2. codes = [n \in DOMAIN codes |-> codes[n]]
    BY LenProperties DEF Shapes, CodesOK
  <2> QED
    BY <2>1, <2>2
<1>6. CodesOK' /\ Grow
  <2>1. \A n \in DOMAIN codes : /\ cs[n] \in Codes /\ cs[n].email = codes[n].email
                                /\ cs[n].purpose = codes[n].purpose /\ cs[n].user = codes[n].user
    BY <1>2, <1>3, <1>4
  <2>2. codes' = cs /\ UNCHANGED <<users, profiles>> /\ CodesOK
    BY <1>1 DEF Shapes
  <2> QED
    BY <1>5, <2>1, <2>2, CodesMapped
<1>7. UsersOK' /\ RequestsOK'
  BY <1>1, <1>6, UsersKept, NoLocalStep DEF Shapes
<1> QED
  BY <1>1, <1>3, <1>4, <1>5, <1>6, <1>7 DEF Shapes

(* create_code, its create.                                                *)
LEMMA IssueCreateStep ==
    ASSUME Shapes, NEW r \in Reqs, IssueCreate(r)
    PROVE  /\ Shapes' /\ UNCHANGED users
           /\ \E n : /\ n \notin DOMAIN codes /\ DOMAIN codes' = DOMAIN codes \cup {n}
                     /\ codes'[n].email = req[r].email /\ codes'[n].purpose = req[r].purpose
                     /\ codes'[n].uses = 0
           /\ \A n \in DOMAIN codes : codes'[n] = codes[n]
           /\ req'[r] = Idle /\ \A q \in Reqs \ {r} : req'[q] = req[q]
<1>1. req[r] \in Locals /\ Provided(req[r]) /\ Found(req[r], Existing, codes, profiles)
  BY Carried DEF Shapes
<1>0. PICK v \in Values : \E code :
         /\ code = [email |-> req[r].email, purpose |-> req[r].purpose,
                    user |-> req[r].user, value |-> v, open |-> TRUE, uses |-> 0]
         /\ codes' = Append(codes, code)
  BY DEF IssueCreate
<1>2. PICK code :
         /\ code = [email |-> req[r].email, purpose |-> req[r].purpose,
                    user |-> req[r].user, value |-> v, open |-> TRUE, uses |-> 0]
         /\ codes' = Append(codes, code)
  BY <1>0
<1>3. At(r, "issue_create") /\ Finish(r) /\ UNCHANGED <<users, profiles>>
  BY DEF IssueCreate
<1>4. req[r].email \in Emails /\ req[r].purpose \in Purposes /\ req[r].user \in Existing
  BY <1>1, <1>3 DEF At, Provided, Found
<1>5. req[r].user \in Users
  BY <1>4, Rowed DEF Shapes
<1>6. /\ code \in Codes /\ code.email = req[r].email /\ code.purpose = req[r].purpose
      /\ code.uses = 0 /\ code.user = req[r].user
  BY <1>2, <1>4, <1>5 DEF Codes
<1>7. codes \in Seq(Codes) /\ DOMAIN codes = 1 .. Len(codes) /\ Len(codes) \in Nat
  BY LenProperties DEF Shapes, CodesOK
<1>8. /\ codes' \in Seq(Codes) /\ DOMAIN codes' = 1 .. Len(codes) + 1
      /\ codes'[Len(codes) + 1] = code /\ \A n \in DOMAIN codes : codes'[n] = codes[n]
  BY <1>2, <1>6, <1>7, AppendProperties
<1>9. DOMAIN codes' = DOMAIN codes \cup {Len(codes) + 1} /\ Len(codes) + 1 \notin DOMAIN codes
  BY <1>7, <1>8
<1>10. UsersOK' /\ Existing' = Existing
  BY <1>3, UsersKept DEF Shapes
<1>11. CodesOK'
  BY <1>4, <1>6, <1>8, <1>9, <1>10 DEF Shapes, CodesOK
<1>12. Grow
  BY <1>3, <1>8, <1>9, <1>10 DEF Grow
<1>13. RequestsOK' /\ req'[r] = Idle /\ \A q \in Reqs \ {r} : req'[q] = req[q]
  BY <1>3, <1>12, Idles, LocalStep DEF Shapes, RequestsOK, Finish
<1> QED
  BY <1>3, <1>6, <1>8, <1>9, <1>10, <1>11, <1>13 DEF Shapes

(* A non-empty set of indices has a greatest one.                          *)
LEMMA Greatest ==
    ASSUME NEW k \in Nat, NEW T, T \subseteq 1 .. k, T # {}
    PROVE  Max(T) \in T
<1> DEFINE U == {k - n : n \in T}
           R == OpToRel(<, Nat)
<1>1. U \subseteq Nat /\ U # {}
  <2> HIDE DEF R
  <2>1. \A n \in T : k - n \in Nat /\ k - n \in U
    OBVIOUS
  <2> QED
    BY <2>1
<1>2. PICK x \in U : \A y \in U : ~(<<y, x>> \in R)
  <2> HIDE DEF U
  <2> QED
    BY <1>1, NatLessThanWellFounded, WFMin
<1>3. \A y \in U : ~(y < x)
  <2>1. \A y \in Nat, z \in Nat : y < z => <<y, z>> \in R
    BY DEF OpToRel
  <2> QED
    BY <1>1, <1>2, <2>1
<1>4. PICK n \in T : x = k - n
  OBVIOUS
<1>5. \A m \in T : n >= m
  BY <1>3, <1>4
<1> QED
  BY <1>5 DEF Max

(* verify_code: the request holds an open code.                            *)
LEMMA FindCodeStep ==
    ASSUME Shapes, NEW r \in Reqs, FindCode(r)
    PROVE  /\ Shapes' /\ UNCHANGED <<users, codes>>
           /\ Calm(req'[r]) \/ (/\ req'[r].pc = "consume"
                               /\ req'[r].code \in DOMAIN codes /\ codes[req'[r].code].open)
           /\ \A q \in Reqs \ {r} : req'[q] = req[q]
<1>1. req[r] \in Locals /\ Provided(req[r]) /\ Found(req[r], Existing, codes, profiles)
  BY Carried DEF Shapes
<1>2. At(r, "find_code") /\ UNCHANGED <<users, codes, profiles>>
  BY DEF FindCode
<1>3. req \in [Reqs -> Locals]
  BY DEF Shapes, RequestsOK
<1>4. CASE Matching(r) = {}
  <2>1. req' = [req EXCEPT ![r] = Idle] /\ Calm(Idle)
    BY <1>4 DEF FindCode, Finish, Calm, Idle
  <2> QED
    BY <1>2, <1>3, <2>1, Idles, QuietStep
<1>5. CASE Matching(r) # {}
  <2>1. PICK n, l : /\ n = Max(Matching(r))
                    /\ l = [req[r] EXCEPT !.pc = "consume", !.code = n, !.value = NULL]
                    /\ req' = [req EXCEPT ![r] = l]
    BY <1>5 DEF FindCode
  <2>2. Matching(r) \subseteq 1 .. Len(codes) /\ Len(codes) \in Nat
    BY LenProperties DEF Shapes, CodesOK, Matching
  <2>3. n \in Matching(r)
    BY <1>5, <2>1, <2>2, Greatest
  <2>4. /\ n \in DOMAIN codes /\ n \in Nat /\ codes[n].open
        /\ codes[n].email = req[r].email /\ codes[n].purpose = req[r].purpose
    BY <2>2, <2>3 DEF Matching, Concerns
  <2>5. /\ l \in Locals /\ l.pc = "consume" /\ l.user = req[r].user /\ l.email = req[r].email
        /\ l.purpose = req[r].purpose /\ l.pass = req[r].pass /\ l.code = n
    BY <1>1, <2>1, <2>4, ZenonT(60) DEF Locals, PCs
  <2>6. Prepared(l, Existing, codes, profiles)
    BY <1>1, <1>2, <2>4, <2>5 DEF At, Prepared, Provided, Found
  <2>7. req'[r] = l /\ \A q \in Reqs \ {r} : req'[q] = req[q]
    BY <1>3, <2>1
  <2>8. Shapes'
    BY <1>2, <2>1, <2>6, QuietStep
  <2> QED
    BY <1>2, <2>4, <2>5, <2>7, <2>8
<1> QED
  BY <1>4, <1>5

(* consume_code.                                                           *)
LEMMA ConsumeCodeStep ==
    ASSUME Shapes, NEW r \in Reqs, ConsumeCode(r)
    PROVE  /\ Shapes' /\ UNCHANGED users /\ DOMAIN codes' = DOMAIN codes
           /\ \A n \in DOMAIN codes :
                 /\ \A f \in {"email", "purpose", "user", "value"} : codes'[n][f] = codes[n][f]
                 /\ n # req[r].code => codes'[n] = codes[n]
           /\ req[r].code \in DOMAIN codes
           /\ ~codes'[req[r].code].open
           /\ codes'[req[r].code].uses = codes[req[r].code].uses + 1
           /\ Calm(req'[r]) /\ \A q \in Reqs \ {r} : req'[q] = req[q]
<1> DEFINE k == req[r].code
<1>1. req[r] \in Locals /\ Provided(req[r]) /\ Found(req[r], Existing, codes, profiles)
  BY Carried DEF Shapes
<1>2. At(r, "consume") /\ UNCHANGED <<users, profiles>>
  BY DEF ConsumeCode
<1>3. k \in DOMAIN codes /\ req[r].purpose \in Purposes /\ req[r].user \in Existing
      /\ (req[r].purpose # "registration" => req[r].pass \in Passwords)
  BY <1>1, <1>2 DEF At, Provided, Found
<1>4. \A n \in DOMAIN codes : codes[n] \in Codes
  BY ElementOfSeq, LenProperties DEF Shapes, CodesOK
<1>5. codes = [n \in DOMAIN codes |-> codes[n]]
  BY LenProperties DEF Shapes, CodesOK
<1>6. codes' = [codes EXCEPT ![k].open = FALSE, ![k].uses = codes[k].uses + 1]
  BY <1>3, <1>4 DEF ConsumeCode, Codes
<1>7. PICK code, cs : /\ code = [codes[k] EXCEPT !.open = FALSE, !.uses = codes[k].uses + 1]
                      /\ cs = codes'
  OBVIOUS
<1>8. /\ code \in Codes /\ code.email = codes[k].email /\ code.purpose = codes[k].purpose
      /\ code.user = codes[k].user /\ code.value = codes[k].value /\ ~code.open
      /\ code.uses = codes[k].uses + 1
  <2>1. codes[k] \in Codes
    BY <1>3, <1>4
  <2>2. PICK uses \in Nat : uses = codes[k].uses + 1
    BY <2>1 DEF Codes
  <2>3. code = [codes[k] EXCEPT !.open = FALSE, !.uses = uses]
    BY <1>7, <2>2
  <2>4. /\ code \in Codes /\ code.email = codes[k].email /\ code.purpose = codes[k].purpose
        /\ code.user = codes[k].user /\ code.value = codes[k].value /\ ~code.open
        /\ code.uses = uses
    BY <2>1, <2>3 DEF Codes
  <2> QED
    BY <2>2, <2>4
<1>9. \A n \in DOMAIN codes : cs[n] = IF n = k THEN code ELSE codes[n]
  <2>1. cs[k] = code
    BY <1>3, <1>4, <1>6, <1>7 DEF Codes
  <2>2. \A n \in DOMAIN codes : n # k => cs[n] = codes[n]
    BY <1>6, <1>7
  <2> QED
    BY <2>1, <2>2
<1>10. cs = [n \in DOMAIN codes |-> cs[n]] /\ DOMAIN cs = DOMAIN codes
  BY <1>5, <1>6, <1>7
<1>11. CodesOK' /\ Grow
  <2>1. \A n \in DOMAIN codes : /\ cs[n] \in Codes /\ cs[n].email = codes[n].email
                                /\ cs[n].purpose = codes[n].purpose /\ cs[n].user = codes[n].user
    BY <1>4, <1>8, <1>9
  <2>2. codes' = cs /\ UNCHANGED <<users, profiles>> /\ CodesOK
    BY <1>2, <1>7 DEF Shapes
  <2> QED
    BY <1>10, <2>1, <2>2, CodesMapped
<1>12. UsersOK' /\ Existing' = Existing
  BY <1>2, UsersKept DEF Shapes
<1>13. PICK pc, l : /\ pc = IF req[r].purpose = "registration" THEN "verified" ELSE "set_password"
                    /\ l = [Reading(pc, req[r].user) EXCEPT !.pass = req[r].pass]
                    /\ req' = [req EXCEPT ![r] = l]
  BY DEF ConsumeCode
<1>14. l \in Locals /\ l.pc = pc /\ l.user = req[r].user /\ l.pass = req[r].pass /\ l.code = 0
  <2>1. pc \in {"verified", "set_password"} /\ req[r].pass \in Passwords \cup {NULL}
        /\ req[r].user \in Users \cup {NULL}
    BY <1>1, <1>13 DEF Locals
  <2> QED
    BY <1>13, <2>1 DEF Reading, Idle, Locals, PCs
<1>15. Prepared(l, Existing', codes', profiles') /\ Calm(l)
  <2>1. l.pc = "verified" \/ (l.pc = "set_password" /\ req[r].purpose # "registration")
    <3>1. pc = "verified" \/ (pc = "set_password" /\ req[r].purpose # "registration")
      BY <1>13
    <3> QED
      BY <1>14, <3>1
  <2>2. l.pc = "set_password" => l.pass \in Passwords
    BY <1>3, <1>14, <2>1
  <2>3. Provided(l) /\ Calm(l)
    BY <2>1, <2>2 DEF Provided, Calm
  <2>4. Found(l, Existing', codes', profiles')
    BY <1>3, <1>12, <1>14, <2>1 DEF Found
  <2> QED
    BY <1>14, <2>3, <2>4 DEF Prepared
<1>16. RequestsOK'
  BY <1>11, <1>13, <1>15, LocalStep DEF Shapes
<1>17. req'[r] = l /\ \A q \in Reqs \ {r} : req'[q] = req[q]
  BY <1>13 DEF Shapes, RequestsOK
<1> QED
  BY <1>2, <1>3, <1>7, <1>8, <1>9, <1>10, <1>11, <1>12, <1>15, <1>16, <1>17 DEF Shapes

(* The actions that disturb neither the codes nor a status.                *)
Undisturbing(r) ==
    \/ RegisterRestaurant(r) \/ RegisterCreate(r) \/ ResendCode(r)
    \/ ForgotPassword(r) \/ VerifyRegistration(r) \/ ResetPassword(r)
    \/ VerifyUser(r) \/ SetPassword(r) \/ ChangePassword(r) \/ SaveProfile(r)
    \/ UpsertProfile(r) \/ SetOnboarded(r) \/ SuspendUser(r) \/ SuspendWrite(r)
    \/ ActivateUser(r) \/ UpdateUser(r) \/ UpdateFind(r)
    \/ EnsureSuperAdmin(r) \/ BootstrapCreate(r) \/ BootstrapUpdate(r) \/ Fail(r)

LEMMA UndisturbingStep == ASSUME Shapes, NEW r \in Reqs, Undisturbing(r) PROVE Shapes' /\ Undisturbed
<1>1. Fail(r) => Shapes' /\ Undisturbed
  BY Finished DEF Fail
<1> QED
  BY <1>1, RegisterRestaurantStep, RegisterCreateStep, ResendCodeStep,
     ForgotPasswordStep, VerifyRegistrationStep, ResetPasswordStep, VerifyUserStep,
     SetPasswordStep, ChangePasswordStep, SaveProfileStep, UpsertProfileStep,
     SetOnboardedStep, SuspendUserStep, SuspendWriteStep, ActivateUserStep,
     UpdateUserStep, UpdateFindStep, EnsureSuperAdminStep, BootstrapCreateStep, BootstrapUpdateStep DEF Undisturbing

LEMMA ShapesNext == ASSUME Shapes, [Next]_vars PROVE Shapes'
<1>1. ASSUME NEW r \in Reqs, Handler(r)
      PROVE  Shapes'
  BY <1>1, UndisturbingStep, RegisterUpdateStep, ActivateWriteStep, UpdateWriteStep, IssueCloseStep,
     IssueCreateStep, FindCodeStep, ConsumeCodeStep DEF Handler, Undisturbing
<1>2. CASE UNCHANGED vars
  <2>1. UsersOK' /\ Existing' = Existing
    BY <1>2, UsersKept DEF Shapes, vars
  <2>2. Grow /\ CodesOK'
    BY <1>2, <2>1, Same, CodesKept DEF Shapes, vars
  <2> QED
    BY <1>2, <2>1, <2>2, NoLocalStep DEF Shapes, vars
<1> QED
  BY <1>1, <1>2, ExpireStep, ChangeSubscriptionStep DEF Next

-----------------------------------------------------------------------------
(* What the codes and the requests hold.                                   *)

(* The history only grows.                                                 *)
LEMMA HistoryGrows == ASSUME HNext PROVE crossed \subseteq crossed' /\ shared \subseteq shared'
  BY DEF HNext

(* Where the codes stay and no request comes to a code that was used.      *)
Passing(q) == \/ req'[q] = req[q]
              \/ Calm(req'[q])
              \/ req'[q].pc = "consume" /\ codes[req'[q].code].uses = 0

LEMMA CodesStay ==
    ASSUME Shapes, CodesHeld, UNCHANGED codes, HNext, \A q \in Reqs : Passing(q)
    PROVE  CodesHeld'
<1>0. crossed \subseteq crossed' /\ shared \subseteq shared'
  BY HistoryGrows
<1>1. (\A n \in DOMAIN codes : codes[n].open => codes[n].uses = 0)' /\ OneOpenCode' /\ CodesServeOnce'
  BY <1>0 DEF CodesHeld, OneOpenCode, CodesServeOnce
<1>2. ASSUME NEW q \in Reqs
      PROVE  IssuedAlone(q)' /\ HeldAlone(q)'
  <2>1. IssuedAlone(q) /\ HeldAlone(q)
    BY DEF CodesHeld
  <2>2. CASE req'[q] = req[q]
    BY <1>0, <2>1, <2>2 DEF IssuedAlone, HeldAlone, Concerns, At
  <2>3. CASE Calm(req'[q])
    BY <2>3 DEF IssuedAlone, HeldAlone, At, Calm
  <2>4. CASE req'[q].pc = "consume" /\ codes[req'[q].code].uses = 0
    BY <2>4 DEF IssuedAlone, HeldAlone, At
  <2> QED
    BY <2>2, <2>3, <2>4 DEF Passing
<1> QED
  BY <1>1, <1>2 DEF CodesHeld

(* Closing what concerns a request leaves nothing open for it to meet.     *)
LEMMA ClosedHeld ==
    ASSUME Shapes, CodesHeld, HNext, NEW r \in Reqs, IssueClose(r) PROVE CodesHeld'
<1>1. /\ DOMAIN codes' = DOMAIN codes
      /\ \A n \in DOMAIN codes :
            /\ codes'[n].email = codes[n].email /\ codes'[n].purpose = codes[n].purpose
            /\ codes'[n].uses = codes[n].uses
            /\ codes'[n].open = (codes[n].open /\ ~Concerns(r, n))
      /\ req'[r].pc = "issue_create"
      /\ req'[r].email = req[r].email /\ req'[r].purpose = req[r].purpose
      /\ \A q \in Reqs \ {r} : req'[q] = req[q]
  BY IssueCloseStep
<1>2. crossed \subseteq crossed' /\ shared \subseteq shared'
  BY HistoryGrows
<1>3. ASSUME NEW q \in Reqs
      PROVE  IssuedAlone(q)' /\ HeldAlone(q)'
  <2>1. IssuedAlone(q) /\ HeldAlone(q)
    BY DEF CodesHeld
  <2>2. CASE q = r
    BY <1>1, <2>2 DEF IssuedAlone, HeldAlone, Concerns, At
  <2>3. CASE q # r
    <3>1. At(q, "consume") => req[q].code \in DOMAIN codes
      BY Carried DEF Shapes, At, Found
    <3> QED
      BY <1>1, <1>2, <2>1, <2>3, <3>1, ZenonT(60) DEF IssuedAlone, HeldAlone, Concerns, At
  <2> QED
    BY <2>2, <2>3
<1> QED
  BY <1>1, <1>2, <1>3, ZenonT(60) DEF CodesHeld, OneOpenCode, CodesServeOnce

LEMMA ExpiredHeld == ASSUME Shapes, CodesHeld, HNext, Expire PROVE CodesHeld'
<1>1. /\ DOMAIN codes' = DOMAIN codes /\ UNCHANGED req
      /\ \A n \in DOMAIN codes :
            /\ codes'[n].email = codes[n].email /\ codes'[n].purpose = codes[n].purpose
            /\ codes'[n].uses = codes[n].uses
            /\ codes'[n].open => codes[n].open
  BY ExpireStep
<1>2. crossed \subseteq crossed' /\ shared \subseteq shared'
  BY HistoryGrows
<1>3. ASSUME NEW q \in Reqs
      PROVE  IssuedAlone(q)' /\ HeldAlone(q)'
  <2>1. IssuedAlone(q) /\ HeldAlone(q)
    BY DEF CodesHeld
  <2>2. At(q, "consume") => req[q].code \in DOMAIN codes
    BY Carried DEF Shapes, At, Found
  <2> QED
    BY <1>1, <1>2, <2>1, <2>2 DEF IssuedAlone, HeldAlone, Concerns, At
<1> QED
  BY <1>1, <1>2, <1>3 DEF CodesHeld, OneOpenCode, CodesServeOnce

(* A second open code of an address and a purpose is there only if another *)
(* request issued it since this one closed the others; that one's address  *)
(* and purpose are crossed, as are those of a third at the same place.     *)
LEMMA CreatedHeld ==
    ASSUME Shapes, CodesHeld, HNext, NEW r \in Reqs, IssueCreate(r) PROVE CodesHeld'
<1> DEFINE key == <<req[r].email, req[r].purpose>>
<1>1. PICK k : /\ k \notin DOMAIN codes /\ DOMAIN codes' = DOMAIN codes \cup {k}
               /\ codes'[k].email = req[r].email /\ codes'[k].purpose = req[r].purpose
               /\ codes'[k].uses = 0
  BY IssueCreateStep
<1>2. /\ \A n \in DOMAIN codes : codes'[n] = codes[n]
      /\ req'[r] = Idle /\ \A q \in Reqs \ {r} : req'[q] = req[q]
  BY IssueCreateStep
<1>3. crossed \subseteq crossed' /\ shared \subseteq shared' /\ At(r, "issue_create")
  BY HistoryGrows DEF IssueCreate
<1>4. \A n \in DOMAIN codes : (codes[n].open /\ Concerns(r, n)) => key \in crossed
  BY <1>3 DEF CodesHeld, IssuedAlone
<1>5. \A q \in Reqs \ {r} : (/\ At(q, "issue_create") /\ req[q].email = req[r].email
                             /\ req[q].purpose = req[r].purpose) => key \in crossed'
  BY <1>3 DEF HNext, Busy, At
<1>6. ASSUME NEW q \in Reqs
      PROVE  IssuedAlone(q)' /\ HeldAlone(q)'
  <2>1. CASE q = r
    BY <1>2, <2>1 DEF IssuedAlone, HeldAlone, At, Idle
  <2>2. CASE q # r
    <3>1. IssuedAlone(q) /\ HeldAlone(q) /\ req'[q] = req[q]
      BY <1>2, <2>2 DEF CodesHeld
    <3>2. At(q, "consume") => req[q].code \in DOMAIN codes
      BY Carried DEF Shapes, At, Found
    <3>3. HeldAlone(q)'
      BY <1>2, <1>3, <3>1, <3>2 DEF HeldAlone, At
    <3>4. ASSUME At(q, "issue_create"), NEW n \in DOMAIN codes', codes'[n].open, Concerns(q, n)'
          PROVE  <<req[q].email, req[q].purpose>> \in crossed'
      <4>1. CASE n = k
        BY <1>1, <1>5, <2>2, <3>1, <3>4, <4>1 DEF Concerns
      <4>2. CASE n \in DOMAIN codes
        BY <1>2, <1>3, <3>1, <3>4, <4>2 DEF IssuedAlone, Concerns
      <4> QED
        BY <1>1, <4>1, <4>2
    <3>5. IssuedAlone(q)'
      BY <3>1, <3>4 DEF IssuedAlone, At
    <3> QED
      BY <3>3, <3>5
  <2> QED
    BY <2>1, <2>2
<1>7. ASSUME NEW m \in DOMAIN codes', NEW n \in DOMAIN codes', m # n, codes'[m].open, codes'[n].open,
             codes'[m].email = codes'[n].email, codes'[m].purpose = codes'[n].purpose
      PROVE  <<codes'[m].email, codes'[m].purpose>> \in crossed'
  <2>1. CASE m = k
    BY <1>1, <1>2, <1>3, <1>4, <1>7, <2>1 DEF Concerns
  <2>2. CASE n = k
    BY <1>1, <1>2, <1>3, <1>4, <1>7, <2>2 DEF Concerns
  <2>3. CASE m \in DOMAIN codes /\ n \in DOMAIN codes
    BY <1>2, <1>3, <1>7, <2>3 DEF CodesHeld, OneOpenCode
  <2> QED
    BY <1>1, <2>1, <2>2, <2>3
<1>8. OneOpenCode'
  BY <1>7 DEF OneOpenCode
<1>9. CodesServeOnce' /\ (\A n \in DOMAIN codes : codes[n].open => codes[n].uses = 0)'
  BY <1>1, <1>2, <1>3 DEF CodesHeld, CodesServeOnce
<1> QED
  BY <1>6, <1>8, <1>9 DEF CodesHeld

(* A code that a request consumes was not used before, or another request  *)
(* has held it at the same time; and others that hold it now share it.     *)
LEMMA ConsumedHeld ==
    ASSUME Shapes, CodesHeld, HNext, NEW r \in Reqs, ConsumeCode(r) PROVE CodesHeld'
<1> DEFINE k == req[r].code
<1>1. /\ DOMAIN codes' = DOMAIN codes /\ k \in DOMAIN codes
      /\ \A n \in DOMAIN codes :
            /\ codes'[n].email = codes[n].email /\ codes'[n].purpose = codes[n].purpose
            /\ n # k => codes'[n] = codes[n]
      /\ ~codes'[k].open /\ codes'[k].uses = codes[k].uses + 1
      /\ Calm(req'[r]) /\ \A q \in Reqs \ {r} : req'[q] = req[q]
  BY ConsumeCodeStep
<1>2. crossed \subseteq crossed' /\ shared \subseteq shared' /\ At(r, "consume")
  BY HistoryGrows DEF ConsumeCode
<1>3. codes[k].uses = 0 \/ k \in shared
  BY <1>2 DEF CodesHeld, HeldAlone
<1>4. \A q \in Reqs \ {r} : At(q, "consume") /\ req[q].code = k => k \in shared'
  BY <1>2 DEF HNext, Busy, At
<1>5. ASSUME NEW q \in Reqs
      PROVE  IssuedAlone(q)' /\ HeldAlone(q)'
  <2>1. CASE q = r
    BY <1>1, <2>1 DEF IssuedAlone, HeldAlone, At, Calm
  <2>2. CASE q # r
    <3>1. IssuedAlone(q) /\ HeldAlone(q) /\ req'[q] = req[q]
      BY <1>1, <2>2 DEF CodesHeld
    <3>2. At(q, "consume") => req[q].code \in DOMAIN codes
      BY Carried DEF Shapes, At, Found
    <3>3. HeldAlone(q)'
      BY <1>1, <1>2, <1>4, <2>2, <3>1, <3>2 DEF HeldAlone, At
    <3>4. IssuedAlone(q)'
      BY <1>1, <1>2, <3>1 DEF IssuedAlone, Concerns, At
    <3> QED
      BY <3>3, <3>4
  <2> QED
    BY <2>1, <2>2
<1>6. CodesServeOnce'
  <2>1. \A n \in DOMAIN codes : n # k => codes'[n].uses <= 1 \/ n \in shared'
    BY <1>1, <1>2 DEF CodesHeld, CodesServeOnce
  <2>2. codes'[k].uses <= 1 \/ k \in shared'
    BY <1>1, <1>2, <1>3
  <2> QED
    BY <1>1, <2>1, <2>2 DEF CodesServeOnce
<1>7. OneOpenCode' /\ (\A n \in DOMAIN codes : codes[n].open => codes[n].uses = 0)'
  BY <1>1, <1>2 DEF CodesHeld, OneOpenCode
<1> QED
  BY <1>5, <1>6, <1>7 DEF CodesHeld

(* RegisterUpdate and ActivateWrite.                                       *)
LEMMA RestoringStep ==
    ASSUME Shapes, NEW r \in Reqs, RegisterUpdate(r) \/ ActivateWrite(r)
    PROVE  \E status : /\ Restores(r, status)
                      /\ Holds(r, req[r].user)
                      /\ \/ status = req[r].row.status
                         \/ ActivateWrite(r) /\ req[r].row.status = "suspended"
<1>1. Holds(r, req[r].user)
  BY DEF Holds, RegisterUpdate, ActivateWrite, At
<1>2. CASE RegisterUpdate(r)
  BY <1>1, <1>2, RegisterUpdateStep
<1>3. CASE ActivateWrite(r) /\ req[r].row.status # "suspended"
  BY <1>1, <1>3, ActivateWriteStep
<1>4. CASE ActivateWrite(r) /\ req[r].row.status = "suspended"
  BY <1>1, <1>4, ActivateWriteStep
<1> QED
  BY <1>2, <1>3, <1>4

LEMMA CodesHeldNext == ASSUME Shapes, CodesHeld, HNext PROVE CodesHeld'
<1>1. CASE Undisturbed
  <2>1. UNCHANGED codes /\ \A q \in Reqs : Passing(q)
    BY <1>1 DEF Undisturbed, Passing
  <2> QED
    BY <2>1, CodesStay
<1>2. CASE ChangeSubscription
  <2>1. UNCHANGED codes /\ \A q \in Reqs : Passing(q)
    BY <1>2 DEF ChangeSubscription, Passing
  <2> QED
    BY <2>1, CodesStay
<1>3. ASSUME NEW r \in Reqs, NEW status, Restores(r, status)
      PROVE  CodesHeld'
  <2>2. UNCHANGED codes /\ \A q \in Reqs : Passing(q)
    BY <1>3 DEF Restores, Passing
  <2> QED
    BY <2>2, CodesStay
<1>4. ASSUME NEW r \in Reqs, FindCode(r)
      PROVE  CodesHeld'
  <2>1. /\ UNCHANGED codes
        /\ Calm(req'[r]) \/ (/\ req'[r].pc = "consume" /\ req'[r].code \in DOMAIN codes
                            /\ codes[req'[r].code].open)
        /\ \A q \in Reqs \ {r} : req'[q] = req[q]
    BY <1>4, FindCodeStep
  <2>2. \A n \in DOMAIN codes : codes[n].open => codes[n].uses = 0
    BY DEF CodesHeld
  <2>3. \A q \in Reqs : Passing(q)
    BY <2>1, <2>2 DEF Passing
  <2> QED
    BY <2>1, <2>3, CodesStay
<1>5. ASSUME NEW r \in Reqs, Handler(r)
      PROVE  CodesHeld'
  BY <1>1, <1>3, <1>4, <1>5, UndisturbingStep, RestoringStep, UpdateWriteStep, ClosedHeld,
     CreatedHeld, ConsumedHeld DEF Handler, Undisturbing
<1> QED
  BY <1>2, <1>5, ExpiredHeld DEF HNext, Next

(* What a step leaves of what was said, and of what was overtaken.         *)
LEMMA HistoryOfStatus ==
    ASSUME StatusHeld, HNext
    PROVE  /\ \A u \in Users : said'[u] = IF Says(u) THEN users'[u].status ELSE said[u]
           /\ \A u \in Existing : u \in unsaid /\ ~Says(u) => u \in unsaid'
           /\ \A q \in Reqs, u \in Existing :
                 Holds(q, u) /\ Holds(q, u)' /\ (q \in overtaken \/ Says(u)) => q \in overtaken'
           /\ \A u \in Users : users'[u] = users[u] => ~Says(u)
  BY DEF HNext, Says

(* A request that still holds the status it has read.                      *)
LEMMA StillHeld ==
    ASSUME StatusHeld, HNext, NEW q \in Reqs, NEW u \in Existing, req'[q] = req[q], Holds(q, u)'
    PROVE  req'[q].row.status = said'[u] \/ q \in overtaken' \/ u \in unsaid'
<1>1. Holds(q, u) /\ u \in Users
  BY DEF Holds, Existing
<1>2. CASE q \in overtaken \/ Says(u)
  BY <1>1, <1>2, HistoryOfStatus
<1>3. CASE q \notin overtaken /\ ~Says(u)
  <2>1. req[q].row.status = said[u] \/ u \in unsaid
    BY <1>1, <1>3 DEF StatusHeld
  <2> QED
    BY <1>1, <1>3, <2>1, HistoryOfStatus
<1> QED
  BY <1>2, <1>3

(* A status that a step leaves or says.                                    *)
LEMMA StatusKept ==
    ASSUME StatusHeld, HNext, NEW u \in Existing, users'[u].status = users[u].status \/ Says(u)
    PROVE  users'[u].status = said'[u] \/ u \in unsaid'
<1>1. u \in Users /\ (users[u].status = said[u] \/ u \in unsaid)
  BY DEF Existing, StatusHeld, SubscriptionStatusStands
<1>2. CASE Says(u)
  BY <1>1, <1>2, HistoryOfStatus
<1>3. CASE ~Says(u)
  BY <1>1, <1>3, HistoryOfStatus
<1> QED
  BY <1>2, <1>3

(* An undisturbing step leaves every status as it was said, and requests   *)
(* read it as it is.                                                       *)
LEMMA UndisturbedStatus ==
    ASSUME Shapes, Shapes', StatusHeld, HNext, Undisturbed
    PROVE  StatusHeld'
<1>1. Existing \subseteq Existing' /\ Existing' \subseteq Users
  BY DEF Undisturbed, Existing
<1>2. ASSUME NEW u \in Existing
      PROVE  users'[u].status = said'[u] \/ u \in unsaid'
  <2>1. users'[u].status = users[u].status
    BY <1>1 DEF Undisturbed, StatusOf
  <2> QED
    BY <2>1, StatusKept
<1>3. ASSUME NEW u \in Existing' \ Existing
      PROVE  users'[u].status = said'[u]
  <2>1. users'[u].status = NULL /\ said[u] = NULL /\ u \in Users
    BY <1>1 DEF Undisturbed, StatusOf, StatusHeld
  <2> QED
    BY <2>1, HistoryOfStatus
<1>4. ASSUME NEW u \in Users \ Existing'
      PROVE  said'[u] = NULL
  <2>1. users'[u] = NULL /\ users[u] = NULL /\ said[u] = NULL
    BY <1>1 DEF Existing, StatusHeld
  <2> QED
    BY <2>1, HistoryOfStatus
<1>5. ASSUME NEW q \in Reqs, NEW u \in Existing', Holds(q, u)'
      PROVE  req'[q].row.status = said'[u] \/ q \in overtaken' \/ u \in unsaid'
  <2>1. u # NULL /\ u \in Users
    BY <1>1, NullAssumption
  <2>2. CASE req'[q] = req[q]
    <3>1. u \in Existing
      BY <1>5, <2>1, <2>2, Carried DEF Holds, Shapes, Found
    <3> QED
      BY <1>5, <2>2, <3>1, StillHeld
  <2>3. CASE Calm(req'[q])
    <3>1. u \in Existing /\ req'[q].row.status = users[u].status
      BY <1>5, <2>1, <2>3 DEF Calm, Holds
    <3>2. users'[u].status = users[u].status
      BY <1>1, <3>1 DEF Undisturbed, StatusOf
    <3> QED
      BY <1>2, <3>1, <3>2
  <2> QED
    BY <2>2, <2>3 DEF Undisturbed
<1> QED
  BY <1>1, <1>2, <1>3, <1>4, <1>5 DEF StatusHeld, SubscriptionStatusStands

(* A step of no new request that writes a status only by saying it.        *)
LEMMA SayingStatus ==
    ASSUME StatusHeld, HNext, Existing' = Existing,
           \A q \in Reqs : req'[q] = req[q] \/ req'[q].pc \notin {"register", "activate"},
           \A u \in Existing : users'[u].status = users[u].status \/ Says(u)
    PROVE  StatusHeld'
<1>1. ASSUME NEW u \in Users \ Existing
      PROVE  said'[u] = NULL
  <2>1. users'[u] = NULL /\ users[u] = NULL /\ said[u] = NULL
    BY DEF Existing, StatusHeld
  <2> QED
    BY <2>1, HistoryOfStatus
<1>2. \A u \in Existing : users'[u].status = said'[u] \/ u \in unsaid'
  BY StatusKept
<1>3. ASSUME NEW q \in Reqs, NEW u \in Existing, Holds(q, u)'
      PROVE  req'[q].row.status = said'[u] \/ q \in overtaken' \/ u \in unsaid'
  <2>1. req'[q] = req[q]
    BY <1>3 DEF Holds
  <2> QED
    BY <1>3, <2>1, StillHeld
<1> QED
  BY <1>1, <1>2, <1>3 DEF StatusHeld, SubscriptionStatusStands

(* A step that writes back a status which its request has read.            *)
LEMMA RestoredStatus ==
    ASSUME StatusHeld, Shapes, HNext, NEW r \in Reqs, RegisterUpdate(r) \/ ActivateWrite(r)
    PROVE  StatusHeld'
<1> DEFINE w == req[r].user
<1>1. PICK status : /\ Restores(r, status) /\ Holds(r, w)
                    /\ \/ status = req[r].row.status
                       \/ ActivateWrite(r) /\ req[r].row.status = "suspended"
  BY RestoringStep
<1>2. w \in Existing /\ Existing' = Existing /\ Existing \subseteq Users
  BY <1>1 DEF Restores, Existing
<1>3. users'[w].status = said'[w] \/ w \in unsaid'
  <2>1. users'[w].status = status
    BY <1>1, <1>2 DEF Restores
  <2>2. CASE Says(w)
    BY <1>2, <2>2, HistoryOfStatus
  <2>3. CASE ~Says(w) /\ TakesBack(r, w)
    BY <1>2, <2>3 DEF HNext
  <2>4. CASE ~Says(w) /\ ~TakesBack(r, w)
    <3>1. r \notin overtaken /\ status = req[r].row.status
      BY <1>1, <2>4 DEF TakesBack
    <3>2. status = said[w] \/ w \in unsaid
      BY <1>1, <1>2, <3>1 DEF StatusHeld
    <3> QED
      BY <1>2, <2>1, <2>4, <3>2, HistoryOfStatus
  <2> QED
    BY <2>2, <2>3, <2>4
<1>4. ASSUME NEW u \in Existing
      PROVE  users'[u].status = said'[u] \/ u \in unsaid'
  <2>1. CASE u = w
    BY <1>3, <2>1
  <2>2. CASE u # w
    <3>1. users'[u].status = users[u].status
      BY <1>1, <2>2 DEF Restores
    <3> QED
      BY <3>1, StatusKept
  <2> QED
    BY <2>1, <2>2
<1>5. ASSUME NEW q \in Reqs, NEW u \in Existing, Holds(q, u)'
      PROVE  req'[q].row.status = said'[u] \/ q \in overtaken' \/ u \in unsaid'
  <2>1. q # r
    BY <1>1, <1>5 DEF Restores, Holds
  <2>2. req'[q] = req[q]
    BY <1>1, <2>1 DEF Restores
  <2> QED
    BY <1>5, <2>2, StillHeld
<1>6. ASSUME NEW u \in Users \ Existing
      PROVE  said'[u] = NULL
  <2>1. users'[u] = NULL /\ users[u] = NULL /\ said[u] = NULL
    BY <1>2, <1>6 DEF Existing, StatusHeld
  <2> QED
    BY <2>1, HistoryOfStatus
<1> QED
  BY <1>2, <1>4, <1>5, <1>6 DEF StatusHeld, SubscriptionStatusStands

(* A status is said: what the requests at work have read of it is old.     *)
LEMMA SaidStatus ==
    ASSUME Shapes, StatusHeld, HNext,
           ChangeSubscription \/ \E r \in Reqs : UpdateWrite(r) /\ ~Undisturbed
    PROVE  StatusHeld'
<1>1. CASE ChangeSubscription
  <2>1. Existing' = Existing /\ UNCHANGED req
    BY <1>1, ChangeSubscriptionStep DEF ChangeSubscription
  <2>2. \A u \in Existing : users'[u].status = users[u].status \/ Says(u)
    BY <1>1 DEF Says
  <2> QED
    BY <2>1, <2>2, SayingStatus
<1>2. ASSUME NEW r \in Reqs, UpdateWrite(r), ~Undisturbed
      PROVE  StatusHeld'
  <2>1. /\ "status" \in DOMAIN req[r].change
        /\ Restores(r, req[r].change["status"])
    BY <1>2, UpdateWriteStep
  <2>2. \A u \in Existing : users'[u].status = users[u].status \/ Says(u)
    BY <1>2, <2>1 DEF Restores, Says
  <2>3. \A q \in Reqs : req'[q] = req[q] \/ req'[q].pc \notin {"register", "activate"}
    BY <2>1 DEF Restores
  <2> QED
    BY <2>1, <2>2, <2>3, SayingStatus DEF Restores
<1> QED
  BY <1>1, <1>2

LEMMA StatusHeldNext == ASSUME Shapes, Shapes', StatusHeld, HNext PROVE StatusHeld'
<1>1. ASSUME UNCHANGED users, \A q \in Reqs : \/ req'[q] = req[q]
                                            \/ req'[q].pc \notin {"register", "activate"}
      PROVE  StatusHeld'
  <2>1. Existing' = Existing
    BY <1>1 DEF Existing
  <2> QED
    BY <1>1, <2>1, SayingStatus
<1>2. ASSUME NEW r \in Reqs, IssueClose(r) \/ IssueCreate(r) \/ FindCode(r) \/ ConsumeCode(r)
      PROVE  StatusHeld'
  <2>1. UNCHANGED users /\ \A q \in Reqs \ {r} : req'[q] = req[q]
    BY <1>2, IssueCloseStep, IssueCreateStep, FindCodeStep, ConsumeCodeStep
  <2>2. CASE IssueClose(r)
    BY <1>1, <2>1, <2>2, IssueCloseStep
  <2>3. CASE IssueCreate(r)
    <3>1. req'[r].pc = "idle"
      BY <2>3, IssueCreateStep DEF Idle
    <3> QED
      BY <1>1, <2>1, <3>1
  <2>4. CASE FindCode(r)
    <3>1. Calm(req'[r]) \/ req'[r].pc = "consume"
      BY <2>4, FindCodeStep
    <3>2. CASE Calm(req'[r])
      <4>1. UNCHANGED codes
        BY <2>4, FindCodeStep
      <4>2. Undisturbed
        BY <2>1, <3>2, <4>1 DEF Undisturbed, StatusOf, Existing
      <4> QED
        BY <4>2, UndisturbedStatus
    <3>3. CASE req'[r].pc = "consume"
      BY <1>1, <2>1, <3>3
    <3> QED
      BY <3>1, <3>2, <3>3
  <2>5. CASE ConsumeCode(r)
    <3>1. req'[r].pc \in {"verified", "set_password"}
      BY <2>5 DEF ConsumeCode, Reading, Idle, Shapes, RequestsOK
    <3> QED
      BY <1>1, <2>1, <3>1
  <2> QED
    BY <1>2, <2>2, <2>3, <2>4, <2>5
<1>3. CASE Expire
  BY <1>1, <1>3 DEF Expire
<1>4. ASSUME NEW r \in Reqs, Handler(r)
      PROVE  StatusHeld'
  BY <1>2, <1>4, UndisturbingStep, UndisturbedStatus, SaidStatus, RestoredStatus
     DEF Handler, Undisturbing
<1> QED
  BY <1>3, <1>4, SaidStatus DEF HNext, Next

-----------------------------------------------------------------------------
LEMMA InitInv == HInit => AccountInv
<1> SUFFICES ASSUME HInit PROVE AccountInv
  OBVIOUS
<1>0. PICK a \in Users : \E first :
         /\ first = NewUser(AdminEmail, AdminPassword, "admin")
         /\ users = [u \in Users |-> IF serving /\ u = a THEN first ELSE NULL]
  BY DEF HInit, Init
<1>1. PICK first :
         /\ first = NewUser(AdminEmail, AdminPassword, "admin")
         /\ users = [u \in Users |-> IF serving /\ u = a THEN first ELSE NULL]
  BY <1>0
<1>2. first \in Rows /\ ~first.onboarded /\ first.status = NULL
  BY <1>1, AdminAssumption DEF NewUser, Rows, Roles
<1>3. /\ codes = <<>> /\ profiles = {} /\ req = [r \in Reqs |-> Idle] /\ crossed = {}
      /\ shared = {} /\ said = [u \in Users |-> NULL] /\ overtaken = {} /\ unsaid = {}
  BY DEF HInit, Init
<1>4. Existing \subseteq {a} /\ \A u \in Existing : users[u] = first
  BY <1>1 DEF Existing
<1>5. UsersOK
  BY <1>1, <1>2, <1>3, <1>4 DEF UsersOK
<1>6. CodesOK
  BY <1>3 DEF CodesOK
<1>7. RequestsOK
  <2>1. Idle \in Locals /\ Prepared(Idle, Existing, codes, profiles)
    BY Idles DEF Prepared
  <2> QED
    BY <1>3, <2>1 DEF RequestsOK
<1>8. CodesHeld
  BY <1>3 DEF CodesHeld, IssuedAlone, HeldAlone, OneOpenCode, CodesServeOnce, At, Idle
<1>9. StatusHeld
  BY <1>2, <1>3, <1>4 DEF StatusHeld, SubscriptionStatusStands, Holds, Existing, Idle
<1> QED
  BY <1>5, <1>6, <1>7, <1>8, <1>9 DEF AccountInv, Shapes

LEMMA NextInv == ASSUME AccountInv, [HNext]_hvars PROVE AccountInv'
<1>1. CASE HNext
  <2>1. Shapes'
    BY <1>1, ShapesNext DEF AccountInv, HNext
  <2> QED
    BY <1>1, <2>1, CodesHeldNext, StatusHeldNext DEF AccountInv
<1>2. CASE UNCHANGED hvars
  <2>1. Shapes'
    BY <1>2, ShapesNext DEF AccountInv, hvars
  <2>2. UNCHANGED <<users, codes, req, crossed, shared, said, overtaken, unsaid>>
    BY <1>2 DEF hvars, vars
  <2>3. CodesHeld'
    BY <2>2 DEF AccountInv, CodesHeld, IssuedAlone, HeldAlone, OneOpenCode, CodesServeOnce, At, Concerns
  <2>4. StatusHeld'
    BY <2>2 DEF AccountInv, StatusHeld, SubscriptionStatusStands, Holds, Existing
  <2> QED
    BY <2>1, <2>3, <2>4 DEF AccountInv
<1> QED
  BY <1>1, <1>2

(* AccountInv is an invariant of the accounts, whatever requests run at    *)
(* once.                                                                   *)
THEOREM InvHolds == HSpec => []AccountInv
<1>1. HInit => AccountInv
  BY InitInv
<1>2. AccountInv /\ [HNext]_hvars => AccountInv'
  BY NextInv
<1> QED
  BY <1>1, <1>2, PTL DEF HSpec

(* The types of AccountHistory.                                            *)
THEOREM TypesHold == HSpec => []TypeOK
<1>1. AccountInv => TypeOK
  <2> SUFFICES ASSUME AccountInv PROVE TypeOK
    OBVIOUS
  <2>1. ASSUME NEW n \in DOMAIN codes
        PROVE  codes[n] \in [email : Emails, purpose : Purposes, user : Existing, value : Values,
                             open : BOOLEAN, uses : Nat]
    <3>1. codes[n] \in Codes /\ codes[n].user \in Existing
      BY ElementOfSeq, LenProperties DEF AccountInv, Shapes, CodesOK
    <3> QED
      BY <3>1 DEF Codes
  <2>2. ASSUME NEW r \in Reqs
        PROVE  /\ req[r].user \in Existing \cup {NULL} /\ req[r].row \in Rows \cup {NULL}
               /\ req[r].code \in DOMAIN codes \cup {0}
    BY Carried DEF AccountInv, Shapes, Found, Locals
  <2> QED
    BY <2>1, <2>2 DEF AccountInv, Shapes, UsersOK, TypeOK
<1> QED
  BY <1>1, InvHolds, PTL

(* The status of a user is the one billing or an update gave it last, but  *)
(* for activations of a suspended one and for the requests that write back *)
(* a status they had read before it was given; and only until the next is. *)
THEOREM StatusStands == HSpec => []SubscriptionStatusStands
<1>1. AccountInv => SubscriptionStatusStands
  BY DEF AccountInv, StatusHeld
<1> QED
  BY <1>1, InvHolds, PTL

(* The guard never sends a user who may log in to a place where it does    *)
(* not let him go, nor again to the onboarding that he has completed.      *)
THEOREM NobodyLockedOut == HSpec => []NeverLockedOut
<1>1. AccountInv => NeverLockedOut
  <2> SUFFICES ASSUME AccountInv PROVE NeverLockedOut
    OBVIOUS
  <2>1. AskedOnce
    <3>1. \A u \in Existing : users[u].onboarded => u \in profiles
      BY DEF AccountInv, Shapes, UsersOK
    <3>2. \A u \in profiles : Guard(u, "restaurant") # "onboarding_required"
      BY DEF Guard, HasCompletedOnboarding
    <3> QED
      BY <3>1, <3>2 DEF AskedOnce
  <2>2. ASSUME NEW u \in Existing
        PROVE  /\ Guard(u, "auth") = "pass"
               /\ \/ Guard(u, "restaurant") = "pass"
                  \/ Guard(u, Remedy(Guard(u, "restaurant"))) = "pass"
    <3>1. Guard(u, "auth") = "pass" /\ Guard(u, "subscriptions") = "pass"
      BY DEF Guard, AllowedPaths
    <3>2. Guard(u, "restaurant") = "onboarding_required" => Guard(u, "onboarding") = "pass"
      BY DEF Guard, AllowedPaths, OnboardingPaths
    <3> QED
      BY <3>1, <3>2 DEF Remedy
  <2> QED
    BY <2>1, <2>2 DEF NeverLockedOut
<1> QED
  BY <1>1, InvHolds, PTL

(* A code serves the purpose and the address it was mailed for, and as an  *)
(* address is that of one user, the user it was mailed for, unless one of the two has been *)
(* given another; a code serves once, and only the newest does, unless     *)
(* requests at work at once have crossed.                                  *)
THEOREM CodesSound == HSpec => CodesAreSound
<1>1. AccountInv /\ AccountInv' =>
         /\ \A r \in Reqs : ConsumeCode(r) => ServesItsUser(r)
         /\ OneOpenCode' /\ CodesServeOnce'
  <2> SUFFICES ASSUME AccountInv, AccountInv' PROVE
         /\ \A r \in Reqs : ConsumeCode(r) => ServesItsUser(r)
         /\ OneOpenCode' /\ CodesServeOnce'
    OBVIOUS
  <2>1. OneOpenCode' /\ CodesServeOnce'
    BY DEF AccountInv, CodesHeld
  <2>2. ASSUME NEW r \in Reqs, ConsumeCode(r)
        PROVE  ServesItsUser(r)
    <3> DEFINE code == codes[req[r].code]
    <3>1. /\ req[r].code \in DOMAIN codes /\ code.email = req[r].email /\ code.purpose = req[r].purpose
          /\ req[r].user \in Existing
      BY <2>2, Carried DEF AccountInv, Shapes, ConsumeCode, At, Found
    <3>2. code.user \in Existing
      BY <3>1 DEF AccountInv, Shapes, CodesOK
    <3>3. \A u, w \in Existing : users[u].email = users[w].email => u = w
      BY DEF AccountInv, Shapes, UsersOK
    <3> QED
      BY <3>1, <3>2, <3>3 DEF ServesItsUser
  <2> QED
    BY <2>1, <2>2
<1> QED
  BY <1>1, InvHolds, PTL DEF HSpec, CodesAreSound

-----------------------------------------------------------------------------
(* What an account keeps.                                                  *)

Keeps(u) ==
    /\ users'[u].role \in {users[u].role, "admin"}
    /\ users[u].active => users'[u].active
    /\ users[u].verified => users'[u].verified

Opens(u) ==
    ~users[u].active /\ users'[u].active =>
       \E r \in Reqs : /\ req[r].user = u
                       /\ req[r].actor # NULL \/ At(r, "bootstrap") \/ At(r, "verified")

(* No user who exists is removed.                                          *)
LEMMA UsersStay == ASSUME Shapes, Next PROVE Existing \subseteq Existing'
<1>1. UNCHANGED users => Existing \subseteq Existing'
  BY DEF Existing
<1>2. ASSUME NEW r \in Reqs, Handler(r) PROVE Existing \subseteq Existing'
  <2>1. CASE Undisturbing(r)
    BY <2>1, UndisturbingStep DEF Undisturbed
  <2>2. CASE RegisterUpdate(r) \/ ActivateWrite(r) \/ UpdateWrite(r)
    BY <2>2, RestoringStep, UpdateWriteStep DEF Restores, Undisturbed
  <2>3. CASE IssueClose(r) \/ IssueCreate(r) \/ FindCode(r) \/ ConsumeCode(r)
    BY <1>1, <2>3 DEF IssueClose, IssueCreate, FindCode, ConsumeCode
  <2> QED
    BY <1>2, <2>1, <2>2, <2>3 DEF Handler, Undisturbing
<1> QED
  BY <1>1, <1>2, ChangeSubscriptionStep DEF Next, Expire

(* What an update of the request's user makes of each user.                *)
LEMMA Updated ==
    ASSUME Shapes, NEW r \in Reqs, NEW row, users' = [users EXCEPT ![req[r].user] = row],
           req[r].user \in Existing
    PROVE  \A u \in Existing : users'[u] = IF u = req[r].user THEN row ELSE users[u]
<1>1. \A u \in Existing : u \in Users
  BY DEF Existing
<1> QED
  BY <1>1 DEF Shapes, UsersOK

(* The actions that write no user who exists.                              *)
LEMMA NoWriteKeeps ==
    ASSUME Shapes, NEW r \in Reqs, Handler(r),
           ~VerifyUser(r), ~SetPassword(r), ~SetOnboarded(r), ~SuspendWrite(r), ~ActivateWrite(r),
           ~UpdateWrite(r), ~RegisterUpdate(r), ~BootstrapUpdate(r)
    PROVE  \A u \in Existing : Keeps(u) /\ Opens(u)
<1>1. (\A u \in Existing : users'[u] = users[u]) => \A u \in Existing : Keeps(u) /\ Opens(u)
  BY DEF Keeps, Opens
<1>2. CASE RegisterCreate(r) \/ BootstrapCreate(r)
  <2>1. CASE UNCHANGED users
    BY <1>1, <2>1
  <2>2. CASE ~UNCHANGED users
    <3>1. PICK u, row : /\ u = CHOOSE free \in Users \ Existing : TRUE
                        /\ Existing # Users /\ users' = [users EXCEPT ![u] = row]
      BY <1>2, <2>2 DEF RegisterCreate, BootstrapCreate
    <3>2. u \notin Existing
      <4>1. Existing \subseteq Users
        BY DEF Existing
      <4>2. \E free : free \in Users \ Existing
        BY <3>1, <4>1
      <4> QED
        BY <3>1, <4>2
    <3>3. \A w \in Existing : users'[w] = users[w]
      BY <3>1, <3>2 DEF Shapes, UsersOK, Existing
    <3> QED
      BY <1>1, <3>3
  <2> QED
    BY <2>1, <2>2
<1>3. CASE UNCHANGED users
  BY <1>1, <1>3
<1>4. CASE UpsertProfile(r)
  BY <1>3, <1>4 DEF UpsertProfile
<1>5. CASE UpdateFind(r) \/ Fail(r) \/ IssueClose(r) \/ IssueCreate(r) \/ FindCode(r) \/ ConsumeCode(r)
  BY <1>3, <1>5 DEF UpdateFind, Fail, IssueClose, IssueCreate, FindCode, ConsumeCode
<1>6. CASE \/ RegisterRestaurant(r) \/ ResendCode(r) \/ ForgotPassword(r) \/ VerifyRegistration(r)
           \/ ResetPassword(r) \/ ChangePassword(r) \/ SaveProfile(r) \/ EnsureSuperAdmin(r)
  BY <1>3, <1>6 DEF RegisterRestaurant, ResendCode, ForgotPassword, VerifyRegistration,
     ResetPassword, ChangePassword, SaveProfile, EnsureSuperAdmin, Start
<1>7. CASE SuspendUser(r) \/ ActivateUser(r) \/ UpdateUser(r)
  BY <1>3, <1>7 DEF SuspendUser, ActivateUser, UpdateUser, StartAdmin, Start
<1> QED
  BY <1>2, <1>4, <1>5, <1>6, <1>7 DEF Handler

(* The writes that take no right away.                                     *)
LEMMA GentleKeeps ==
    ASSUME Shapes, NEW r \in Reqs,
           \/ VerifyUser(r) \/ SetPassword(r) \/ SetOnboarded(r) \/ ActivateWrite(r)
           \/ BootstrapUpdate(r)
    PROVE  \A u \in Existing : Keeps(u) /\ Opens(u)
<1> DEFINE u == req[r].user
<1>1. req[r] \in Locals /\ Provided(req[r]) /\ Found(req[r], Existing, codes, profiles)
  BY Carried DEF Shapes
<1>2. u \in Existing
  BY <1>1 DEF VerifyUser, SetPassword, SetOnboarded, ActivateWrite, BootstrapUpdate, At, Found
<1>3. u \in Users /\ users[u] \in Rows
  BY <1>2, Rowed DEF Shapes
<1>4. ASSUME NEW row, users' = [users EXCEPT ![u] = row],
             row.role \in {users[u].role, "admin"}, users[u].active => row.active,
             users[u].verified => row.verified,
             \/ row.active = users[u].active
             \/ req[r].actor # NULL \/ At(r, "bootstrap") \/ At(r, "verified")
      PROVE  \A w \in Existing : Keeps(w) /\ Opens(w)
  <2>1. \A w \in Existing : users'[w] = IF w = u THEN row ELSE users[w]
    BY <1>2, <1>4, Updated
  <2> QED
    BY <1>4, <2>1 DEF Keeps, Opens
<1>5. CASE VerifyUser(r)
  <2>1. PICK row : /\ row = [users[u] EXCEPT !.verified = TRUE, !.active = TRUE]
                   /\ users' = [users EXCEPT ![u] = row] /\ At(r, "verified")
    BY <1>5 DEF VerifyUser, Update
  <2>2. row.role = users[u].role /\ row.active /\ row.verified
    BY <1>3, <2>1 DEF Rows
  <2> QED
    BY <1>4, <2>1, <2>2
<1>6. CASE SetPassword(r)
  <2>1. PICK row : /\ row = [users[u] EXCEPT !.pass = req[r].pass]
                   /\ users' = [users EXCEPT ![u] = row]
    BY <1>6 DEF SetPassword, Update
  <2>2. /\ row.role = users[u].role /\ row.active = users[u].active
        /\ row.verified = users[u].verified
    BY <1>3, <2>1 DEF Rows
  <2> QED
    BY <1>4, <2>1, <2>2
<1>7. CASE SetOnboarded(r)
  <2>1. PICK row : /\ row = [users[u] EXCEPT !.onboarded = TRUE]
                   /\ users' = [users EXCEPT ![u] = row]
    BY <1>7 DEF SetOnboarded, Update
  <2>2. /\ row.role = users[u].role /\ row.active = users[u].active
        /\ row.verified = users[u].verified
    BY <1>3, <2>1 DEF Rows
  <2> QED
    BY <1>4, <2>1, <2>2
<1>8. CASE ActivateWrite(r)
  <2>1. PICK row, status : /\ row = [users[u] EXCEPT !.active = TRUE, !.account = NULL, !.status = status]
                           /\ users' = [users EXCEPT ![u] = row] /\ At(r, "activate")
    BY <1>8 DEF ActivateWrite, Update
  <2>2. row.role = users[u].role /\ row.active /\ row.verified = users[u].verified
    BY <1>3, <2>1 DEF Rows
  <2>3. req[r].actor # NULL
    BY <1>1, <2>1 DEF Provided, At
  <2> QED
    BY <1>4, <2>1, <2>2, <2>3
<1>9. CASE BootstrapUpdate(r)
  <2> DEFINE read == req[r].row
             wanted == NewUser(AdminEmail, AdminPassword, "admin")
             written(f) == f \in {"email", "role", "active", "verified", "pass"} /\ read[f] # wanted[f]
  <2>1. PICK row : /\ row = [f \in DOMAIN read |-> IF written(f) THEN wanted[f] ELSE users[u][f]]
                   /\ users' = [users EXCEPT ![u] = row] /\ At(r, "bootstrap")
    BY <1>9 DEF BootstrapUpdate
  <2>2. read \in Rows
    BY <1>1, <1>2, <2>1, Rowed DEF At, Found, Shapes
  <2>3. {"role", "active", "verified"} \subseteq DOMAIN read
    BY <2>2 DEF Rows
  <2>4. wanted.role = "admin" /\ wanted.active /\ wanted.verified
    BY DEF NewUser
  <2> HIDE DEF read, wanted
  <2>5. /\ row.role \in {users[u].role, wanted.role} /\ row.active \in {users[u].active, wanted.active}
        /\ row.verified \in {users[u].verified, wanted.verified}
    BY <2>1, <2>3
  <2> QED
    BY <1>4, <2>1, <2>4, <2>5
<1> QED
  BY <1>5, <1>6, <1>7, <1>8, <1>9

(* A change of a subscription is of its plan and its status only.          *)
LEMMA SubscriptionKeeps ==
    ASSUME Shapes, ChangeSubscription PROVE \A u \in Existing : Keeps(u) /\ Opens(u)
<1>0. PICK u \in Existing : \E status, row :
         /\ row = [users[u] EXCEPT !.plan = TRUE, !.status = status]
         /\ users' = [users EXCEPT ![u].plan = TRUE, ![u].status = status]
  BY DEF ChangeSubscription
<1>1. PICK status, row :
         /\ row = [users[u] EXCEPT !.plan = TRUE, !.status = status]
         /\ users' = [users EXCEPT ![u].plan = TRUE, ![u].status = status]
  BY <1>0
<1>2. users \in [Users -> Rows \cup {NULL}] /\ u \in Users /\ users[u] \in Rows
  BY Rowed DEF Shapes, UsersOK
<1>3. users' = [users EXCEPT ![u] = row]
  <2>1. /\ row = [users[u] EXCEPT !.plan = TRUE, !.status = status]
        /\ users' = [users EXCEPT ![u].plan = TRUE, ![u].status = status]
    BY <1>1
  <2> QED
    BY <1>2, <2>1, Charged
<1>4. /\ row.role = users[u].role /\ row.active = users[u].active
      /\ row.verified = users[u].verified
  BY <1>1, <1>2 DEF Rows
<1>5. \A w \in Existing : users'[w] = IF w = u THEN row ELSE users[w]
  BY <1>2, <1>3 DEF Existing
<1> QED
  BY <1>4, <1>5 DEF Keeps, Opens

Stands == VerifiedStays /\ ClosedStaysClosed /\ AnAdminRemains

LEMMA KeepingStands ==
    ASSUME Existing \subseteq Existing', \A u \in Existing : Keeps(u) /\ Opens(u) PROVE Stands
<1>1. VerifiedStays
  BY DEF VerifiedStays, Keeps
<1>2. ClosedStaysClosed
  BY DEF ClosedStaysClosed, Opens
<1>3. ActiveAdmins \subseteq ActiveAdmins'
  BY DEF ActiveAdmins, Keeps
<1> QED
  BY <1>1, <1>2, <1>3 DEF Stands, AnAdminRemains

(* An account registered anew was not verified when the request read it.   *)
LEMMA RegisterStands ==
    ASSUME Shapes, NEW r \in Reqs, RegisterUpdate(r) PROVE Stands
<1> DEFINE u == req[r].user
<1>1. At(r, "register") /\ u \in Existing /\ ~req[r].row.verified
  BY Carried, Rowed DEF Shapes, RegisterUpdate, At, Found
<1>2. PICK row : users' = [users EXCEPT ![u] = row]
  BY DEF RegisterUpdate, Write
<1>3. \A w \in Existing : users'[w] = IF w = u THEN row ELSE users[w]
  <2>1. u \in Existing /\ users' = [users EXCEPT ![u] = row]
    BY <1>1, <1>2
  <2> QED
    BY <2>1, Updated
<1>4. VerifiedStays /\ ClosedStaysClosed
  BY <1>1, <1>3 DEF VerifiedStays, ClosedStaysClosed
<1> QED
  BY <1>4 DEF Stands, AnAdminRemains

(* Nobody suspends himself.                                                *)
LEMMA SuspendStands ==
    ASSUME Shapes, Existing \subseteq Existing', NEW r \in Reqs, SuspendWrite(r) PROVE Stands
<1> DEFINE u == req[r].user
<1>1. At(r, "suspend") /\ u \in Existing /\ req[r].actor # u
  BY Carried DEF Shapes, SuspendWrite, At, Found, Provided
<1>2. PICK row : /\ row = [users[u] EXCEPT !.active = FALSE, !.account = req[r].change.account]
                 /\ users' = [users EXCEPT ![u] = row]
  BY DEF SuspendWrite, Update
<1>3. ~row.active /\ row.verified = users[u].verified
  BY <1>1, <1>2, Rowed DEF Shapes, Rows
<1>4. \A w \in Existing : users'[w] = IF w = u THEN row ELSE users[w]
  <2>1. u \in Existing /\ users' = [users EXCEPT ![u] = row]
    BY <1>1, <1>2
  <2> QED
    BY <2>1, Updated
<1>5. VerifiedStays /\ ClosedStaysClosed
  BY <1>3, <1>4 DEF VerifiedStays, ClosedStaysClosed
<1>6. req[r].actor \in ActiveAdmins => req[r].actor \in ActiveAdmins'
  BY <1>1, <1>4 DEF ActiveAdmins
<1> QED
  BY <1>5, <1>6 DEF Stands, AnAdminRemains

(* Nobody takes his own role or deactivates himself.                       *)
LEMMA UpdateStands ==
    ASSUME Shapes, Existing \subseteq Existing', NEW r \in Reqs, UpdateWrite(r) PROVE Stands
<1> DEFINE u == req[r].user
           updates == req[r].change
<1>1. /\ At(r, "update") /\ u \in Existing /\ req[r].actor # NULL /\ updates \in Updates
      /\ req[r].actor = u => Harmless(updates)
  BY Carried DEF Shapes, UpdateWrite, At, Found, Provided
<1>2. CASE EmailTaken(r)
  <2>1. \A w \in Existing : Keeps(w) /\ Opens(w)
    BY <1>2 DEF UpdateWrite, Keeps, Opens
  <2> QED
    BY <2>1, KeepingStands
<1>3. CASE ~EmailTaken(r)
  <2>1. PICK row : row = Amended(users[u], updates) /\ users' = [users EXCEPT ![u] = row]
    BY <1>3 DEF UpdateWrite, Update
  <2>2. users[u] \in Rows
    BY <1>1, Rowed DEF Shapes
  <2>3. \A f \in {"role", "active", "verified"} :
           row[f] = IF f \in DOMAIN updates THEN updates[f] ELSE users[u][f]
    BY <1>1, <2>1, <2>2, AmendedRow
  <2>4. \A w \in Existing : users'[w] = IF w = u THEN row ELSE users[w]
    <3>1. u \in Existing /\ users' = [users EXCEPT ![u] = row]
      BY <1>1, <2>1
    <3> QED
      BY <3>1, Updated
  <2>5. VerifiedStays /\ ClosedStaysClosed
    <3>1. row["verified"] = users[u]["verified"] \/ "verified" \in DOMAIN updates
      BY <2>3
    <3> QED
      BY <1>1, <2>4, <3>1 DEF VerifiedStays, ClosedStaysClosed
  <2>6. req[r].actor \in ActiveAdmins => req[r].actor \in ActiveAdmins'
    <3>1. CASE req[r].actor # u
      BY <2>4, <3>1 DEF ActiveAdmins
    <3>2. CASE req[r].actor = u
      <4>1. /\ row["active"] = TRUE \/ row["active"] = users[u]["active"]
            /\ row["role"] = "admin" \/ row["role"] = users[u]["role"]
        BY <1>1, <2>3, <3>2 DEF Harmless
      <4> QED
        BY <1>1, <2>4, <3>2, <4>1 DEF ActiveAdmins
    <3> QED
      BY <3>1, <3>2
  <2> QED
    BY <2>5, <2>6 DEF Stands, AnAdminRemains
<1> QED
  BY <1>2, <1>3

(* A verification, a closing of an account and the last administrator are  *)
(* lost only to an administrator's request that means it, to a request     *)
(* that read the account before, or to one whose administrator has lost    *)
(* his rights since it began.                                              *)
THEOREM AccountsStandAlways == HSpec => AccountsStand
<1>1. AccountInv /\ [HNext]_hvars => [VerifiedStays /\ ClosedStaysClosed /\ AnAdminRemains]_hvars
  <2> SUFFICES ASSUME Shapes, HNext PROVE Stands
    BY DEF AccountInv, Stands
  <2>1. Existing \subseteq Existing'
    BY UsersStay DEF HNext
  <2>2. ASSUME NEW r \in Reqs, Handler(r) PROVE Stands
    BY <2>1, <2>2, NoWriteKeeps, GentleKeeps, KeepingStands, RegisterStands, SuspendStands, UpdateStands
  <2>3. CASE ChangeSubscription
    BY <2>1, <2>3, SubscriptionKeeps, KeepingStands
  <2>4. CASE Expire
    <3>1. \A u \in Existing : Keeps(u) /\ Opens(u)
      BY <2>4 DEF Expire, Keeps, Opens
    <3> QED
      BY <2>1, <3>1, KeepingStands
  <2> QED
    BY <2>2, <2>3, <2>4 DEF HNext, Next
<1> QED
  BY <1>1, InvHolds, PTL DEF HSpec, AccountsStand
=============================================================================
