------------------------------ MODULE MCAccounts ------------------------------
EXTENDS AccountHistory, TLC

CONSTANTS r1, r2, u1, u2, e1, e2, p1, p2

(* One field, two and all of them; what opens an account and what closes it. *)
MCUpdates ==
    {[email |-> e1], [email |-> e2], [role |-> "admin"], [role |-> "owner"],
     [active |-> FALSE], [verified |-> FALSE], [status |-> "suspended"],
     [active |-> TRUE, account |-> "restricted"],
     [email |-> e2, role |-> "owner", active |-> TRUE, verified |-> TRUE,
      account |-> "suspended", plan |-> TRUE, status |-> "active"]}

MCSymmetry == Permutations(Reqs) \cup Permutations(Users)
=============================================================================
