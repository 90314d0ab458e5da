------------------------------ MODULE MCAccounts ------------------------------
(* Three requests on two documents, two emails and three passwords.  The inputs     *)
(* cover every handler; the two resets, the registrations and the updates get in  *)
(* each other's way.  The bodies of the updates have an email, a password that is *)
(* no hash, or both fields.                                                       *)
EXTENDS Accounts, TLC

CONSTANTS r1, r2, r3, u1, u2, e1, e2, p1, p2, p3

MCRequests == {r1, r2, r3}
MCUsers == {u1, u2}
MCEmails == {e1, e2}
MCPasswords == {p1, p2, p3}
MCSymmetry == Permutations(MCRequests)

In(op, e, p, q, u) == [op |-> op, email |-> e, password |-> p, newPassword |-> q, user |-> u]

MCInputs ==
  {In("register", e1, p1, p1, u1), In("createUser", e1, p3, p3, u1),
   In("login", e1, p1, p1, u1), In("forgotPassword", e1, p1, p1, u1),
   In("resetPassword", e1, p1, p2, u1), In("resetPassword", e1, p2, p1, u1),
   In("resetPassword", e1, p1, p1, u1),
   In("updateUser", e1, Absent, p1, u2), In("updateUser", e2, p2, p1, u1),
   In("updateUser", Absent, NoHash, p1, u1)}

=============================================================================
