---------------------------- MODULE MCUserCache ----------------------------
(***************************************************************************)
(* Three requests: a read, a write and a later read of one user is what a  *)
(* stale fill takes.  User 1 does everything, user 2 competes for an       *)
(* e-mail.                                                                 *)
(***************************************************************************)
EXTENDS UserCache, TLC

CONSTANTS r1, r2, r3, u1, u2, e1, e2, e3, p1

MCRequests == {r1, r2, r3}
MCUsers    == {u1, u2}
MCEmails   == {e1, e2, e3}
MCPhones   == {p1}

\* Copies differ in rev already, so the safety run needs no phone but null.
NoPhones   == {}

Patch(user, email, phone) ==
  [op |-> "patch", user |-> user, email |-> email, phone |-> phone]

MCJobs ==
  {[op |-> op, user |-> u1] : op \in {"get", "deactivate", "reactivate"}}
  \cup {Patch(u1, e1, Null), Patch(u1, Absent, Absent), Patch(u2, e1, Null)}

Symmetry == Permutations(MCRequests) \cup Permutations({e2, e3})
=============================================================================
