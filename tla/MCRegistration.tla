--------------------------- MODULE MCRegistration ---------------------------
(***************************************************************************)
(* Four registrations of two e-mails over two connections: two of them can *)
(* hold the whole pool while each waits for its second connection.         *)
(***************************************************************************)
EXTENDS Registration, TLC

CONSTANTS r1, r2, r3, r4, e1, e2

MCRequests == {r1, r2, r3, r4}
MCEmails   == {e1, e2}
Symmetry   == Permutations(MCRequests) \cup Permutations(MCEmails)
=============================================================================
