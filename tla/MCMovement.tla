----------------------------- MODULE MCMovement -----------------------------
(***************************************************************************)
(* Every kind of job, two requests at a time.  Users 1 and 2 have accounts *)
(* and little room below MaxInt; user 3 has none; recipient 0 is an e-mail *)
(* nobody owns; one amount is zero and one does not fit the column.        *)
(***************************************************************************)
EXTENDS Statements, TLC

CONSTANTS r1, r2

MCRequests == {r1, r2}
MCAccounts == {1, 2}
MCOpening  == 1 :> 2 @@ 2 :> 3

Ask(type, user, recipient, amount) ==
  [type |-> type, userId |-> user, recipientId |-> recipient, amount |-> amount]

MCJobs == {
  Ask("deposit", 1, 0, 0),   Ask("deposit", 1, 0, 2),   Ask("deposit", 2, 0, 1),
  Ask("deposit", 1, 0, 5),   Ask("deposit", 3, 0, 1),   Ask("withdraw", 1, 0, 3),
  Ask("withdraw", 1, 0, 1),  Ask("withdraw", 1, 0, 2),  Ask("withdraw", 3, 0, 1),
  Ask("transfer", 1, 2, 1),  Ask("transfer", 1, 2, 2),  Ask("transfer", 2, 1, 3),
  Ask("transfer", 1, 1, 1),  Ask("transfer", 1, 0, 1),  Ask("transfer", 1, 3, 1),
  Ask("transfer", 3, 1, 1) }

Symmetry == Permutations(MCRequests)
=============================================================================
