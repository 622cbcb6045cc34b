---------------------------- MODULE MCContention ----------------------------
(***************************************************************************)
(* Four requests at once over three accounts and three connections:        *)
(* transfers in opposite directions, rings of three, withdrawals and       *)
(* deposits of the same rows, so that cycles of two and of three waiting   *)
(* requests would be possible and the fourth waits for the pool.  After    *)
(* the deposit of 2 the credit of account 2 may not fit its column.        *)
(***************************************************************************)
EXTENDS MoneyMovement, TLC

CONSTANTS r1, r2, r3, r4

MCRequests == {r1, r2, r3, r4}
MCAccounts == 1..3
MCOpening  == [a \in MCAccounts |-> 1]

Deposit(user, sum) ==
  [type |-> "deposit", userId |-> user, recipientId |-> 0, amount |-> sum]
Withdraw(user, sum) ==
  [type |-> "withdraw", userId |-> user, recipientId |-> 0, amount |-> sum]
Transfer(from, to, sum) ==
  [type |-> "transfer", userId |-> from, recipientId |-> to, amount |-> sum]

Mix(j1, j2, j3, j4) == r1 :> j1 @@ r2 :> j2 @@ r3 :> j3 @@ r4 :> j4

Ring  == Mix(Transfer(1, 2, 1), Transfer(2, 3, 2), Transfer(3, 1, 1), Deposit(1, 0))
Pairs == Mix(Transfer(1, 2, 1), Transfer(2, 1, 2), Deposit(2, 2), Withdraw(1, 9))
Mixes == {Ring, Pairs}

MCJobs == UNION {{mix[r] : r \in MCRequests} : mix \in Mixes}

MCInit == Init /\ job \in Mixes /\ \A u \in L!Users : active[u]
MCSpec == MCInit /\ [][Next]_vars /\ \A r \in Requests : WF_vars(Step(r))
=============================================================================
