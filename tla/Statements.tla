----------------------------- MODULE Statements -----------------------------
(***************************************************************************)
(* GET /transactions and GET /transactions/balance over the rows and       *)
(* balances of MoneyMovement: what a user reads is one SELECT at a time,   *)
(* at any moment of the requests that are moving money.                    *)
(*                                                                         *)
(* Rows carry created_at, the clock of the process when the entity is made,*)
(* just before its INSERT: other requests may commit between the stamp and *)
(* the COMMIT that makes the row visible.                                  *)
(***************************************************************************)
EXTENDS MoneyMovement, FiniteSetsExt

VARIABLE createdAt   \* created_at of each request's row, 0 if it made none

Latest == Max({createdAt[r] : r \in Requests} \cup {0})

\* Mutant: the entity is made before the row lock is asked for.
CreatedBeforeLock(r) == pc[r] = "begin" /\ pc'[r] = "read"

\* Transaction.create: the statement that inserts is the one that stamps.
Created(r) == pc[r] = "insert" /\ pc'[r] \in {"credit", "debit"}

\* The clock stands still or has moved on since the last stamp.
Stamp ==
  \/ /\ \A r \in Requests : ~Created(r)
     /\ UNCHANGED createdAt
  \/ \E r \in Requests, now \in {Latest, Latest + 1} :
       /\ Created(r)
       /\ createdAt' = [createdAt EXCEPT ![r] = now]

StatementInit == Init /\ createdAt = [r \in Requests |-> 0]
StatementSpec == StatementInit /\ [][Next /\ Stamp]_<<vars, createdAt>>

-----------------------------------------------------------------------------
Types == {"deposit", "withdraw", "transfer"}

Item(row) ==
  [type |-> row.job.type, amount |-> row.job.amount, senderId |-> row.job.userId,
   recipientId |-> row.job.recipientId, createdAt |-> createdAt[row.id], id |-> row.id]

\* Mutant: the user is looked for among the senders only.
SentBy(u, row) == row.job.userId = u

Concerns(u, row) == row.job.userId = u \/ row.job.recipientId = u

\* A filter that is left out is the widest one.
ListByUser(u, types, from, to) ==
  {item \in {Item(row) : row \in {row \in transactions : Concerns(u, row)}} :
     item.type \in types /\ from <= item.createdAt /\ item.createdAt <= to}

GetBalance(u) == balance[u]

-----------------------------------------------------------------------------
\* What a user makes of an item of the list.
Change(u, item) ==
  IF item.type = "deposit" \/ item.senderId # u THEN item.amount ELSE -item.amount

Total(u, items) == SumFunction([item \in items |-> Change(u, item)])

(***************************************************************************)
(* The list explains the balance, whichever way it is asked for: by type   *)
(* and cut in two at any date, it names every movement of the user's money *)
(* once, sent or received, and nobody else's, while other requests are     *)
(* half way (TransactionRepository.listByUser, GetBalanceUseCase).         *)
(***************************************************************************)
ListExplainsBalance ==
  \A u \in Accounts, cut \in 0..Latest :
    GetBalance(u) = Opening[u]
      + SumFunction([type \in Types |-> Total(u, ListByUser(u, {type}, 0, cut))
                                       + Total(u, ListByUser(u, {type}, cut + 1, Latest))])

(***************************************************************************)
(* Read back from the list up to any date, no balance has ever been        *)
(* negative: created_at is taken under the lock of the account a row       *)
(* debits, so rows are dated in the order in which the money could be      *)
(* spent (WithdrawUseCase.ts:31-47, TransferUseCase.ts:48-60).             *)
(***************************************************************************)
NeverOverdrawn ==
  \A u \in Accounts, date \in 0..Latest :
    Opening[u] + Total(u, ListByUser(u, Types, 0, date)) >= 0

-----------------------------------------------------------------------------
(* The inductive invariant of StatementsProofs *)

LatestIsLast ==
  /\ createdAt \in [Requests -> Nat]
  /\ Latest \in Nat
  /\ \A r \in Requests : createdAt[r] <= Latest

\* A debit is dated under the lock: no row of its account is dated later.
DebitsAreDatedLast ==
  \A r \in Requests : pc[r] \in Writing /\ job[r].type # "deposit" =>
    \A row \in transactions :
      L!Effect(row.job, job[r].userId) # 0 => createdAt[row.id] <= createdAt[r]

Dated(date) == {row \in transactions : createdAt[row.id] <= date}

\* NeverOverdrawn, said of rows.
PastIsCovered ==
  \A u \in Accounts, date \in 0..Latest :
    Opening[u] + SumFunction([row \in Dated(date) |-> L!Effect(row.job, u)]) >= 0

StatementInv ==
  /\ LatestIsLast
  /\ DebitsAreDatedLast
  /\ PastIsCovered
=============================================================================
