------------------------------- MODULE Ledger -------------------------------
(***************************************************************************)
(* What the transaction use cases promise, with no statement, lock or      *)
(* database transaction in sight.  Money moves only by posting a row to    *)
(* the transactions table, and posting a row changes the balances of the   *)
(* accounts it names, by the amount it names, in the same instant.         *)
(* MoneyMovement is shown to implement this specification.                 *)
(***************************************************************************)
EXTENDS Integers, FiniteSets, Functions

CONSTANTS Requests,   \* HTTP requests; a request posts at most one row
          UserCount,  \* users are numbered, uuids being totally ordered
          Accounts,   \* the users that have an accounts row
          Opening,    \* balance of each account in the initial state
          MaxInt,     \* largest value of an INTEGER column (2^31 - 1)
          Jobs        \* what the clients ask for

Users == 1..UserCount

\* recipient_id of a deposit or a withdrawal (NULL), or an unknown e-mail
Nobody == 0

Job == {job \in [type: {"deposit", "withdraw", "transfer"}, userId: Users,
                 recipientId: Users \cup {Nobody}, amount: Int] :
          job.type # "transfer" => job.recipientId = Nobody}

\* MoneyMovement assumes it of the values it is checked and proved for.
ParametersOK ==
  /\ UserCount \in Nat
  /\ Accounts \subseteq Users
  /\ MaxInt \in Nat
  /\ Opening \in [Accounts -> 0..MaxInt]
  /\ Jobs \subseteq Job

VARIABLES balance, transactions

Payer(job) == IF job.type = "deposit" THEN Nobody ELSE job.userId

Payee(job) == IF job.type = "withdraw" THEN Nobody
              ELSE IF job.type = "deposit" THEN job.userId ELSE job.recipientId

\* What a posted job adds to the balance of account a.
Effect(job, a) == (IF a = Payee(job) THEN job.amount ELSE 0)
                  - (IF a = Payer(job) THEN job.amount ELSE 0)

Row == [id: Requests, job: Jobs]

Init ==
  /\ balance = Opening
  /\ transactions = {}

\* Some money of an account, to somebody else's account if it is a transfer.
Postable(job) ==
  /\ job.amount > 0
  /\ job.userId \in Accounts
  /\ job.type = "transfer" => job.recipientId \in Accounts \ {job.userId}

Post(id, job) ==
  /\ \A row \in transactions : row.id # id
  /\ Postable(job)
  /\ balance' = [a \in Accounts |-> balance[a] + Effect(job, a)]
  /\ \A a \in Accounts : balance'[a] \in 0..MaxInt
  /\ transactions' = transactions \cup {[id |-> id, job |-> job]}

Next == \E id \in Requests, job \in Jobs : Post(id, job)

Spec == Init /\ [][Next]_<<balance, transactions>>

-----------------------------------------------------------------------------
(***************************************************************************)
(* A balance is explained by the history: it is the opening balance plus   *)
(* the effects of the rows of the transactions table, so no committed      *)
(* money lacks a row and no row lacks its money (DepositUseCase,           *)
(* WithdrawUseCase, TransferUseCase write both in one unit of work).       *)
(***************************************************************************)
HistoryExplainsBalance ==
  \A a \in Accounts :
    balance[a] = Opening[a] + SumFunction([row \in transactions |-> Effect(row.job, a)])

(***************************************************************************)
(* Transfers neither create nor destroy money: what the accounts hold      *)
(* together is what came in by deposits and has not left by withdrawals    *)
(* (TransferUseCase debits one account and credits the other in one unit   *)
(* of work).                                                               *)
(***************************************************************************)
FromOutside(job) ==
  CASE job.type = "deposit"  -> job.amount
    [] job.type = "withdraw" -> -job.amount
    [] job.type = "transfer" -> 0

MoneyIsConserved ==
  SumFunction(balance)
    = SumFunction(Opening) + SumFunction([row \in transactions |-> FromOutside(row.job)])

-----------------------------------------------------------------------------
(* The inductive invariant, see MoneyMovementProofs *)

TypeOK ==
  /\ balance \in [Accounts -> 0..MaxInt]
  /\ transactions \subseteq Row

\* What Post has looked at remains true of the rows: nothing deletes or edits them.
RowsAreSound ==
  /\ IsFiniteSet(transactions)
  /\ \A row \in transactions : Postable(row.job)
  /\ \A row, other \in transactions : row.id = other.id => row = other

Inv ==
  /\ TypeOK
  /\ RowsAreSound
  /\ HistoryExplainsBalance
=============================================================================
