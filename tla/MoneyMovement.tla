---------------------------- MODULE MoneyMovement ----------------------------
(***************************************************************************)
(* POST /transactions/deposit, /withdraw and /transfer, statement by       *)
(* statement: DepositUseCase, WithdrawUseCase and TransferUseCase with the *)
(* repositories they call, each in one PostgreSQL transaction (read        *)
(* committed) on one of the PoolMax pooled connections.                    *)
(*                                                                         *)
(* Every await of a use case ends an action, so the requests interleave at *)
(* each statement.  A connection may be lost and the process may crash     *)
(* between any two statements.  Users are deactivated and reactivated      *)
(* meanwhile (by the handlers of DELETE /user/account and POST             *)
(* /auth/reactivate).                                                      *)
(***************************************************************************)
EXTENDS Integers, FiniteSets

CONSTANTS Requests, UserCount, Accounts, Opening, MaxInt, Jobs,
          PoolMax,  \* knex pool: connections the process may hold
          Free      \* holder of a row nobody has locked

VARIABLES
  balance,       \* committed accounts.balance
  transactions,  \* committed rows of the transactions table
  active,        \* committed users.is_active
  lockedBy,      \* the request whose transaction holds the row lock
  job,           \* what each request asks for (validated body and token)
  pc,            \* the statement each request runs next
  seen,          \* the sender's balance as the use case read it
  delta,         \* uncommitted UPDATEs of accounts, per request
  drafts,        \* uncommitted INSERTs into transactions, per request
  reply,         \* the HTTP answer of each request
  outbox         \* notifications handed to the message publisher

database == <<balance, transactions, active>>
vars == <<balance, transactions, active, lockedBy, job, pc, seen, delta,
          drafts, reply, outbox>>

L == INSTANCE Ledger

ASSUME MoneyAssumption ==
  /\ L!ParametersOK
  /\ PoolMax \in Nat \ {0}
  /\ Free \notin Requests

InTransaction ==
  {"read", "lock1", "lock2", "insert", "debit", "credit", "commit"}
Steps == {"idle", "begin", "lookup", "select", "done"} \cup InTransaction

\* refused: AppError (4xx).  error: 500 after a failed statement, a lost
\* connection or a pool timeout.  userMissing: 500 because user! was null.
\* lost: the process died, the client sees its connection reset.
Replies == {"none", "ok", "refused", "error", "userMissing", "lost"}

NoChange == [a \in Accounts |-> 0]

Init ==
  /\ balance = Opening
  /\ transactions = {}
  /\ active \in [L!Users -> BOOLEAN]
  /\ lockedBy = [a \in Accounts |-> Free]
  /\ job \in [Requests -> Jobs]
  /\ pc = [r \in Requests |-> "idle"]
  /\ seen = [r \in Requests |-> 0]
  /\ delta = [r \in Requests |-> NoChange]
  /\ drafts = [r \in Requests |-> {}]
  /\ reply = [r \in Requests |-> "none"]
  /\ outbox = {}

-----------------------------------------------------------------------------
(* Transaction control *)

Goto(r, step) == pc' = [pc EXCEPT ![r] = step]

\* A statement that leaves nothing behind but the next one.
Proceed(r, step) ==
  /\ Goto(r, step)
  /\ UNCHANGED <<database, lockedBy, job, seen, delta, drafts, reply, outbox>>

\* Mutant: the connection is given back after the look-up.
FreeAfterLookup ==
  Cardinality({r \in Requests : pc[r] \in InTransaction \cup {"lookup", "select"}}) < PoolMax

FreeConnection == Cardinality({r \in Requests : pc[r] \in InTransaction}) < PoolMax

Parties(j) == IF j.type = "transfer" THEN {j.userId, j.recipientId} ELSE {j.userId}
Mail(r) == {[request |-> r, to |-> u] : u \in Parties(job[r])}

\* Mutant: a connection goes back to the pool with its transaction open.
EndLeavingLocks(r) ==
  /\ UNCHANGED lockedBy
  /\ delta' = [delta EXCEPT ![r] = NoChange]
  /\ drafts' = [drafts EXCEPT ![r] = {}]

\* COMMIT and ROLLBACK both drop the locks and the uncommitted versions.
EndTransaction(r) ==
  /\ lockedBy' = [a \in Accounts |-> IF lockedBy[a] = r THEN Free ELSE lockedBy[a]]
  /\ delta' = [delta EXCEPT ![r] = NoChange]
  /\ drafts' = [drafts EXCEPT ![r] = {}]

\* Mutant: the notifications are published in a finally block.
AbortPublishing(r, answer) ==
  /\ EndTransaction(r)
  /\ Goto(r, "done")
  /\ reply' = [reply EXCEPT ![r] = answer]
  /\ outbox' = outbox \cup Mail(r)
  /\ UNCHANGED <<database, job, seen>>

\* Mutant: the statements already run are committed when a later one fails.
AbortKeepingUpdates(r, answer) ==
  /\ balance' = [a \in Accounts |-> balance[a] + delta[r][a]]
  /\ EndTransaction(r)
  /\ Goto(r, "done")
  /\ reply' = [reply EXCEPT ![r] = answer]
  /\ UNCHANGED <<transactions, active, job, seen, outbox>>

\* The use case throws: knex rolls back, errorHandler answers.
Abort(r, answer) ==
  /\ EndTransaction(r)
  /\ Goto(r, "done")
  /\ reply' = [reply EXCEPT ![r] = answer]
  /\ UNCHANGED <<database, job, seen, outbox>>

\* The schema (int().positive()) and the use case both refuse amount <= 0.
Receive(r) ==
  /\ pc[r] = "idle"
  /\ \/ job[r].amount <= 0 /\ Abort(r, "refused")
     \/ job[r].amount > 0 /\ Proceed(r, "begin")

Begin(r) ==
  /\ pc[r] = "begin"
  /\ FreeConnection
  /\ Proceed(r, "read")

-----------------------------------------------------------------------------
(* Reads and locks *)

DepositRead(r) ==
  /\ pc[r] = "read"
  /\ job[r].type = "deposit"
  /\ \/ job[r].userId \notin Accounts /\ Abort(r, "refused")
     \/ job[r].userId \in Accounts /\ Proceed(r, "insert")

\* The recipient's e-mail belongs to nobody, to an inactive user, or to the
\* sender; or the sender has no account.
Unacceptable(j) ==
  \/ j.userId \notin Accounts
  \/ j.recipientId \notin {u \in L!Users : active[u]}
  \/ j.recipientId = j.userId

\* Promise.all over one connection: both reads are unlocked, and the account
\* read is used for its existence only.
TransferRead(r) ==
  /\ pc[r] = "read"
  /\ job[r].type = "transfer"
  /\ \/ Unacceptable(job[r]) /\ Abort(r, "refused")
     \/ ~Unacceptable(job[r]) /\ Proceed(r, "lock1")

\* Mutant: findByUserId instead of findByUserIdForUpdate.
UnlockedRead(r, a, next) ==
  \/ a \notin Accounts /\ Abort(r, "refused")
  \/ /\ a \in Accounts
     /\ seen' = IF a = job[r].userId THEN [seen EXCEPT ![r] = balance[a]] ELSE seen
     /\ Goto(r, next)
     /\ UNCHANGED <<database, lockedBy, job, delta, drafts, reply, outbox>>

\* SELECT ... FOR UPDATE waits for the row, then returns its newest version.
LockRow(r, a, next) ==
  \/ a \notin Accounts /\ Abort(r, "refused")
  \/ /\ a \in Accounts
     /\ lockedBy[a] \in {Free, r}
     /\ lockedBy' = [lockedBy EXCEPT ![a] = r]
     /\ seen' = IF a = job[r].userId THEN [seen EXCEPT ![r] = balance[a]] ELSE seen
     /\ Goto(r, next)
     /\ UNCHANGED <<database, job, delta, drafts, reply, outbox>>

WithdrawLock(r) ==
  /\ pc[r] = "read"
  /\ job[r].type = "withdraw"
  /\ LockRow(r, job[r].userId, "insert")

\* Mutant: the sender is always locked first.
AlwaysSenderFirst(j) == j.userId # j.recipientId

\* lockBothAccounts takes the smaller id first, whoever the sender is.
SenderFirst(j) == j.userId < j.recipientId
FirstOf(j)  == IF SenderFirst(j) THEN j.userId ELSE j.recipientId
SecondOf(j) == IF SenderFirst(j) THEN j.recipientId ELSE j.userId

TransferLock1(r) == pc[r] = "lock1" /\ LockRow(r, FirstOf(job[r]), "lock2")
TransferLock2(r) == pc[r] = "lock2" /\ LockRow(r, SecondOf(job[r]), "insert")

-----------------------------------------------------------------------------
(* Writes *)

\* Mutant: the balance check is dropped from transfers.
InsufficientToWithdraw(r) == job[r].type = "withdraw" /\ seen[r] < job[r].amount

Insufficient(r) == job[r].type # "deposit" /\ seen[r] < job[r].amount

\* The balance check of a debit, then INSERT INTO transactions, whose amount
\* column is an INTEGER.
Insert(r) ==
  /\ pc[r] = "insert"
  /\ \/ Insufficient(r) /\ Abort(r, "refused")
     \/ ~Insufficient(r) /\ job[r].amount > MaxInt /\ Abort(r, "error")
     \/ /\ ~Insufficient(r)
        /\ job[r].amount <= MaxInt
        /\ drafts' = [drafts EXCEPT ![r] = {[id |-> r, job |-> job[r]]}]
        /\ Goto(r, IF job[r].type = "deposit" THEN "credit" ELSE "debit")
        /\ UNCHANGED <<database, lockedBy, job, seen, delta, reply, outbox>>

\* Mutant: the balance column is wider than the model of it.
AnyBalance(n) == n \in Int

\* INTEGER, and chk_accounts_balance_non_negative.
Storable(n) == n \in 0..MaxInt

CreditTo(j) == IF j.type = "deposit" THEN j.userId ELSE j.recipientId

\* UPDATE accounts SET balance = balance + amount takes the row lock, and
\* fails on a balance the column cannot hold.
UpdateBalance(r, a, amount, next) ==
  /\ lockedBy[a] \in {Free, r}
  /\ IF ~Storable(balance[a] + delta[r][a] + amount)
       THEN Abort(r, "error")
       ELSE /\ lockedBy' = [lockedBy EXCEPT ![a] = r]
            /\ delta' = [delta EXCEPT ![r] = [delta[r] EXCEPT ![a] = @ + amount]]
            /\ Goto(r, next)
            /\ UNCHANGED <<database, job, seen, drafts, reply, outbox>>

Debit(r) ==
  /\ pc[r] = "debit"
  /\ UpdateBalance(r, job[r].userId, -job[r].amount,
                   IF job[r].type = "transfer" THEN "credit" ELSE "commit")

Credit(r) ==
  /\ pc[r] = "credit"
  /\ UpdateBalance(r, CreditTo(job[r]), job[r].amount, "commit")

\* findById of the user to write to: of a transfer in the table, of the others
\* in Redis first.
LookupOf(j) == IF j.type = "transfer" THEN "select" ELSE "lookup"

\* Mutant: the row is inserted on another connection, and lost.
CommitWithoutRow(r) ==
  /\ pc[r] = "commit"
  /\ balance' = [a \in Accounts |-> balance[a] + delta[r][a]]
  /\ EndTransaction(r)
  /\ Goto(r, LookupOf(job[r]))
  /\ UNCHANGED <<transactions, active, job, seen, reply, outbox>>

Commit(r) ==
  /\ pc[r] = "commit"
  /\ balance' = [a \in Accounts |-> balance[a] + delta[r][a]]
  /\ transactions' = transactions \cup drafts[r]
  /\ EndTransaction(r)
  /\ Goto(r, LookupOf(job[r]))
  /\ UNCHANGED <<active, job, seen, reply, outbox>>

-----------------------------------------------------------------------------
(* After the commit: look the user up, hand the notifications over, answer *)

\* Redis has no copy of the user: the table is asked, on a pooled connection.
CacheMiss(r) == pc[r] = "lookup" /\ Proceed(r, "select")

\* A copy in Redis may be of a user who has been deactivated since; the SELECT
\* returns active users only.
Found(r) ==
  \/ pc[r] = "lookup"
  \/ pc[r] = "select" /\ FreeConnection /\ active[job[r].userId]

Notify(r) ==
  /\ Found(r)
  /\ outbox' = outbox \cup Mail(r)
  /\ Goto(r, "done")
  /\ reply' = [reply EXCEPT ![r] = "ok"]
  /\ UNCHANGED <<database, lockedBy, job, seen, delta, drafts>>

\* findById returns null and user!.name throws a TypeError.
UserMissing(r) ==
  /\ pc[r] = "select"
  /\ FreeConnection
  /\ ~active[job[r].userId]
  /\ Abort(r, "userMissing")

-----------------------------------------------------------------------------
(* Environment *)

\* Lost connection, failed statement, pool timeout: 500, rolled back.
Fault(r) ==
  /\ pc[r] \in InTransaction \cup {"begin", "lookup", "select"}
  /\ Abort(r, "error")

InFlight(r) == pc[r] \notin {"idle", "done"}

\* The process dies; PostgreSQL rolls the open transactions back.
Crash ==
  /\ \E r \in Requests : InFlight(r)
  /\ lockedBy' = [a \in Accounts |-> Free]
  /\ delta' = [r \in Requests |-> NoChange]
  /\ drafts' = [r \in Requests |-> {}]
  /\ pc' = [r \in Requests |-> IF InFlight(r) THEN "done" ELSE pc[r]]
  /\ reply' = [r \in Requests |-> IF InFlight(r) THEN "lost" ELSE reply[r]]
  /\ UNCHANGED <<database, job, seen, outbox>>

SetActive(u, value) ==
  /\ active[u] # value
  /\ active' = [active EXCEPT ![u] = value]
  /\ UNCHANGED <<balance, transactions, lockedBy, job, pc, seen, delta,
                 drafts, reply, outbox>>

Deactivate(u) == SetActive(u, FALSE)
Reactivate(u) == SetActive(u, TRUE)

-----------------------------------------------------------------------------
Step(r) ==
  \/ Begin(r)
  \/ DepositRead(r) \/ TransferRead(r)
  \/ WithdrawLock(r) \/ TransferLock1(r) \/ TransferLock2(r)
  \/ Insert(r) \/ Debit(r) \/ Credit(r) \/ Commit(r)
  \/ CacheMiss(r) \/ Notify(r) \/ UserMissing(r)

Next ==
  \/ \E r \in Requests : Receive(r) \/ Step(r) \/ Fault(r)
  \/ \E u \in L!Users : Deactivate(u) \/ Reactivate(u)
  \/ Crash

Spec == Init /\ [][Next]_vars

\* The event loop and the database keep serving every request they accepted;
\* clients, faults and crashes owe nothing.
FairSpec == Spec /\ \A r \in Requests : WF_vars(Step(r))

-----------------------------------------------------------------------------
(* Invariants *)

Committed(r) == \E row \in transactions : row.id = r

\* Types.  The part that is not about the shape of the model: a committed
\* balance is never negative and never outgrows its column.
TypeOK ==
  /\ balance \in [Accounts -> 0..MaxInt]
  /\ transactions \subseteq L!Row
  /\ active \in [L!Users -> BOOLEAN]
  /\ lockedBy \in [Accounts -> Requests \cup {Free}]
  /\ job \in [Requests -> Jobs]
  /\ pc \in [Requests -> Steps]
  /\ seen \in [Requests -> 0..MaxInt]
  /\ delta \in [Requests -> [Accounts -> Int]]
  /\ drafts \in [Requests -> SUBSET L!Row]
  /\ reply \in [Requests -> Replies]
  /\ outbox \subseteq [request : Requests, to : L!Users]

\* The accounts a request has locked at each of its statements.
Holding(r, a) ==
  LET j == job[r] IN
  \/ pc[r] = "lock2" /\ a = FirstOf(j)
  \/ pc[r] \in {"insert", "debit"} /\ j.type # "deposit" /\ a \in Parties(j)
  \/ pc[r] = "credit" /\ j.type = "transfer" /\ a \in Parties(j)
  \/ pc[r] = "commit" /\ a \in Parties(j)

(***************************************************************************)
(* Every account a request is about to change or to decide on is locked by *)
(* it, none is locked twice, and a request that has been answered, or whose*)
(* process died, has left no lock behind (findByUserIdForUpdate,           *)
(* lockBothAccounts, KnexUnitOfWork.transaction).                          *)
(***************************************************************************)
LocksMatchProgress ==
  \A r \in Requests, u \in L!Users :
    Holding(r, u) <=> u \in Accounts /\ lockedBy[u] = r

(***************************************************************************)
(* The balance a debit was checked against is still the committed balance  *)
(* when the row is inserted and when the account is debited: the check and *)
(* the debit are atomic, whoever else deposits, withdraws or transfers     *)
(* meanwhile (WithdrawUseCase.ts:32-34, TransferUseCase.ts:86-91).         *)
(***************************************************************************)
BalanceCheckIsCurrent ==
  \A r \in Requests :
    pc[r] \in {"insert", "debit"} /\ job[r].type # "deposit"
      => seen[r] = balance[job[r].userId]

(***************************************************************************)
(* The check constraint chk_accounts_balance_non_negative is only "defense *)
(* in depth" (its migration): no debit ever reaches it uncovered, so a     *)
(* client with too little money gets a 422 and never a 500.                *)
(***************************************************************************)
DebitCovered ==
  \A r \in Requests : pc[r] = "debit" => job[r].amount <= balance[job[r].userId]

(***************************************************************************)
(* What a client and the mail worker are told is what the tables say: a    *)
(* request answered 2xx has its row and its mails, a refused one (4xx) has *)
(* neither, and no mail announces money that was rolled back.  A 500 or a  *)
(* lost connection promises nothing.                                       *)
(***************************************************************************)
ReplyMatchesHistory ==
  /\ \A r \in Requests :
       /\ reply[r] = "ok" => Committed(r) /\ Mail(r) \subseteq outbox
       /\ reply[r] = "refused" => ~Committed(r)
  /\ \A m \in outbox : Committed(m.request)

\* The next statement of r asks for the row lock of account a.
Awaits(r, a) ==
  LET j == job[r] IN
  \/ pc[r] = "read" /\ j.type = "withdraw" /\ a = j.userId
  \/ pc[r] = "lock1" /\ a = FirstOf(j)
  \/ pc[r] = "lock2" /\ a = SecondOf(j)
  \/ pc[r] = "debit" /\ a = j.userId
  \/ pc[r] = "credit" /\ a = CreditTo(j)

WaitsFor(r, q) ==
  /\ q # r
  /\ \E a \in Accounts : Awaits(r, a) /\ lockedBy[a] = q

(***************************************************************************)
(* No deadlock among row locks: in every set of requests somebody waits    *)
(* for nobody in the set, so no cycle of waiting requests exists, whatever *)
(* mix of deposits, withdrawals and transfers runs (TransferUseCase.ts:    *)
(* 87-90, "A->B and B->A running at once would otherwise each hold the row *)
(* the other needs and deadlock").                                         *)
(***************************************************************************)
NoLockCycle ==
  \A S \in SUBSET Requests :
    S # {} => \E r \in S : \A q \in S : ~WaitsFor(r, q)

WaitsForConnection(r) == ~FreeConnection /\ pc[r] \in {"begin", "select"}

\* Of the steps of r: ENABLED Step(r), in terms of what it may have to wait for.
CanStep(r) ==
  /\ InFlight(r)
  /\ ~WaitsForConnection(r)
  /\ \A q \in Requests : ~WaitsFor(r, q)

(***************************************************************************)
(* Locks and connections together leave somebody able to go on: no request *)
(* asks for a second connection while it has one, so an exhausted pool is  *)
(* held by requests that wait for locks only, and not all of them do       *)
(* (KnexUnitOfWork.transaction, knex.ts:19-22).                            *)
(***************************************************************************)
SomebodyCanStep ==
  (\E r \in Requests : InFlight(r)) => \E r \in Requests : CanStep(r)

\* Balances are explained by the committed rows (see Ledger), also while
\* other requests are half way through their statements.
HistoryExplainsBalance == L!HistoryExplainsBalance

\* No interleaving, fault or crash creates or destroys money (see Ledger).
MoneyIsConserved == L!MoneyIsConserved

(***************************************************************************)
(* Once the money has moved, the handler knows whom to write to: user! and *)
(* sender! are asserted to be non-null (DepositUseCase.ts:54-55,           *)
(* WithdrawUseCase.ts:57-58, TransferUseCase.ts:71-72).                    *)
(***************************************************************************)
UserKnown == \A r \in Requests : reply[r] # "userMissing"

-----------------------------------------------------------------------------
(* The inductive invariant of MoneyMovementProofs *)

Writing == {"debit", "credit", "commit"}

\* What the checks of the earlier statements have established.
JobIsAcceptable ==
  \A r \in Requests :
    /\ pc[r] \notin {"idle", "done"} => job[r].amount > 0
    /\ pc[r] \in {"lock1", "lock2"} => job[r].type = "transfer"
    /\ pc[r] = "debit" => job[r].type # "deposit"
    /\ pc[r] = "credit" => job[r].type # "withdraw"
    /\ job[r].type = "transfer"
         /\ pc[r] \in {"lock1", "lock2", "insert", "lookup", "select"} \cup Writing
         => job[r].recipientId \in L!Users \ {job[r].userId}
    /\ job[r].type = "deposit" /\ pc[r] \in {"insert"} \cup Writing
         => job[r].userId \in Accounts

\* The uncommitted change of account a at each statement: a transfer debits
\* the sender first.
Pending(r, a) ==
  (IF pc[r] = "commit" /\ a = L!Payee(job[r]) THEN job[r].amount ELSE 0)
  - (IF pc[r] \in {"credit", "commit"} /\ a = L!Payer(job[r]) THEN job[r].amount ELSE 0)

WorkMatchesProgress ==
  \A r \in Requests :
    /\ \A a \in Accounts : delta[r][a] = Pending(r, a)
    /\ drafts[r] = IF pc[r] \in Writing THEN {[id |-> r, job |-> job[r]]} ELSE {}

\* What a request has read or checked under its locks is still so.
LockedDataIsCurrent ==
  \A r \in Requests :
    /\ pc[r] = "lock2" /\ SenderFirst(job[r]) => seen[r] = balance[job[r].userId]
    /\ pc[r] \in {"debit", "credit"} /\ job[r].type # "deposit"
         => job[r].amount <= balance[job[r].userId]
    /\ pc[r] = "commit" => \A a \in Accounts : Storable(balance[a] + delta[r][a])

\* Rows belong to requests that have committed.
RowsMatchProgress ==
  /\ \A row \in transactions :
       /\ row.job = job[row.id]
       /\ pc[row.id] \in {"lookup", "select", "done"}
  /\ \A r \in Requests :
       /\ pc[r] \in {"lookup", "select"} => Committed(r)
       /\ pc[r] # "done" => reply[r] = "none"

Inv ==
  /\ TypeOK
  /\ JobIsAcceptable
  /\ LocksMatchProgress
  /\ WorkMatchesProgress
  /\ BalanceCheckIsCurrent
  /\ LockedDataIsCurrent
  /\ RowsMatchProgress
  /\ ReplyMatchesHistory

-----------------------------------------------------------------------------
(* Temporal properties *)

\* The statements of the three use cases, with their locks, faults and
\* crashes, implement the ledger: each COMMIT is one Post, all else stutters.
ImplementsLedger == L!Spec

\* A request that got past validation is answered (or its process dies): it
\* is never stuck behind a lock or an exhausted pool.
EveryRequestAnswered ==
  \A r \in Requests : pc[r] = "begin" ~> pc[r] = "done"
=============================================================================
