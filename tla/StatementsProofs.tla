-------------------------- MODULE StatementsProofs --------------------------
(***************************************************************************)
(* The list explains the balance and never shows an overdraft, for any     *)
(* number of users, requests and rows, and at any date.                    *)
(*                                                                         *)
(* What a request has under its lock is known from MoneyMovementProofs;    *)
(* here the clock joins it.  Sums of items become sums of rows, and those  *)
(* sums of one function, Effects(u), over sets of rows.                    *)
(***************************************************************************)
EXTENDS Statements, MoneyMovementProofs

Effects(u) == [row \in L!Row |-> L!Effect(row.job, u)]

LEMMA EffectsAreInts ==
  ASSUME NEW u \in Accounts, NEW row \in L!Row
  PROVE  Effects(u)[row] = L!Effect(row.job, u) /\ Effects(u)[row] \in Int
  BY EffectIsInt DEF Effects, L!Row

LEMMA RowSum ==
  ASSUME NEW u \in Accounts, NEW rows \in SUBSET L!Row, IsFiniteSet(rows)
  PROVE  /\ SumFunction([row \in rows |-> L!Effect(row.job, u)])
              = SumFunctionOnSet(Effects(u), rows)
         /\ L!SumFunction([row \in rows |-> L!Effect(row.job, u)])
              = SumFunctionOnSet(Effects(u), rows)
         /\ SumFunctionOnSet(Effects(u), rows) \in Int
  <1>. DEFINE f == [row \in rows |-> L!Effect(row.job, u)]
  <1>1. \A row \in rows : f[row] \in Int /\ f[row] = Effects(u)[row] /\ Effects(u)[row] \in Int
    BY EffectsAreInts
  <1>2. DOMAIN f = rows
    OBVIOUS
  <1>. HIDE DEF f
  <1>3. SumFunctionOnSet(f, rows) = SumFunctionOnSet(Effects(u), rows)
    BY <1>1, SumSame
  <1>4. SumFunctionOnSet(Effects(u), rows) \in Int
    BY <1>1, SumType
  <1>5. L!SumFunction(f) = SumFunctionOnSet(f, rows) /\ SumFunction(f) = SumFunctionOnSet(f, rows)
    BY <1>2, LedgerSum DEF SumFunction
  <1>6. QED
    BY <1>3, <1>4, <1>5 DEF f

LEMMA OnlyTransfersHaveRecipients ==
  ASSUME NEW j \in Jobs, j.type # "transfer"
  PROVE  j.recipientId = 0
  BY MoneyAssumption DEF MoneyAssumption, L!ParametersOK, L!Job, L!Nobody

LEMMA PayerIsNotPayee ==
  ASSUME NEW j \in Jobs, L!Postable(j)
  PROVE  L!Payer(j) # L!Payee(j)
  BY Parameters DEF L!Postable, L!Payer, L!Payee, L!Nobody

\* What is needed of the rows, from the ledger.
LEMMA RowsOfLedger ==
  ASSUME L!Inv
  PROVE  /\ IsFiniteSet(transactions)
         /\ transactions \in SUBSET L!Row
         /\ \A row \in transactions :
              /\ row.id \in Requests /\ row.job \in Jobs
              /\ L!Payer(row.job) # L!Payee(row.job)
         /\ \A row, other \in transactions : row.id = other.id => row = other
  BY LedgerFinite, PayerIsNotPayee DEF L!Inv, L!TypeOK, L!RowsAreSound, L!Row

LEMMA BalanceIsSum ==
  ASSUME L!Inv, NEW u \in Accounts
  PROVE  balance[u] = Opening[u] + SumFunctionOnSet(Effects(u), transactions)
  BY RowsOfLedger, RowSum DEF L!Inv, L!HistoryExplainsBalance

-----------------------------------------------------------------------------
(* The list *)

\* An item changes the balance of a user it is listed for as its row did.
LEMMA ChangeIsEffect ==
  ASSUME L!Inv, NEW u \in Accounts, NEW row \in transactions
  PROVE  /\ Concerns(u, row) => Change(u, Item(row)) = L!Effect(row.job, u)
         /\ ~Concerns(u, row) => L!Effect(row.job, u) = 0
  <1>. DEFINE j == row.job
  <1>1. /\ j \in Jobs
        /\ j.type \in {"deposit", "withdraw", "transfer"}
        /\ L!Payer(j) # L!Payee(j) /\ j.amount \in Int
        /\ u # 0
    BY RowsOfLedger, Parameters
  <1>2. j.type # "transfer" => j.recipientId = 0
    BY <1>1, OnlyTransfersHaveRecipients
  <1>3. Concerns(u, row) <=> j.userId = u \/ j.recipientId = u
    BY DEF Concerns
  <1>4. Change(u, Item(row)) = IF j.type = "deposit" \/ j.userId # u THEN j.amount ELSE -j.amount
    BY DEF Change, Item
  <1>. HIDE DEF j
  <1>5. /\ j.userId = u \/ j.recipientId = u =>
             L!Effect(j, u) = IF j.type = "deposit" \/ j.userId # u THEN j.amount ELSE -j.amount
        /\ ~(j.userId = u \/ j.recipientId = u) => L!Effect(j, u) = 0
    <2>1. CASE j.type = "deposit"
      BY <1>1, <1>2, <2>1 DEF L!Effect, L!Payer, L!Payee, L!Nobody
    <2>2. CASE j.type = "withdraw"
      BY <1>1, <1>2, <2>2 DEF L!Effect, L!Payer, L!Payee, L!Nobody
    <2>3. CASE j.type = "transfer"
      BY <1>1, <2>3 DEF L!Effect, L!Payer, L!Payee, L!Nobody
    <2>4. QED
      BY <1>1, <2>1, <2>2, <2>3
  <1>6. QED
    BY <1>3, <1>4, <1>5 DEF j

Between(types, from, to) ==
  {row \in transactions : /\ row.job.type \in types
                          /\ from <= createdAt[row.id] /\ createdAt[row.id] <= to}

(***************************************************************************)
(* What a user reads from a list, whatever its filters, is what the rows   *)
(* within them have done to the balance: items of different rows differ,   *)
(* and the rows that are not the user's have done nothing to it.           *)
(***************************************************************************)
LEMMA ListTotal ==
  ASSUME L!Inv, NEW u \in Accounts, NEW types, NEW from, NEW to
  PROVE  Total(u, ListByUser(u, types, from, to))
           = SumFunctionOnSet(Effects(u), Between(types, from, to))
  <1>. DEFINE all  == Between(types, from, to)
              rows == {row \in all : Concerns(u, row)}
              name == [row \in rows |-> Item(row)]
              items == ListByUser(u, types, from, to)
              g    == [item \in items |-> Change(u, item)]
  <1>1. all \in SUBSET transactions /\ all \in SUBSET L!Row /\ IsFiniteSet(all)
    BY RowsOfLedger, FS_Subset DEF Between
  <1>2. rows \in SUBSET all /\ IsFiniteSet(rows)
    BY <1>1, FS_Subset
  <1>3. items = {name[row] : row \in rows}
    <2>1. \A row : Item(row).type = row.job.type /\ Item(row).createdAt = createdAt[row.id]
      BY DEF Item
    <2>2. ASSUME NEW item \in items PROVE item \in {name[row] : row \in rows}
      BY <2>1 DEF ListByUser, Between
    <2>3. ASSUME NEW row \in rows PROVE name[row] \in items
      BY <2>1, <2>3 DEF ListByUser, Between
    <2>4. QED
      BY <2>2, <2>3
  <1>4. \A x, y \in rows : name[x] = name[y] => x = y
    <2>1. \A row \in rows : name[row].id = row.id
      BY DEF Item
    <2>2. QED
      BY <1>1, <2>1, RowsOfLedger
  <1>5. \A row \in rows : Effects(u)[row] \in Int /\ g[name[row]] = Effects(u)[row]
    <2>. SUFFICES ASSUME NEW row \in rows
                  PROVE  Effects(u)[row] \in Int /\ g[name[row]] = Effects(u)[row]
      OBVIOUS
    <2>1. name[row] \in items /\ name[row] = Item(row)
      BY <1>3
    <2>2. g[name[row]] = Change(u, Item(row))
      BY <2>1
    <2>3. QED
      BY <1>1, <2>2, ChangeIsEffect, EffectsAreInts
  <1>6. \A row \in all : Effects(u)[row] \in Int
    BY <1>1, EffectsAreInts
  <1>7. \A row \in all \ rows : Effects(u)[row] = 0
    BY <1>1, ChangeIsEffect, EffectsAreInts
  <1>8. DOMAIN g = items
    OBVIOUS
  <1>. HIDE DEF all, rows, name, items, g
  <1>9. SumFunctionOnSet(g, items) = SumFunctionOnSet(Effects(u), rows)
    BY <1>2, <1>3, <1>4, <1>5, SumRenamed
  <1>10. SumFunctionOnSet(Effects(u), all) = SumFunctionOnSet(Effects(u), rows)
    BY <1>1, <1>2, <1>6, <1>7, SumWithoutZeros
  <1>11. SumFunction(g) = SumFunctionOnSet(Effects(u), all)
    BY <1>8, <1>9, <1>10 DEF SumFunction
  <1>12. QED
    BY <1>11 DEF g, items, all, Total

LEMMA SumOfTypes ==
  ASSUME NEW f, \A type \in Types : f[type] \in Int, DOMAIN f = Types
  PROVE  SumFunction(f) = f["deposit"] + f["withdraw"] + f["transfer"]
  BY SumOfThree DEF SumFunction, Types

\* The rows of one type, cut in two at a date.
LEMMA CutInTwo ==
  ASSUME L!Inv, LatestIsLast, NEW u \in Accounts, NEW type \in Types, NEW cut \in 0..Latest
  PROVE  Total(u, ListByUser(u, {type}, 0, cut))
           + Total(u, ListByUser(u, {type}, cut + 1, Latest))
         = SumFunctionOnSet(Effects(u), {row \in transactions : row.job.type = type})
  <1>. DEFINE first  == Between({type}, 0, cut)
              second == Between({type}, cut + 1, Latest)
  <1>1. /\ IsFiniteSet(first) /\ IsFiniteSet(second)
        /\ first \cup second \in SUBSET L!Row
    BY RowsOfLedger, FS_Subset DEF Between
  <1>2. \A row \in transactions : createdAt[row.id] \in 0..Latest
    BY RowsOfLedger DEF LatestIsLast
  <1>3. first \cup second = {row \in transactions : row.job.type = type}
    BY <1>2 DEF Between, LatestIsLast
  <1>4. first \cap second = {}
    BY <1>2 DEF Between, LatestIsLast
  <1>5. \A row \in first \cup second : Effects(u)[row] \in Int
    BY <1>1, EffectsAreInts
  <1>. HIDE DEF first, second
  <1>6. SumFunctionOnSet(Effects(u), first \cup second)
          = SumFunctionOnSet(Effects(u), first) + SumFunctionOnSet(Effects(u), second)
    BY <1>1, <1>4, <1>5, SumUnion
  <1>7. QED
    BY <1>3, <1>6, ListTotal DEF first, second

LEMMA ListAddsUp ==
  L!Inv /\ LatestIsLast => ListExplainsBalance
  <1>. SUFFICES ASSUME L!Inv, LatestIsLast, NEW u \in Accounts, NEW cut \in 0..Latest
                PROVE  GetBalance(u) = Opening[u]
                  + SumFunction([type \in Types |-> Total(u, ListByUser(u, {type}, 0, cut))
                                   + Total(u, ListByUser(u, {type}, cut + 1, Latest))])
    BY DEF ListExplainsBalance
  <1>. DEFINE f == [type \in Types |-> Total(u, ListByUser(u, {type}, 0, cut))
                                       + Total(u, ListByUser(u, {type}, cut + 1, Latest))]
              Of(type) == {row \in transactions : row.job.type = type}
  <1>1. \A type \in Types : IsFiniteSet(Of(type)) /\ Of(type) \in SUBSET L!Row
    BY RowsOfLedger, FS_Subset
  <1>2. \A type \in Types : f[type] = SumFunctionOnSet(Effects(u), Of(type))
    BY CutInTwo
  <1>3. \A type \in Types : f[type] \in Int
    BY <1>1, <1>2, RowSum
  <1>4. DOMAIN f = Types
    OBVIOUS
  <1>5. transactions = (Of("deposit") \cup Of("withdraw")) \cup Of("transfer")
    BY RowsOfLedger, Parameters
  <1>6. /\ Of("deposit") \cap Of("withdraw") = {}
        /\ (Of("deposit") \cup Of("withdraw")) \cap Of("transfer") = {}
    OBVIOUS
  <1>. HIDE DEF f, Of
  <1>7. \A row \in (Of("deposit") \cup Of("withdraw")) \cup Of("transfer") : Effects(u)[row] \in Int
    BY <1>1, EffectsAreInts DEF Types
  <1>8. SumFunctionOnSet(Effects(u), transactions) = f["deposit"] + f["withdraw"] + f["transfer"]
    <2>1. SumFunctionOnSet(Effects(u), Of("deposit") \cup Of("withdraw"))
            = f["deposit"] + f["withdraw"]
      BY <1>1, <1>2, <1>6, <1>7, SumUnion DEF Types
    <2>2. IsFiniteSet(Of("deposit") \cup Of("withdraw")) /\ IsFiniteSet(Of("transfer"))
      BY <1>1, FS_Union DEF Types
    <2>3. SumFunctionOnSet(Effects(u), (Of("deposit") \cup Of("withdraw")) \cup Of("transfer"))
            = SumFunctionOnSet(Effects(u), Of("deposit") \cup Of("withdraw"))
              + SumFunctionOnSet(Effects(u), Of("transfer"))
      BY <1>6, <1>7, <2>2, SumUnion
    <2>4. QED
      BY <1>2, <1>5, <2>1, <2>3 DEF Types
  <1>9. SumFunction(f) = SumFunctionOnSet(Effects(u), transactions)
    BY <1>3, <1>4, <1>8, SumOfTypes
  <1>10. balance[u] = Opening[u] + SumFunction(f)
    BY <1>9, BalanceIsSum
  <1>11. QED
    BY <1>10 DEF f, GetBalance

LEMMA NothingOverdrawn ==
  L!Inv /\ LatestIsLast /\ PastIsCovered => NeverOverdrawn
  <1>. SUFFICES ASSUME L!Inv, LatestIsLast, PastIsCovered,
                       NEW u \in Accounts, NEW date \in 0..Latest
                PROVE  Opening[u] + Total(u, ListByUser(u, Types, 0, date)) >= 0
    BY DEF NeverOverdrawn
  <1>1. \A row \in transactions : row.job.type \in Types /\ createdAt[row.id] \in Nat
    BY RowsOfLedger, Parameters DEF Types, LatestIsLast
  <1>2. Between(Types, 0, date) = Dated(date)
    BY <1>1 DEF Between, Dated
  <1>3. Dated(date) \in SUBSET L!Row /\ IsFiniteSet(Dated(date))
    BY RowsOfLedger, FS_Subset DEF Dated
  <1>4. Opening[u] + SumFunction([row \in Dated(date) |-> L!Effect(row.job, u)]) >= 0
    BY DEF PastIsCovered
  <1>5. Opening[u] + SumFunctionOnSet(Effects(u), Dated(date)) >= 0
    BY <1>3, <1>4, RowSum
  <1>6. QED
    BY <1>2, <1>5, ListTotal

-----------------------------------------------------------------------------
(* What a step does to the clock and to a request *)

LEMMA InitialClock ==
  ASSUME createdAt = [r \in Requests |-> 0]
  PROVE  LatestIsLast /\ Latest = 0
  <1>1. {createdAt[r] : r \in Requests} \cup {0} = {0}
    OBVIOUS
  <1>2. Latest = 0
    BY <1>1 DEF Latest, Max
  <1>3. QED
    BY <1>2 DEF LatestIsLast

\* The stamp of a new row is the latest, and no other row's is touched.
LEMMA ClockAdvances ==
  ASSUME LatestIsLast, NEW r \in Requests, NEW now \in {Latest, Latest + 1},
         createdAt' = [createdAt EXCEPT ![r] = now]
  PROVE  LatestIsLast' /\ Latest' = now
  <1>. DEFINE stamps == {createdAt'[q] : q \in Requests} \cup {0}
  <1>1. now \in Nat /\ createdAt'[r] = now /\ \A q \in Requests : createdAt'[q] <= now
    BY DEF LatestIsLast
  <1>2. createdAt' \in [Requests -> Nat]
    BY <1>1 DEF LatestIsLast
  <1>3. now \in stamps /\ \A n \in stamps : n \in Nat /\ n <= now
    BY <1>1, <1>2
  <1>4. Latest' = CHOOSE n \in stamps : \A m \in stamps : n >= m
    BY DEF Latest, Max
  <1>. HIDE DEF stamps
  <1>5. Latest' = now
    BY <1>3, <1>4
  <1>6. QED
    BY <1>1, <1>2, <1>5 DEF LatestIsLast

\* A request moves alone, or everything in flight is dropped.
LEMMA StepsOfOthers ==
  ASSUME Inv, [Next]_vars
  PROVE  /\ job' = job
         /\ \A r \in Requests : pc'[r] \in Writing /\ ~Created(r) => pc[r] \in Writing
         /\ \A r \in Requests : Created(r) =>
              /\ UNCHANGED <<balance, transactions>>
              /\ \A q \in Requests \ {r} : pc'[q] = pc[q]
  <1>1. ASSUME NEW r \in Requests, Receive(r) \/ Step(r) \/ Fault(r)
        PROVE  /\ job' = job
               /\ \A q \in Requests \ {r} : pc'[q] = pc[q]
               /\ pc'[r] \in Writing /\ ~Created(r) => pc[r] \in Writing
               /\ pc[r] = "insert" => UNCHANGED <<balance, transactions>>
    <2>1. pc \in [Requests -> Steps]
      BY DEF Inv, TypeOK
    <2>2. QED
      BY <1>1, <2>1 DEF Receive, Fault, Step, Begin, DepositRead, TransferRead, WithdrawLock,
         TransferLock1, TransferLock2, LockRow, Insert, Debit, Credit, UpdateBalance, Commit,
         CacheMiss, Notify, UserMissing, Proceed, Abort, Goto, LookupOf, database, Writing,
         Created
  <1>2. CASE Crash
    BY <1>2 DEF Crash, Inv, TypeOK, Writing, Created, InFlight
  <1>3. CASE (\E u \in L!Users : Deactivate(u) \/ Reactivate(u)) \/ UNCHANGED vars
    BY <1>3 DEF Deactivate, Reactivate, SetActive, vars, Created
  <1>4. QED
    BY <1>1, <1>2, <1>3 DEF Next, Created

\* Rows keep the stamp they were made with.
LEMMA RowsKeepTheirStamp ==
  ASSUME Inv, L!Inv, LatestIsLast, NEW r \in Requests, pc[r] = "insert",
         NEW now, createdAt' = [createdAt EXCEPT ![r] = now]
  PROVE  \A row \in transactions : createdAt'[row.id] = createdAt[row.id]
  BY RowsOfLedger DEF Inv, RowsMatchProgress, LatestIsLast

-----------------------------------------------------------------------------
(* The clock and the debits *)

LEMMA ClockKeeps ==
  ASSUME LatestIsLast, Stamp
  PROVE  LatestIsLast'
  <1>1. CASE UNCHANGED createdAt
    BY <1>1 DEF LatestIsLast, Latest
  <1>2. CASE \E r \in Requests, now \in {Latest, Latest + 1} :
               createdAt' = [createdAt EXCEPT ![r] = now]
    BY <1>2, ClockAdvances
  <1>3. QED
    BY <1>1, <1>2 DEF Stamp

\* A commit that moves the money of an account finds no debit of it half way.
LEMMA DebitExcludesCommit ==
  ASSUME Inv, L!Inv', NEW q \in Requests, Commit(q), NEW r \in Requests, r # q,
         pc[r] \in Writing, job[r].type # "deposit"
  PROVE  L!Effect(job[q], job[r].userId) = 0
  <1>. DEFINE u == job[r].userId
  <1>1. u \in L!Users /\ u \in Parties(job[r])
    BY JobShape DEF Inv, Parties
  <1>2. pc[r] = "credit" => job[r].type = "transfer"
    BY JobShape DEF Inv, JobIsAcceptable
  <1>3. Holding(r, u)
    BY <1>1, <1>2 DEF Holding, Writing
  <1>4. ~Holding(q, u)
    BY <1>1, <1>3 DEF Inv, LocksMatchProgress
  <1>5. pc[q] = "commit" /\ u \notin Parties(job[q])
    BY <1>4 DEF Commit, Holding
  <1>6. u # L!Payer(job[q]) /\ u # L!Payee(job[q])
    BY <1>1, <1>5, JobShape, Parameters DEF Inv, Parties, L!Payer, L!Payee, L!Nobody
  <1>7. QED
    BY <1>6 DEF L!Effect

LEMMA DebitsKeep ==
  ASSUME Inv, L!Inv, L!Inv', StatementInv, [Next]_vars, Stamp
  PROVE  DebitsAreDatedLast'
  <1>. SUFFICES ASSUME NEW r \in Requests, pc'[r] \in Writing, job'[r].type # "deposit",
                       NEW row \in transactions', L!Effect(row.job, job'[r].userId) # 0
                PROVE  createdAt'[row.id] <= createdAt'[r]
    BY DEF DebitsAreDatedLast
  <1>0. job' = job
    BY StepsOfOthers
  <1>1. CASE Created(r)
    <2>1. transactions' = transactions
      BY <1>1, StepsOfOthers
    <2>2. CASE createdAt' = [createdAt EXCEPT ![r] = Latest]
      BY <2>1, <2>2, ClockAdvances, RowsOfLedger DEF StatementInv, LatestIsLast
    <2>3. CASE createdAt' = [createdAt EXCEPT ![r] = Latest + 1]
      BY <2>1, <2>3, ClockAdvances, RowsOfLedger DEF StatementInv, LatestIsLast
    <2>4. QED
      BY <1>1, <2>2, <2>3, StepsOfOthers DEF Stamp, Created, Writing
  <1>2. CASE ~Created(r)
    <2>1. pc[r] \in Writing
      BY <1>2, StepsOfOthers
    <2>2. CASE UNCHANGED <<transactions, createdAt>>
      BY <1>0, <2>1, <2>2 DEF StatementInv, DebitsAreDatedLast
    <2>3. ASSUME NEW q \in Requests, Created(q), NEW now,
                 createdAt' = [createdAt EXCEPT ![q] = now]
          PROVE  createdAt'[row.id] <= createdAt'[r]
      <3>1. q # r /\ transactions' = transactions
        BY <1>2, <2>3, StepsOfOthers
      <3>2. createdAt'[row.id] = createdAt[row.id]
        BY <2>3, <3>1, RowsKeepTheirStamp DEF StatementInv, Created
      <3>3. createdAt'[r] = createdAt[r]
        BY <2>3, <3>1 DEF StatementInv, LatestIsLast
      <3>4. QED
        BY <1>0, <2>1, <3>1, <3>2, <3>3 DEF StatementInv, DebitsAreDatedLast
    <2>4. ASSUME NEW q \in Requests, Commit(q), UNCHANGED createdAt
          PROVE  createdAt'[row.id] <= createdAt'[r]
      <3>1. q # r /\ transactions' = transactions \cup {[id |-> q, job |-> job[q]]}
        <4>1. /\ pc[q] = "commit" /\ pc'[q] \in {"lookup", "select"}
              /\ transactions' = transactions \cup drafts[q]
          BY <2>4 DEF Commit, Goto, LookupOf, Inv, TypeOK
        <4>2. QED
          BY <4>1 DEF Inv, WorkMatchesProgress, Writing
      <3>2. row \in transactions
        BY <1>0, <2>1, <2>4, <3>1, DebitExcludesCommit
      <3>3. QED
        BY <1>0, <2>1, <2>4, <3>2 DEF StatementInv, DebitsAreDatedLast
    <2>5. QED
      BY <2>2, <2>3, <2>4, StepsOfOthers, OnlyCommitPosts DEF Stamp, Created
  <1>3. QED
    BY <1>1, <1>2

-----------------------------------------------------------------------------
(* The past *)

\* How much of an account's balance had been earned by a date.
Past(u, date) == Opening[u] + SumFunctionOnSet(Effects(u), Dated(date))

LEMMA PastInRows ==
  ASSUME L!Inv
  PROVE  PastIsCovered <=> \A u \in Accounts, date \in 0..Latest : Past(u, date) >= 0
  <1>1. ASSUME NEW u \in Accounts, NEW date \in 0..Latest
        PROVE  SumFunction([row \in Dated(date) |-> L!Effect(row.job, u)])
                 = SumFunctionOnSet(Effects(u), Dated(date))
    BY RowsOfLedger, RowSum, FS_Subset DEF Dated
  <1>2. QED
    BY <1>1 DEF PastIsCovered, Past

\* The whole past is the present balance.
LEMMA PastIsBalance ==
  ASSUME L!Inv, NEW u \in Accounts, NEW date, Dated(date) = transactions
  PROVE  Past(u, date) >= 0
  <1>1. balance[u] = Past(u, date)
    BY BalanceIsSum DEF Past
  <1>2. balance[u] \in Nat
    BY Parameters DEF L!Inv, L!TypeOK
  <1>3. QED
    BY <1>1, <1>2

\* A row that is made now leaves the past as it is and adds the present to it.
LEMMA CreationKeepsPast ==
  ASSUME Inv, L!Inv, StatementInv, [Next]_vars,
         NEW r \in Requests, Created(r), NEW now \in {Latest, Latest + 1},
         createdAt' = [createdAt EXCEPT ![r] = now],
         NEW u \in Accounts, NEW date \in 0..now
  PROVE  Opening[u] + SumFunctionOnSet(Effects(u), Dated(date)') >= 0
  <1>1. transactions' = transactions
    BY StepsOfOthers
  <1>2. \A row \in transactions : createdAt'[row.id] = createdAt[row.id]
    BY RowsKeepTheirStamp DEF StatementInv, Created
  <1>3. Dated(date)' = Dated(date)
    BY <1>1, <1>2 DEF Dated
  <1>4. Past(u, date) >= 0
    <2>1. CASE date <= Latest
      BY <2>1, PastInRows DEF StatementInv, LatestIsLast
    <2>2. CASE date > Latest
      <3>1. \A row \in transactions : createdAt[row.id] <= date
        BY <2>2, RowsOfLedger DEF StatementInv, LatestIsLast
      <3>2. QED
        BY <3>1, PastIsBalance DEF Dated
    <2>3. QED
      BY <2>1, <2>2 DEF StatementInv, LatestIsLast
  <1>5. QED
    BY <1>3, <1>4 DEF Past

(***************************************************************************)
(* A commit adds a row to the past since its stamp.  If the row debits the *)
(* account, no row of the account is dated later, so that past is all the  *)
(* account has ever seen, and its balance is not negative.                 *)
(***************************************************************************)
LEMMA CommitKeepsPast ==
  ASSUME Inv, L!Inv, L!Inv', StatementInv, NEW q \in Requests, Commit(q), UNCHANGED createdAt,
         NEW u \in Accounts, NEW date \in 0..Latest
  PROVE  Opening[u] + SumFunctionOnSet(Effects(u), Dated(date)') >= 0
  <1>. DEFINE new   == [id |-> q, job |-> job[q]]
              old   == Dated(date)
              after == Dated(date)'
              all   == transactions'
              e     == Effects(u)
  <1>1. pc[q] = "commit" /\ all = transactions \cup {new} /\ new \in L!Row
    BY DEF Commit, Inv, TypeOK, WorkMatchesProgress, Writing, L!Row
  <1>2. /\ IsFiniteSet(old) /\ old \in SUBSET L!Row /\ Opening[u] + SumFunctionOnSet(e, old) >= 0
        /\ SumFunctionOnSet(e, old) \in Int /\ Opening[u] \in Int
    <2>1. IsFiniteSet(old) /\ old \in SUBSET L!Row
      BY RowsOfLedger, FS_Subset DEF Dated
    <2>2. Opening[u] + SumFunctionOnSet(e, old) >= 0
      BY PastInRows DEF StatementInv, Past
    <2>3. SumFunctionOnSet(e, old) \in Int
      BY <2>1, RowSum
    <2>4. Opening[u] \in Int
      BY Parameters
    <2>5. QED
      BY <2>1, <2>2, <2>3, <2>4
  <1>3. \A row \in L!Row : e[row] = L!Effect(row.job, u) /\ e[row] \in Int
    BY EffectsAreInts
  <1>4. /\ createdAt[q] <= date => after = old \cup {new}
        /\ ~(createdAt[q] <= date) => after = old
    BY <1>1 DEF Dated
  <1>5. new \notin old
    BY <1>1 DEF Dated, Inv, RowsMatchProgress
  <1>6. CASE ~(createdAt[q] <= date)
    BY <1>2, <1>4, <1>6
  <1>7. CASE createdAt[q] <= date /\ e[new] >= 0
    <2>. HIDE DEF new, old, after, e
    <2>1. SumFunctionOnSet(e, old \cup {new}) = SumFunctionOnSet(e, old) + e[new]
      BY <1>1, <1>2, <1>3, <1>5, SumAdd
    <2>2. e[new] \in Int
      BY <1>1, <1>3
    <2>3. Opening[u] + SumFunctionOnSet(e, after) >= 0
      BY <1>2, <1>4, <1>7, <2>1, <2>2
    <2>4. QED
      BY <2>3 DEF after, e
  <1>8. CASE createdAt[q] <= date /\ e[new] < 0
    <2>1. L!Effect(job[q], u) < 0
      BY <1>1, <1>3, <1>8
    <2>2. job[q].amount > 0 /\ job[q].amount \in Int
      BY <1>1, JobShape DEF Inv, JobIsAcceptable
    <2>3. u = L!Payer(job[q])
      BY <2>1, <2>2 DEF L!Effect
    <2>4. u # 0
      BY Parameters
    <2>5. u = job[q].userId /\ job[q].type # "deposit"
      BY <2>3, <2>4 DEF L!Payer, L!Nobody
    <2>6. \A row \in transactions : e[row] # 0 => createdAt[row.id] <= createdAt[q]
      BY <1>1, <1>3, <2>5, RowsOfLedger DEF StatementInv, DebitsAreDatedLast, Writing
    <2>7. \A row \in transactions : createdAt[row.id] \in Nat
      BY RowsOfLedger DEF StatementInv, LatestIsLast
    <2>8. \A row \in all \ after : e[row] = 0
      BY <1>1, <1>8, <2>6, <2>7 DEF Dated, StatementInv, LatestIsLast
    <2>9. IsFiniteSet(all) /\ all \in SUBSET L!Row /\ after \in SUBSET all
      BY <1>1, LedgerFinite DEF L!Inv, L!TypeOK, L!RowsAreSound, Dated
    <2>10. balance'[u] = Opening[u] + L!SumFunction([row \in all |-> L!Effect(row.job, u)])
      BY DEF L!Inv, L!HistoryExplainsBalance
    <2>11. balance'[u] \in Nat
      BY Parameters DEF L!Inv, L!TypeOK
    <2>12. \A row \in all : e[row] \in Int
      BY <1>3, <2>9
    <2>. HIDE DEF new, old, after, e, all
    <2>13. SumFunctionOnSet(e, all) = SumFunctionOnSet(e, after)
      BY <2>8, <2>9, <2>12, SumWithoutZeros
    <2>14. L!SumFunction([row \in all |-> L!Effect(row.job, u)]) = SumFunctionOnSet(e, all)
      BY <2>9, RowSum DEF e
    <2>15. Opening[u] + SumFunctionOnSet(e, after) >= 0
      BY <2>10, <2>11, <2>13, <2>14
    <2>16. QED
      BY <2>15 DEF after, e
  <1>9. e[new] \in Int
    BY <1>1, <1>3
  <1>10. QED
    BY <1>6, <1>7, <1>8, <1>9

LEMMA PastKeeps ==
  ASSUME Inv, L!Inv, L!Inv', StatementInv, [Next]_vars, Stamp
  PROVE  PastIsCovered'
  <1>0. ASSUME NEW u \in Accounts, NEW date
        PROVE  SumFunction([row \in Dated(date)' |-> L!Effect(row.job, u)])
                 = SumFunctionOnSet(Effects(u), Dated(date)')
    <2>1. Dated(date)' \in SUBSET L!Row /\ IsFiniteSet(Dated(date)')
      BY LedgerFinite, FS_Subset DEF L!Inv, L!TypeOK, L!RowsAreSound, Dated
    <2>2. QED
      BY <2>1, RowSum
  <1>. SUFFICES ASSUME NEW u \in Accounts, NEW date \in 0..Latest'
                PROVE  Opening[u] + SumFunctionOnSet(Effects(u), Dated(date)') >= 0
    BY <1>0 DEF PastIsCovered
  <1>1. ASSUME NEW r \in Requests, NEW now \in {Latest, Latest + 1}, Created(r),
               createdAt' = [createdAt EXCEPT ![r] = now]
        PROVE  Opening[u] + SumFunctionOnSet(Effects(u), Dated(date)') >= 0
    <2>1. date \in 0..now
      BY <1>1, ClockAdvances DEF StatementInv
    <2>2. QED
      BY <1>1, <2>1, CreationKeepsPast
  <1>2. ASSUME UNCHANGED createdAt
        PROVE  Opening[u] + SumFunctionOnSet(Effects(u), Dated(date)') >= 0
    <2>1. date \in 0..Latest
      BY <1>2 DEF Latest
    <2>2. CASE \E q \in Requests : Commit(q)
      BY <1>2, <2>1, <2>2, CommitKeepsPast
    <2>3. CASE UNCHANGED <<balance, transactions>>
      <3>1. Dated(date)' = Dated(date)
        BY <1>2, <2>3 DEF Dated
      <3>2. QED
        BY <2>1, <3>1, PastInRows DEF StatementInv, Past
    <2>4. QED
      BY <2>2, <2>3, OnlyCommitPosts
  <1>3. QED
    BY <1>1, <1>2 DEF Stamp

-----------------------------------------------------------------------------
(* The theorems *)

LEMMA StatementInitInv == StatementInit => StatementInv
  <1>. SUFFICES ASSUME StatementInit PROVE StatementInv
    OBVIOUS
  <1>1. LatestIsLast
    BY InitialClock DEF StatementInit
  <1>2. DebitsAreDatedLast
    BY DEF StatementInit, Init, DebitsAreDatedLast
  <1>3. PastIsCovered
    <2>. SUFFICES ASSUME NEW u \in Accounts, NEW date \in 0..Latest
                  PROVE  Opening[u]
                           + SumFunction([row \in Dated(date) |-> L!Effect(row.job, u)]) >= 0
      BY DEF PastIsCovered
    <2>1. Dated(date) = {} /\ {} \in SUBSET L!Row
      BY DEF StatementInit, Init, Dated
    <2>2. SumFunction([row \in {} |-> L!Effect(row.job, u)]) = 0
      BY <2>1, RowSum, SumEmpty, FS_EmptySet
    <2>3. Opening[u] \in Nat
      BY Parameters
    <2>4. QED
      BY <2>1, <2>2, <2>3
  <1>4. QED
    BY <1>1, <1>2, <1>3 DEF StatementInv

LEMMA StatementNextInv ==
  Inv /\ L!Inv /\ L!Inv' /\ StatementInv /\ [Next /\ Stamp]_<<vars, createdAt>> => StatementInv'
  <1>1. ASSUME Inv, L!Inv, L!Inv', StatementInv, Next, Stamp
        PROVE  StatementInv'
    BY <1>1, ClockKeeps, DebitsKeep, PastKeeps DEF StatementInv
  <1>2. ASSUME StatementInv, UNCHANGED <<vars, createdAt>>
        PROVE  StatementInv'
    BY <1>2 DEF StatementInv, LatestIsLast, Latest, DebitsAreDatedLast, PastIsCovered, Dated, vars
  <1>3. QED
    BY <1>1, <1>2

\* The reader only watches: whatever is proved of MoneyMovement holds here.
THEOREM StatementsMoveNothing == StatementSpec => Spec
  <1>1. StatementInit => Init
    BY DEF StatementInit
  <1>2. [Next /\ Stamp]_<<vars, createdAt>> => [Next]_vars
    OBVIOUS
  <1>3. QED
    BY <1>1, <1>2, PTL DEF StatementSpec, Spec

(***************************************************************************)
(* Rows are dated in the order in which their money could be spent: while  *)
(* a debit is being written, under its lock, no row of the account carries *)
(* a later date, and no account was in debt at any date.                   *)
(***************************************************************************)
THEOREM AlwaysStatementInv == StatementSpec => []StatementInv
  BY StatementInitInv, StatementNextInv, StatementsMoveNothing, AlwaysInv, LedgerIsKept, PTL
  DEF StatementSpec

(***************************************************************************)
(* GET /transactions names every movement of a user's money once, whatever *)
(* the filters it is asked for in parts, while requests are half way       *)
(* (TransactionRepository.listByUser, GetBalanceUseCase).                  *)
(***************************************************************************)
THEOREM ListsExplainBalances == StatementSpec => []ListExplainsBalance
  <1>1. StatementInv /\ L!Inv => ListExplainsBalance
    BY ListAddsUp DEF StatementInv
  <1>2. QED
    BY <1>1, AlwaysStatementInv, StatementsMoveNothing, LedgerIsKept, PTL

(***************************************************************************)
(* Nobody reads an overdraft out of the list, up to whatever date, though  *)
(* created_at is stamped before other requests commit (WithdrawUseCase,    *)
(* TransferUseCase).                                                       *)
(***************************************************************************)
THEOREM NobodyReadsAnOverdraft == StatementSpec => []NeverOverdrawn
  <1>1. StatementInv /\ L!Inv => NeverOverdrawn
    BY NothingOverdrawn DEF StatementInv
  <1>2. QED
    BY <1>1, AlwaysStatementInv, StatementsMoveNothing, LedgerIsKept, PTL
=============================================================================
