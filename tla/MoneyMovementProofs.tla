------------------------- MODULE MoneyMovementProofs -------------------------
(***************************************************************************)
(* Theorems about MoneyMovement for any number of requests, users and      *)
(* connections, any jobs and any opening balances.  Inv is inductive; each *)
(* lemma below shows that one kind of step preserves it.                   *)
(***************************************************************************)
EXTENDS MoneyMovement, SumTheorems

LEMMA Parameters ==
  /\ MaxInt \in Nat
  /\ UserCount \in Nat
  /\ L!Users \subseteq Nat \ {0}
  /\ Accounts \subseteq L!Users
  /\ Opening \in [Accounts -> 0..MaxInt]
  /\ Free \notin Requests
  /\ \A j \in Jobs : /\ j.type \in {"deposit", "withdraw", "transfer"}
                     /\ j.userId \in L!Users
                     /\ j.recipientId \in L!Users \cup {0}
                     /\ j.amount \in Int
  BY MoneyAssumption DEF MoneyAssumption, L!ParametersOK, L!Users, L!Job, L!Nobody

LEMMA JobShape ==
  ASSUME TypeOK, NEW r \in Requests
  PROVE  /\ job[r].type \in {"deposit", "withdraw", "transfer"}
         /\ job[r].userId \in L!Users
         /\ job[r].recipientId \in L!Users \cup {0}
         /\ job[r].amount \in Int
  BY Parameters DEF TypeOK

-----------------------------------------------------------------------------
(* Steps that end the database transaction of a request *)

LEMMA AbortKeepsInv ==
  ASSUME Inv,
         NEW r \in Requests,
         NEW answer \in Replies \ {"none", "ok"},
         Abort(r, answer),
         answer = "refused" => ~Committed(r)
  PROVE  Inv'
<1> USE DEF Abort, EndTransaction, Goto, database
<1>1. TypeOK'
  BY Parameters DEF Inv, TypeOK, Steps, NoChange
<1>2. JobIsAcceptable'
  BY DEF Inv, TypeOK, JobIsAcceptable, Writing
<1>3. LocksMatchProgress'
  BY Parameters DEF Inv, TypeOK, LocksMatchProgress, Holding, FirstOf, SenderFirst
<1>4. WorkMatchesProgress'
  <2> SUFFICES ASSUME NEW q \in Requests
               PROVE  /\ \A a \in Accounts : delta'[q][a] = Pending(q, a)'
                      /\ drafts'[q] = IF pc'[q] \in Writing
                                        THEN {[id |-> q, job |-> job'[q]]} ELSE {}
    BY DEF WorkMatchesProgress
  <2>1. CASE q = r
    BY <2>1 DEF Inv, TypeOK, Pending, Writing, NoChange
  <2>2. CASE q # r
    BY <2>2 DEF Inv, TypeOK, WorkMatchesProgress, Pending, Writing
  <2> QED BY <2>1, <2>2
<1>5. BalanceCheckIsCurrent'
  BY DEF Inv, TypeOK, BalanceCheckIsCurrent
<1>6. LockedDataIsCurrent'
  BY DEF Inv, TypeOK, LockedDataIsCurrent, SenderFirst, Storable
<1>7. RowsMatchProgress'
  BY DEF Inv, TypeOK, RowsMatchProgress, Committed, L!Row
<1>8. ReplyMatchesHistory'
  BY DEF Inv, TypeOK, ReplyMatchesHistory, RowsMatchProgress, Committed, Mail, Parties
<1> QED BY <1>1, <1>2, <1>3, <1>4, <1>5, <1>6, <1>7, <1>8 DEF Inv

-----------------------------------------------------------------------------
(* Steps that write nothing *)

LEMMA ProceedKeepsInv ==
  ASSUME Inv,
         NEW r \in Requests,
         NEW step,
         Proceed(r, step),
         pc[r] \in {"idle", "begin", "read"},
         job[r].amount > 0,
         \/ step \in {"begin", "read"}
         \/ step = "insert" /\ job[r].type = "deposit" /\ job[r].userId \in Accounts
         \/ step = "lock1" /\ job[r].type = "transfer"
              /\ job[r].recipientId \in L!Users \ {job[r].userId}
  PROVE  Inv'
<1> USE DEF Proceed, Goto, database
<1>1. TypeOK'
  BY DEF Inv, TypeOK, Steps, InTransaction
<1>2. JobIsAcceptable'
  BY DEF Inv, TypeOK, JobIsAcceptable, Writing
<1>3. LocksMatchProgress'
  BY DEF Inv, TypeOK, LocksMatchProgress, Holding, FirstOf, SenderFirst
<1>4. WorkMatchesProgress'
  BY DEF Inv, TypeOK, WorkMatchesProgress, Pending, Writing
<1>5. BalanceCheckIsCurrent'
  BY DEF Inv, TypeOK, BalanceCheckIsCurrent
<1>6. LockedDataIsCurrent'
  BY DEF Inv, TypeOK, LockedDataIsCurrent, SenderFirst, Storable
<1>7. RowsMatchProgress'
  BY DEF Inv, TypeOK, RowsMatchProgress, Committed, L!Row
<1>8. ReplyMatchesHistory'
  BY DEF Inv, TypeOK, ReplyMatchesHistory, Committed, Mail, Parties
<1> QED BY <1>1, <1>2, <1>3, <1>4, <1>5, <1>6, <1>7, <1>8 DEF Inv

-----------------------------------------------------------------------------
(* Steps that take a row lock *)

\* The lock of r on account a, granted.
Granted(r, a, next) ==
  /\ a \in Accounts
  /\ lockedBy[a] \in {Free, r}
  /\ lockedBy' = [lockedBy EXCEPT ![a] = r]
  /\ seen' = IF a = job[r].userId THEN [seen EXCEPT ![r] = balance[a]] ELSE seen
  /\ Goto(r, next)
  /\ UNCHANGED <<database, job, delta, drafts, reply, outbox>>

LEMMA LockKeepsInv ==
  ASSUME Inv,
         NEW r \in Requests,
         NEW a \in Accounts,
         NEW next,
         Granted(r, a, next),
         \/ /\ pc[r] = "read" /\ next = "insert"
            /\ job[r].type = "withdraw" /\ a = job[r].userId
         \/ pc[r] = "lock1" /\ next = "lock2" /\ a = FirstOf(job[r])
         \/ pc[r] = "lock2" /\ next = "insert" /\ a = SecondOf(job[r])
  PROVE  Inv'
<1> USE DEF Granted, Goto, database
<1>1. TypeOK'
  BY DEF Inv, TypeOK, Steps, InTransaction
<1>2. JobIsAcceptable'
  BY DEF Inv, TypeOK, JobIsAcceptable, Writing
<1>3. LocksMatchProgress'
  BY Parameters DEF Inv, TypeOK, JobIsAcceptable, LocksMatchProgress, Holding,
     FirstOf, SecondOf, SenderFirst, Parties
<1>4. WorkMatchesProgress'
  BY DEF Inv, TypeOK, WorkMatchesProgress, Pending, Writing
<1>5. BalanceCheckIsCurrent'
  BY DEF Inv, TypeOK, BalanceCheckIsCurrent, LockedDataIsCurrent, FirstOf, SecondOf,
     SenderFirst
<1>6. LockedDataIsCurrent'
  BY DEF Inv, TypeOK, LockedDataIsCurrent, FirstOf, SenderFirst, Storable
<1>7. RowsMatchProgress'
  BY DEF Inv, TypeOK, RowsMatchProgress, Committed, L!Row
<1>8. ReplyMatchesHistory'
  BY DEF Inv, TypeOK, ReplyMatchesHistory, Committed, Mail, Parties
<1> QED BY <1>1, <1>2, <1>3, <1>4, <1>5, <1>6, <1>7, <1>8 DEF Inv

-----------------------------------------------------------------------------
(* Steps that write uncommitted versions *)

\* The row of r is written, the balance check being passed.
Inserted(r) ==
  /\ drafts' = [drafts EXCEPT ![r] = {[id |-> r, job |-> job[r]]}]
  /\ Goto(r, IF job[r].type = "deposit" THEN "credit" ELSE "debit")
  /\ UNCHANGED <<database, lockedBy, job, seen, delta, reply, outbox>>

LEMMA InsertKeepsInv ==
  ASSUME Inv, NEW r \in Requests, pc[r] = "insert", ~Insufficient(r), Inserted(r)
  PROVE  Inv'
<1> USE DEF Inserted, Goto, database
<1>1. TypeOK'
  BY DEF Inv, TypeOK, Steps, InTransaction, L!Row
<1>2. JobIsAcceptable'
  BY Parameters DEF Inv, TypeOK, JobIsAcceptable, Writing
<1>3. LocksMatchProgress'
  BY Parameters DEF Inv, TypeOK, LocksMatchProgress, Holding, FirstOf, SenderFirst
<1>4. WorkMatchesProgress'
  BY Parameters DEF Inv, TypeOK, WorkMatchesProgress, Pending, Writing, L!Payer, L!Nobody
<1>5. BalanceCheckIsCurrent'
  BY DEF Inv, TypeOK, BalanceCheckIsCurrent
<1>6. LockedDataIsCurrent'
  BY Parameters DEF Inv, TypeOK, LockedDataIsCurrent, BalanceCheckIsCurrent,
     JobIsAcceptable,
     LocksMatchProgress, Holding, Parties, Insufficient, SenderFirst, Storable
<1>7. RowsMatchProgress'
  BY DEF Inv, TypeOK, RowsMatchProgress, Committed, L!Row
<1>8. ReplyMatchesHistory'
  BY DEF Inv, TypeOK, ReplyMatchesHistory, Committed, Mail, Parties
<1> QED BY <1>1, <1>2, <1>3, <1>4, <1>5, <1>6, <1>7, <1>8 DEF Inv

\* The update of account a by r, which found its lock free or its own.
Updated(r, a, amount, next) ==
  /\ lockedBy[a] \in {Free, r}
  /\ Storable(balance[a] + delta[r][a] + amount)
  /\ lockedBy' = [lockedBy EXCEPT ![a] = r]
  /\ delta' = [delta EXCEPT ![r] = [delta[r] EXCEPT ![a] = @ + amount]]
  /\ Goto(r, next)
  /\ UNCHANGED <<database, job, seen, drafts, reply, outbox>>

\* Only the uncommitted version of account a changes, by the amount.
LEMMA UpdatedDelta ==
  ASSUME TypeOK, NEW r \in Requests, NEW a \in Accounts, NEW amount \in Int, NEW next,
         Updated(r, a, amount, next)
  PROVE  /\ delta' \in [Requests -> [Accounts -> Int]]
         /\ delta'[r][a] = delta[r][a] + amount
         /\ \A q \in Requests, b \in Accounts :
              q # r \/ b # a => delta'[q][b] = delta[q][b]
         /\ balance[a] \in Int /\ delta[r][a] \in Int
         /\ Storable(balance[a] + delta[r][a] + amount)
<1>1. delta \in [Requests -> [Accounts -> Int]]
  BY DEF TypeOK
<1>2. delta[r] \in [Accounts -> Int] /\ delta[r][a] + amount \in Int
  BY <1>1
<1> DEFINE version == [delta[r] EXCEPT ![a] = @ + amount]
<1>3. version \in [Accounts -> Int]
  BY <1>2
<1>4. delta' = [delta EXCEPT ![r] = version]
  BY DEF Updated
<1>5. /\ version[a] = delta[r][a] + amount
      /\ \A b \in Accounts : b # a => version[b] = delta[r][b]
  BY <1>2
<1>6. balance[a] \in Int /\ delta[r][a] \in Int
  <2>1. balance[a] \in 0..MaxInt
    BY DEF TypeOK
  <2> QED BY <2>1, <1>2, Parameters
<1>7. Storable(balance[a] + delta[r][a] + amount)
  BY DEF Updated
<1> HIDE DEF version
<1> QED BY <1>1, <1>3, <1>4, <1>5, <1>6, <1>7

LEMMA DebitKeepsInv ==
  ASSUME Inv, NEW r \in Requests, pc[r] = "debit",
         Updated(r, job[r].userId, -job[r].amount,
                 IF job[r].type = "transfer" THEN "credit" ELSE "commit")
  PROVE  Inv'
<1>a. /\ TypeOK
      /\ job[r].type \in {"withdraw", "transfer"}
      /\ job[r].amount \in Int /\ job[r].amount > 0
      /\ -job[r].amount \in Int
  BY JobShape DEF Inv, JobIsAcceptable
<1>b. job[r].userId \in Accounts
  BY JobShape, <1>a DEF Inv, LocksMatchProgress, Holding, Parties
<1>c. /\ delta' \in [Requests -> [Accounts -> Int]]
      /\ delta'[r][job[r].userId] = delta[r][job[r].userId] + (-job[r].amount)
      /\ \A q \in Requests, b \in Accounts :
              q # r \/ b # job[r].userId => delta'[q][b] = delta[q][b]
      /\ balance[job[r].userId] \in Int /\ delta[r][job[r].userId] \in Int
      /\ Storable(balance[job[r].userId] + delta[r][job[r].userId] + (-job[r].amount))
  BY <1>a, <1>b, UpdatedDelta
<1> USE DEF Updated, Goto, database
<1>1. TypeOK'
  BY <1>b, <1>c DEF Inv, TypeOK, Steps, InTransaction
<1>2. JobIsAcceptable'
  BY Parameters DEF Inv, TypeOK, JobIsAcceptable, Writing
<1>3. LocksMatchProgress'
  BY <1>b, Parameters DEF Inv, TypeOK, JobIsAcceptable, LocksMatchProgress, Holding,
     FirstOf, SenderFirst, Parties
<1>d. /\ job' = job /\ drafts' = drafts /\ balance' = balance /\ seen' = seen
      /\ pc' = [pc EXCEPT ![r] = IF job[r].type = "transfer" THEN "credit" ELSE "commit"]
  BY <1>a
<1>4. WorkMatchesProgress'
  <2> SUFFICES ASSUME NEW q \in Requests
               PROVE  /\ \A b \in Accounts : delta'[q][b] = Pending(q, b)'
                      /\ drafts'[q] = IF pc'[q] \in Writing
                                        THEN {[id |-> q, job |-> job'[q]]} ELSE {}
    BY DEF WorkMatchesProgress
  <2> USE <1>a, <1>b, <1>d DEF Inv, TypeOK, WorkMatchesProgress, Writing
  <2>1. drafts'[q] = IF pc'[q] \in Writing THEN {[id |-> q, job |-> job'[q]]} ELSE {}
    OBVIOUS
  <2>2. ASSUME NEW b \in Accounts PROVE delta'[q][b] = Pending(q, b)'
    <3>1. CASE q # r
      BY <3>1, <1>c DEF Pending
    <3>2. CASE q = r
      BY <3>2, <1>c, JobShape, Parameters DEF Pending, L!Payer, L!Payee, L!Nobody
    <3> QED BY <3>1, <3>2
  <2> QED BY <2>1, <2>2
<1>5. BalanceCheckIsCurrent'
  BY DEF Inv, TypeOK, BalanceCheckIsCurrent
<1>6. LockedDataIsCurrent'
  <2> SUFFICES ASSUME NEW q \in Requests
               PROVE  /\ pc'[q] = "lock2" /\ SenderFirst(job[q])
                            => seen[q] = balance[job[q].userId]
                      /\ pc'[q] \in {"debit", "credit"} /\ job[q].type # "deposit"
                            => job[q].amount <= balance[job[q].userId]
                      /\ pc'[q] = "commit"
                            => \A b \in Accounts : Storable(balance[b] + delta'[q][b])
    BY <1>d DEF LockedDataIsCurrent, SenderFirst, Storable
  <2>1. CASE q # r
    BY <2>1, <1>c, <1>d DEF Inv, TypeOK, LockedDataIsCurrent, Storable
  <2>2. CASE q = r
    <3>1. \A b \in Accounts : balance[b] \in 0..MaxInt /\ delta[r][b] = 0
      BY Parameters, <1>a DEF Inv, TypeOK, WorkMatchesProgress, Pending
    <3>2. \A b \in Accounts : Storable(balance[b] + delta'[r][b])
      BY <3>1, <1>a, <1>b, <1>c, <1>d, Parameters DEF Storable
    <3> QED BY <2>2, <3>2, <1>d DEF Inv, TypeOK, LockedDataIsCurrent
  <2> QED BY <2>1, <2>2
<1>7. RowsMatchProgress'
  BY DEF Inv, TypeOK, RowsMatchProgress, Committed, L!Row
<1>8. ReplyMatchesHistory'
  BY DEF Inv, TypeOK, ReplyMatchesHistory, Committed, Mail, Parties
<1> QED BY <1>1, <1>2, <1>3, <1>4, <1>5, <1>6, <1>7, <1>8 DEF Inv

LEMMA CreditKeepsInv ==
  ASSUME Inv, NEW r \in Requests, pc[r] = "credit",
         Updated(r, CreditTo(job[r]), job[r].amount, "commit")
  PROVE  Inv'
<1> DEFINE c == CreditTo(job[r])
<1>a. /\ TypeOK
      /\ job[r].type \in {"deposit", "transfer"}
      /\ job[r].amount \in Int /\ job[r].amount > 0
  BY JobShape DEF Inv, JobIsAcceptable
<1>b. c \in Accounts
  BY JobShape, <1>a DEF Inv, JobIsAcceptable, LocksMatchProgress, Holding, Parties,
     CreditTo, Writing
<1>c. /\ delta' \in [Requests -> [Accounts -> Int]]
      /\ delta'[r][c] = delta[r][c] + job[r].amount
      /\ \A q \in Requests, b \in Accounts :
              q # r \/ b # c => delta'[q][b] = delta[q][b]
      /\ balance[c] \in Int /\ delta[r][c] \in Int
      /\ Storable(balance[c] + delta[r][c] + job[r].amount)
  BY <1>a, <1>b, UpdatedDelta
<1>d. /\ job' = job /\ drafts' = drafts /\ balance' = balance /\ seen' = seen
      /\ pc' = [pc EXCEPT ![r] = "commit"]
      /\ lockedBy[c] \in {Free, r} /\ lockedBy' = [lockedBy EXCEPT ![c] = r]
      /\ UNCHANGED <<transactions, active, reply, outbox>>
  BY DEF Updated, Goto, database
<1>e. c = L!Payee(job[r]) /\ c # L!Payer(job[r])
  BY <1>a, JobShape, Parameters DEF Inv, JobIsAcceptable, Writing, CreditTo, L!Payee,
     L!Payer, L!Nobody
<1>1. TypeOK'
  BY <1>b, <1>c, <1>d DEF Inv, TypeOK, Steps, InTransaction
<1>2. JobIsAcceptable'
  BY <1>d, Parameters DEF Inv, TypeOK, JobIsAcceptable, Writing
<1>3. LocksMatchProgress'
  BY <1>a, <1>b, <1>d, Parameters DEF Inv, TypeOK, JobIsAcceptable, LocksMatchProgress,
     Holding,
     FirstOf, SenderFirst, Parties, CreditTo, Writing
<1>4. WorkMatchesProgress'
  <2> SUFFICES ASSUME NEW q \in Requests
               PROVE  /\ \A b \in Accounts : delta'[q][b] = Pending(q, b)'
                      /\ drafts'[q] = IF pc'[q] \in Writing
                                        THEN {[id |-> q, job |-> job'[q]]} ELSE {}
    BY DEF WorkMatchesProgress
  <2> USE <1>a, <1>b, <1>d DEF Inv, TypeOK, WorkMatchesProgress, Writing
  <2>1. drafts'[q] = IF pc'[q] \in Writing THEN {[id |-> q, job |-> job'[q]]} ELSE {}
    OBVIOUS
  <2>2. ASSUME NEW b \in Accounts PROVE delta'[q][b] = Pending(q, b)'
    <3>1. CASE q # r
      BY <3>1, <1>c DEF Pending
    <3>2. CASE q = r
      BY <3>2, <1>c, <1>e DEF Pending
    <3> QED BY <3>1, <3>2
  <2> QED BY <2>1, <2>2
<1>5. BalanceCheckIsCurrent'
  BY <1>d DEF Inv, TypeOK, BalanceCheckIsCurrent
<1>6. LockedDataIsCurrent'
  <2> SUFFICES ASSUME NEW q \in Requests
               PROVE  /\ pc'[q] = "lock2" /\ SenderFirst(job[q])
                            => seen[q] = balance[job[q].userId]
                      /\ pc'[q] \in {"debit", "credit"} /\ job[q].type # "deposit"
                            => job[q].amount <= balance[job[q].userId]
                      /\ pc'[q] = "commit"
                            => \A b \in Accounts : Storable(balance[b] + delta'[q][b])
    BY <1>d DEF LockedDataIsCurrent, SenderFirst, Storable
  <2>1. CASE q # r
    BY <2>1, <1>c, <1>d DEF Inv, TypeOK, LockedDataIsCurrent, Storable
  <2>2. CASE q = r
    <3>1. ASSUME NEW b \in Accounts, b # c
          PROVE  Storable(balance[b] + delta[r][b])
      <4>1. balance[b] \in 0..MaxInt
        BY <1>a DEF TypeOK
      <4>2. delta[r][b] = Pending(r, b)
        BY DEF Inv, WorkMatchesProgress
      <4>3. CASE b = L!Payer(job[r])
        <5>1. job[r].amount <= balance[b]
          BY <4>3, <1>a, JobShape, Parameters
          DEF Inv, LockedDataIsCurrent, L!Payer, L!Nobody
        <5>2. delta[r][b] = -job[r].amount
          BY <4>2, <4>3, <1>a DEF Pending
        <5> QED BY <4>1, <5>1, <5>2, <1>a, Parameters DEF Storable
      <4>4. CASE b # L!Payer(job[r])
        <5>1. delta[r][b] = 0
          BY <4>2, <4>4 DEF Pending
        <5> QED BY <4>1, <5>1, Parameters DEF Storable
      <4> QED BY <4>3, <4>4
    <3>2. ASSUME NEW b \in Accounts
          PROVE  Storable(balance[b] + delta'[r][b])
      <4>1. CASE b = c
        BY <4>1, <1>a, <1>c DEF Storable
      <4>2. CASE b # c
        BY <4>2, <3>1, <1>c
      <4> QED BY <4>1, <4>2
    <3>3. pc'[r] = "commit"
      BY <1>a, <1>d DEF TypeOK
    <3> QED BY <2>2, <3>2, <3>3
  <2> QED BY <2>1, <2>2
<1>7. RowsMatchProgress'
  BY <1>d DEF Inv, TypeOK, RowsMatchProgress, Committed, L!Row
<1>8. ReplyMatchesHistory'
  BY <1>d DEF Inv, TypeOK, ReplyMatchesHistory, Committed, Mail, Parties
<1> QED BY <1>1, <1>2, <1>3, <1>4, <1>5, <1>6, <1>7, <1>8 DEF Inv

-----------------------------------------------------------------------------
(* COMMIT *)

\* Changes are pending only on accounts the request has locked.
LEMMA PendingIsLocked ==
  ASSUME Inv, NEW r \in Requests, pc[r] = "commit", NEW a \in Accounts, delta[r][a] # 0
  PROVE  Holding(r, a) /\ lockedBy[a] = r
<1>1. a \in L!Users /\ a # 0
  BY Parameters
<1>2. delta[r][a] = Pending(r, a)
  BY DEF Inv, WorkMatchesProgress
<1>3. a = L!Payee(job[r]) \/ a = L!Payer(job[r])
  BY <1>2 DEF Pending
<1>4. a \in Parties(job[r])
  BY <1>1, <1>3, JobShape DEF Inv, Parties, L!Payee, L!Payer, L!Nobody
<1>5. Holding(r, a)
  BY <1>4 DEF Holding
<1> QED BY <1>1, <1>5 DEF Inv, LocksMatchProgress

\* The balance of an account somebody else has locked does not move.
LEMMA CommitSparesOthers ==
  ASSUME Inv, NEW r \in Requests, Commit(r),
         NEW q \in Requests, q # r, NEW u \in L!Users, Holding(q, u)
  PROVE  u \in Accounts /\ balance'[u] = balance[u]
<1>1. u \in Accounts /\ lockedBy[u] = q
  BY DEF Inv, LocksMatchProgress
<1>2. delta[r][u] = 0
  BY <1>1, PendingIsLocked DEF Commit
<1>3. balance[u] \in Int
  BY <1>1, Parameters DEF Inv, TypeOK
<1> QED BY <1>1, <1>2, <1>3 DEF Commit

LEMMA CommitKeepsInv ==
  ASSUME Inv, NEW r \in Requests, Commit(r)
  PROVE  Inv'
<1>a. /\ pc[r] = "commit"
      /\ balance' = [a \in Accounts |-> balance[a] + delta[r][a]]
      /\ transactions' = transactions \cup {[id |-> r, job |-> job[r]]}
      /\ lockedBy' = [a \in Accounts |-> IF lockedBy[a] = r THEN Free ELSE lockedBy[a]]
      /\ delta' = [delta EXCEPT ![r] = NoChange]
      /\ drafts' = [drafts EXCEPT ![r] = {}]
      /\ pc' = [pc EXCEPT ![r] = LookupOf(job[r])]
      /\ UNCHANGED <<active, job, seen, reply, outbox>>
  BY DEF Commit, EndTransaction, Goto, Inv, WorkMatchesProgress, Writing
<1>b. LookupOf(job[r]) \in {"lookup", "select"}
  BY DEF LookupOf
<1>1. TypeOK'
  <2>1. balance' \in [Accounts -> 0..MaxInt]
    BY <1>a DEF Inv, LockedDataIsCurrent, Storable
  <2>2. transactions' \subseteq L!Row
    BY <1>a DEF Inv, TypeOK, L!Row
  <2> QED BY <2>1, <2>2, <1>a, <1>b, Parameters DEF Inv, TypeOK, Steps, NoChange
<1>2. JobIsAcceptable'
  BY <1>a, <1>b DEF Inv, TypeOK, JobIsAcceptable, Writing
<1>3. LocksMatchProgress'
  BY <1>a, <1>b, Parameters DEF Inv, TypeOK, LocksMatchProgress, Holding, FirstOf, SenderFirst
<1>4. WorkMatchesProgress'
  <2> SUFFICES ASSUME NEW q \in Requests
               PROVE  /\ \A a \in Accounts : delta'[q][a] = Pending(q, a)'
                      /\ drafts'[q] = IF pc'[q] \in Writing
                                        THEN {[id |-> q, job |-> job'[q]]} ELSE {}
    BY DEF WorkMatchesProgress
  <2>1. CASE q = r
    BY <2>1, <1>a, <1>b DEF Inv, TypeOK, Pending, Writing, NoChange
  <2>2. CASE q # r
    BY <2>2, <1>a DEF Inv, TypeOK, WorkMatchesProgress, Pending, Writing
  <2> QED BY <2>1, <2>2
<1>5. BalanceCheckIsCurrent'
  <2> SUFFICES ASSUME NEW q \in Requests, q # r,
                      pc[q] \in {"insert", "debit"}, job[q].type # "deposit"
               PROVE  seen[q] = balance'[job[q].userId]
    BY <1>a, <1>b DEF Inv, TypeOK, BalanceCheckIsCurrent
  <2>1. job[q].userId \in L!Users /\ Holding(q, job[q].userId)
    BY JobShape DEF Inv, Holding, Parties
  <2> QED BY <2>1, CommitSparesOthers DEF Inv, BalanceCheckIsCurrent
<1>6. LockedDataIsCurrent'
  <2> SUFFICES ASSUME NEW q \in Requests, q # r
               PROVE  /\ pc[q] = "lock2" /\ SenderFirst(job[q])
                            => seen[q] = balance'[job[q].userId]
                      /\ pc[q] \in {"debit", "credit"} /\ job[q].type # "deposit"
                            => job[q].amount <= balance'[job[q].userId]
                      /\ pc[q] = "commit"
                            => \A a \in Accounts : Storable(balance'[a] + delta[q][a])
    BY <1>a, <1>b DEF Inv, TypeOK, LockedDataIsCurrent, SenderFirst, Storable
  <2>a. job[q].userId \in L!Users /\ job[q].type \in {"deposit", "withdraw", "transfer"}
    BY JobShape DEF Inv
  <2>1. ASSUME pc[q] = "lock2", SenderFirst(job[q])
        PROVE  seen[q] = balance'[job[q].userId]
    <3>1. Holding(q, job[q].userId)
      BY <2>1 DEF Holding, FirstOf
    <3> QED BY <2>1, <2>a, <3>1, CommitSparesOthers DEF Inv, LockedDataIsCurrent
  <2>2. ASSUME pc[q] \in {"debit", "credit"}, job[q].type # "deposit"
        PROVE  job[q].amount <= balance'[job[q].userId]
    <3>1. Holding(q, job[q].userId)
      BY <2>2, <2>a DEF Inv, JobIsAcceptable, Holding, Parties
    <3> QED BY <2>2, <2>a, <3>1, CommitSparesOthers DEF Inv, LockedDataIsCurrent
  <2>3. ASSUME pc[q] = "commit", NEW a \in Accounts
        PROVE  Storable(balance'[a] + delta[q][a])
    <3>1. CASE delta[q][a] = 0
      BY <3>1, <1>1, Parameters DEF TypeOK, Storable
    <3>2. CASE delta[q][a] # 0
      <4>1. balance'[a] = balance[a]
        <5>1. Holding(q, a)
          BY <2>3, <3>2, PendingIsLocked
        <5>2. a \in L!Users
          BY Parameters
        <5> QED BY <5>1, <5>2, CommitSparesOthers
      <4> QED BY <2>3, <4>1 DEF Inv, LockedDataIsCurrent
    <3> QED BY <3>1, <3>2
  <2> QED BY <2>1, <2>2, <2>3
<1>7. RowsMatchProgress'
  <2>1. ASSUME NEW row \in transactions'
        PROVE  row.job = job'[row.id] /\ pc'[row.id] \in {"lookup", "select", "done"}
    <3>1. CASE row \in transactions
      BY <3>1, <1>a DEF Inv, TypeOK, RowsMatchProgress, L!Row
    <3>2. CASE row = [id |-> r, job |-> job[r]]
      BY <3>2, <1>a, <1>b DEF Inv, TypeOK
    <3> QED BY <3>1, <3>2, <1>a
  <2>2. ASSUME NEW q \in Requests
        PROVE  /\ pc'[q] \in {"lookup", "select"} => \E row \in transactions' : row.id = q
               /\ pc'[q] # "done" => reply'[q] = "none"
    <3>1. CASE q = r
      <4>1. [id |-> r, job |-> job[r]].id = q
        BY <3>1
      <4> QED BY <3>1, <4>1, <1>a, <1>b DEF Inv, TypeOK, RowsMatchProgress
    <3>2. CASE q # r
      BY <3>2, <1>a DEF Inv, TypeOK, RowsMatchProgress, Committed
    <3> QED BY <3>1, <3>2
  <2> QED BY <2>1, <2>2 DEF RowsMatchProgress, Committed
<1>8. ReplyMatchesHistory'
  <2>1. reply[r] = "none"
    BY <1>a DEF Inv, RowsMatchProgress
  <2>2. \A q \in Requests : Committed(q) => Committed(q)'
    BY <1>a DEF Committed
  <2>3. \A q \in Requests \ {r} : Committed(q)' => Committed(q)
    BY <1>a DEF Committed
  <2>4. UNCHANGED <<reply, outbox>> /\ \A q \in Requests : Mail(q)' = Mail(q)
    BY <1>a DEF Mail, Parties
  <2>5. \A m \in outbox : m.request \in Requests
    BY DEF Inv, TypeOK
  <2> QED BY <2>1, <2>2, <2>3, <2>4, <2>5 DEF Inv, ReplyMatchesHistory
<1> QED BY <1>1, <1>2, <1>3, <1>4, <1>5, <1>6, <1>7, <1>8 DEF Inv

-----------------------------------------------------------------------------
(* The answer, and the environment *)

LEMMA CacheMissKeepsInv ==
  ASSUME Inv, NEW r \in Requests, CacheMiss(r)
  PROVE  Inv'
<1> USE DEF CacheMiss, Proceed, Goto, database
<1>1. TypeOK'
  BY DEF Inv, TypeOK, Steps
<1>2. JobIsAcceptable'
  BY DEF Inv, TypeOK, JobIsAcceptable, Writing
<1>3. LocksMatchProgress'
  BY DEF Inv, TypeOK, LocksMatchProgress, Holding, FirstOf, SenderFirst, Parties
<1>4. WorkMatchesProgress'
  BY DEF Inv, TypeOK, WorkMatchesProgress, Pending, Writing
<1>5. BalanceCheckIsCurrent'
  BY DEF Inv, TypeOK, BalanceCheckIsCurrent
<1>6. LockedDataIsCurrent'
  BY DEF Inv, TypeOK, LockedDataIsCurrent, SenderFirst, Storable
<1>7. RowsMatchProgress'
  BY DEF Inv, TypeOK, RowsMatchProgress, Committed, L!Row
<1>8. ReplyMatchesHistory'
  BY DEF Inv, TypeOK, ReplyMatchesHistory, Committed, Mail, Parties
<1> QED BY <1>1, <1>2, <1>3, <1>4, <1>5, <1>6, <1>7, <1>8 DEF Inv

LEMMA NotifyKeepsInv ==
  ASSUME Inv, NEW r \in Requests, Notify(r)
  PROVE  Inv'
<1> USE DEF Notify, Found, Goto, database
<1>1. TypeOK'
  <2>1. Parties(job[r]) \subseteq L!Users
    BY JobShape DEF Inv, JobIsAcceptable, Parties
  <2>2. Mail(r) \subseteq [request : Requests, to : L!Users]
    BY <2>1 DEF Mail
  <2> QED BY <2>2 DEF Inv, TypeOK, Steps, Replies
<1>2. JobIsAcceptable'
  BY DEF Inv, TypeOK, JobIsAcceptable, Writing
<1>3. LocksMatchProgress'
  BY DEF Inv, TypeOK, LocksMatchProgress, Holding, FirstOf, SenderFirst
<1>4. WorkMatchesProgress'
  BY DEF Inv, TypeOK, WorkMatchesProgress, Pending, Writing
<1>5. BalanceCheckIsCurrent'
  BY DEF Inv, TypeOK, BalanceCheckIsCurrent
<1>6. LockedDataIsCurrent'
  BY DEF Inv, TypeOK, LockedDataIsCurrent, SenderFirst, Storable
<1>7. RowsMatchProgress'
  BY DEF Inv, TypeOK, RowsMatchProgress, Committed, L!Row
<1>8. ReplyMatchesHistory'
  BY DEF Inv, TypeOK, ReplyMatchesHistory, RowsMatchProgress, Committed, Mail, Parties
<1> QED BY <1>1, <1>2, <1>3, <1>4, <1>5, <1>6, <1>7, <1>8 DEF Inv

LEMMA CrashKeepsInv ==
  ASSUME Inv, Crash
  PROVE  Inv'
<1> USE DEF Crash, InFlight, database
<1>1. TypeOK'
  BY DEF Inv, TypeOK, Steps, NoChange, Replies
<1>2. JobIsAcceptable'
  BY DEF Inv, TypeOK, JobIsAcceptable, Writing
<1>3. LocksMatchProgress'
  BY Parameters DEF Inv, TypeOK, LocksMatchProgress, Holding, FirstOf, SenderFirst
<1>4. WorkMatchesProgress'
  BY DEF Inv, TypeOK, WorkMatchesProgress, Pending, Writing, NoChange
<1>5. BalanceCheckIsCurrent'
  BY DEF Inv, TypeOK, BalanceCheckIsCurrent
<1>6. LockedDataIsCurrent'
  BY DEF Inv, TypeOK, LockedDataIsCurrent, SenderFirst, Storable
<1>7. RowsMatchProgress'
  BY DEF Inv, TypeOK, RowsMatchProgress, Committed, L!Row
<1>8. ReplyMatchesHistory'
  BY DEF Inv, TypeOK, ReplyMatchesHistory, RowsMatchProgress, Committed, Mail, Parties
<1> QED BY <1>1, <1>2, <1>3, <1>4, <1>5, <1>6, <1>7, <1>8 DEF Inv

LEMMA SetActiveKeepsInv ==
  ASSUME Inv, NEW u \in L!Users, NEW value \in BOOLEAN, SetActive(u, value)
  PROVE  Inv'
<1> USE DEF SetActive
<1>1. TypeOK'
  BY DEF Inv, TypeOK, Steps, InTransaction, NoChange
<1>2. JobIsAcceptable'
  BY DEF Inv, TypeOK, JobIsAcceptable, Writing
<1>3. LocksMatchProgress'
  BY DEF Inv, TypeOK, LocksMatchProgress, Holding, FirstOf, SenderFirst
<1>4. WorkMatchesProgress'
  BY DEF Inv, TypeOK, WorkMatchesProgress, Pending, Writing
<1>5. BalanceCheckIsCurrent'
  BY DEF Inv, TypeOK, BalanceCheckIsCurrent
<1>6. LockedDataIsCurrent'
  BY DEF Inv, TypeOK, LockedDataIsCurrent, SenderFirst, Storable
<1>7. RowsMatchProgress'
  BY DEF Inv, TypeOK, RowsMatchProgress, Committed, L!Row
<1>8. ReplyMatchesHistory'
  BY DEF Inv, TypeOK, ReplyMatchesHistory, RowsMatchProgress, Committed, Mail, Parties
<1> QED BY <1>1, <1>2, <1>3, <1>4, <1>5, <1>6, <1>7, <1>8 DEF Inv

-----------------------------------------------------------------------------
(* Every step *)

THEOREM InitInv == Init => Inv
<1> SUFFICES ASSUME Init PROVE Inv
  OBVIOUS
<1> USE DEF Init
<1>1. TypeOK
  BY Parameters DEF TypeOK, Steps, Replies, NoChange
<1>2. JobIsAcceptable /\ BalanceCheckIsCurrent /\ LockedDataIsCurrent
  BY DEF JobIsAcceptable, BalanceCheckIsCurrent, LockedDataIsCurrent, Writing
<1>3. LocksMatchProgress
  BY Parameters DEF LocksMatchProgress, Holding
<1>4. WorkMatchesProgress
  BY DEF WorkMatchesProgress, Pending, Writing, NoChange
<1>5. RowsMatchProgress /\ ReplyMatchesHistory
  BY DEF RowsMatchProgress, ReplyMatchesHistory
<1> QED BY <1>1, <1>2, <1>3, <1>4, <1>5 DEF Inv

LEMMA ReceiveKeepsInv ==
  ASSUME Inv, NEW r \in Requests, Receive(r)
  PROVE  Inv'
<1>1. ~Committed(r)
  BY DEF Receive, Inv, RowsMatchProgress, Committed
<1>2. CASE Abort(r, "refused")
  BY <1>1, <1>2, AbortKeepsInv DEF Replies
<1>3. CASE Proceed(r, "begin") /\ job[r].amount > 0
  BY <1>3, ProceedKeepsInv DEF Receive
<1> QED BY <1>2, <1>3 DEF Receive

\* A request that is still reading or locking has no row yet.
LEMMA RefusalIsEarly ==
  ASSUME Inv, NEW r \in Requests, pc[r] \notin {"lookup", "select", "done"}
  PROVE  ~Committed(r)
  BY DEF Inv, RowsMatchProgress, Committed

LEMMA LockRowKeepsInv ==
  ASSUME Inv, NEW r \in Requests, NEW a, NEW next,
         LockRow(r, a, next),
         \/ /\ pc[r] = "read" /\ next = "insert"
            /\ job[r].type = "withdraw" /\ a = job[r].userId
         \/ pc[r] = "lock1" /\ next = "lock2" /\ a = FirstOf(job[r])
         \/ pc[r] = "lock2" /\ next = "insert" /\ a = SecondOf(job[r])
  PROVE  Inv'
<1>1. CASE Abort(r, "refused")
  BY <1>1, RefusalIsEarly, AbortKeepsInv DEF Replies
<1>2. CASE Granted(r, a, next) /\ a \in Accounts
  BY <1>2, LockKeepsInv
<1> QED BY <1>1, <1>2 DEF LockRow, Granted

LEMMA StepKeepsInv ==
  ASSUME Inv, NEW r \in Requests, Step(r)
  PROVE  Inv'
<1>1. CASE Begin(r)
  BY <1>1, ProceedKeepsInv DEF Begin, Inv, JobIsAcceptable
<1>2. CASE DepositRead(r)
  <2>1. CASE Abort(r, "refused")
    BY <1>2, <2>1, RefusalIsEarly, AbortKeepsInv DEF DepositRead, Replies
  <2>2. CASE Proceed(r, "insert") /\ job[r].userId \in Accounts
    BY <1>2, <2>2, ProceedKeepsInv DEF DepositRead, Inv, JobIsAcceptable
  <2> QED BY <1>2, <2>1, <2>2 DEF DepositRead
<1>3. CASE TransferRead(r)
  <2>1. CASE Abort(r, "refused")
    BY <1>3, <2>1, RefusalIsEarly, AbortKeepsInv DEF TransferRead, Replies
  <2>2. CASE Proceed(r, "lock1") /\ ~Unacceptable(job[r])
    <3>1. job[r].recipientId \in L!Users \ {job[r].userId}
      BY <2>2 DEF Unacceptable
    <3> QED BY <1>3, <2>2, <3>1, ProceedKeepsInv DEF TransferRead, Inv, JobIsAcceptable
  <2> QED BY <1>3, <2>1, <2>2 DEF TransferRead
<1>4. CASE WithdrawLock(r)
  BY <1>4, LockRowKeepsInv DEF WithdrawLock
<1>5. CASE TransferLock1(r)
  BY <1>5, LockRowKeepsInv DEF TransferLock1
<1>6. CASE TransferLock2(r)
  BY <1>6, LockRowKeepsInv DEF TransferLock2
<1>7. CASE Insert(r)
  <2>1. CASE Abort(r, "refused")
    BY <1>7, <2>1, RefusalIsEarly, AbortKeepsInv DEF Insert, Replies
  <2>2. CASE Abort(r, "error")
    BY <2>2, AbortKeepsInv DEF Replies
  <2>3. CASE ~Insufficient(r) /\ Inserted(r)
    BY <1>7, <2>3, InsertKeepsInv DEF Insert
  <2> QED BY <1>7, <2>1, <2>2, <2>3 DEF Insert, Inserted
<1>8. CASE Debit(r)
  <2>1. CASE Abort(r, "error")
    BY <2>1, AbortKeepsInv DEF Replies
  <2>2. CASE ~Abort(r, "error")
    BY <1>8, <2>2, DebitKeepsInv DEF Debit, UpdateBalance, Updated
  <2> QED BY <2>1, <2>2
<1>9. CASE Credit(r)
  <2>1. CASE Abort(r, "error")
    BY <2>1, AbortKeepsInv DEF Replies
  <2>2. CASE ~Abort(r, "error")
    BY <1>9, <2>2, CreditKeepsInv DEF Credit, UpdateBalance, Updated
  <2> QED BY <2>1, <2>2
<1>10. CASE Commit(r)
  BY <1>10, CommitKeepsInv
<1>11. CASE Notify(r)
  BY <1>11, NotifyKeepsInv
<1>12. CASE UserMissing(r)
  BY <1>12, AbortKeepsInv DEF UserMissing, Replies
<1>13. CASE CacheMiss(r)
  BY <1>13, CacheMissKeepsInv
<1> QED BY <1>1, <1>2, <1>3, <1>4, <1>5, <1>6, <1>7, <1>8, <1>9, <1>10, <1>11, <1>12, <1>13
        DEF Step

THEOREM NextInv == Inv /\ [Next]_vars => Inv'
<1> SUFFICES ASSUME Inv, [Next]_vars PROVE Inv'
  OBVIOUS
<1>1. ASSUME NEW r \in Requests, Receive(r) \/ Step(r) PROVE Inv'
  BY <1>1, ReceiveKeepsInv, StepKeepsInv
<1>2. ASSUME NEW r \in Requests, Fault(r) PROVE Inv'
  BY <1>2, AbortKeepsInv DEF Fault, Replies
<1>3. ASSUME NEW u \in L!Users, Deactivate(u) \/ Reactivate(u) PROVE Inv'
  BY <1>3, SetActiveKeepsInv DEF Deactivate, Reactivate
<1>4. CASE Crash
  BY <1>4, CrashKeepsInv
<1>5. CASE UNCHANGED vars
  BY <1>5 DEF vars, Inv, TypeOK, JobIsAcceptable, LocksMatchProgress, Holding, FirstOf,
     SenderFirst, Parties, WorkMatchesProgress, Pending, BalanceCheckIsCurrent,
     LockedDataIsCurrent, Storable, RowsMatchProgress, Committed, ReplyMatchesHistory, Mail
<1> QED BY <1>1, <1>2, <1>3, <1>4, <1>5 DEF Next

(***************************************************************************)
(* The inductive invariant holds: the locks, the uncommitted versions, the *)
(* rows and the replies always match the statement each request has        *)
(* reached, for any number of concurrent requests, with faults and crashes.*)
(***************************************************************************)
THEOREM AlwaysInv == Spec => []Inv
  BY InitInv, NextInv, PTL DEF Spec

(***************************************************************************)
(* Committed balances are never negative and never outgrow their column.   *)
(***************************************************************************)
THEOREM TypeCorrect == Spec => []TypeOK
  BY AlwaysInv, PTL DEF Inv

(***************************************************************************)
(* Accounts are locked exactly while the request needs them.               *)
(***************************************************************************)
THEOREM LocksCorrect == Spec => []LocksMatchProgress
  BY AlwaysInv, PTL DEF Inv

(***************************************************************************)
(* The balance check of a withdrawal or a transfer and its debit are       *)
(* atomic with respect to every other request.                             *)
(***************************************************************************)
THEOREM CheckIsAtomic == Spec => []BalanceCheckIsCurrent
  BY AlwaysInv, PTL DEF Inv

(***************************************************************************)
(* No debit relies on the check constraint of the accounts table.          *)
(***************************************************************************)
THEOREM DebitsAreCovered == Spec => []DebitCovered
<1>1. Inv => DebitCovered
  BY DEF Inv, LockedDataIsCurrent, JobIsAcceptable, DebitCovered
<1> QED BY <1>1, AlwaysInv, PTL

(***************************************************************************)
(* Answers and notifications tell what the tables hold.                    *)
(***************************************************************************)
THEOREM RepliesAreTrue == Spec => []ReplyMatchesHistory
  BY AlwaysInv, PTL DEF Inv

-----------------------------------------------------------------------------
(* Deadlock freedom: a request that holds a lock waits for a larger one *)

LEMMA WaitsForLarger ==
  ASSUME Inv, NEW q \in Requests, NEW a \in Accounts, NEW b \in Accounts,
         lockedBy[a] = q, Awaits(q, b), lockedBy[b] # q
  PROVE  a < b
<1>1. a \in L!Users /\ b \in L!Users /\ Holding(q, a) /\ ~Holding(q, b)
  BY Parameters DEF Inv, LocksMatchProgress
<1>2. pc[q] = "lock2"
  BY <1>1, JobShape DEF Inv, JobIsAcceptable, Holding, Awaits, Parties, CreditTo
<1>3. a = FirstOf(job[q]) /\ b = SecondOf(job[q])
  BY <1>1, <1>2 DEF Holding, Awaits
<1>4. job[q].userId # job[q].recipientId
  BY <1>2 DEF Inv, JobIsAcceptable
<1> QED BY <1>1, <1>3, <1>4, Parameters, JobShape DEF Inv, FirstOf, SecondOf, SenderFirst

LEMMA LeastRank ==
  ASSUME NEW T, T \subseteq Nat, T # {}
  PROVE  \E x \in T : \A y \in T : ~(y < x)
<1> DEFINE R == OpToRel(<, Nat)
<1>1. IsWellFoundedOn(R, Nat)
  BY NatLessThanWellFounded
<1>2. \A x, y \in Nat : y < x => <<y, x>> \in R
  BY DEF OpToRel
<1> HIDE DEF R
<1>3. \E x \in T : \A y \in T : ~(<<y, x>> \in R)
  BY <1>1, WFMin
<1> QED BY <1>2, <1>3

LEMMA InvNoLockCycle == Inv => NoLockCycle
<1> SUFFICES ASSUME Inv, NEW S \in SUBSET Requests, S # {},
                    \A r \in S : \E q \in S : WaitsFor(r, q)
             PROVE  FALSE
  BY DEF NoLockCycle
<1> DEFINE Contended == {a \in Accounts : \E r, q \in S :
                           r # q /\ Awaits(r, a) /\ lockedBy[a] = q}
           Ranks == {UserCount - a : a \in Contended}
<1>1. \A r \in S : \E a \in Contended : Awaits(r, a) /\ lockedBy[a] # r
  BY DEF WaitsFor
<1>2. Ranks \subseteq Nat
  <2>1. \A a \in Accounts : UserCount - a \in Nat
    BY Parameters DEF L!Users
  <2> QED BY <2>1
<1>3. Ranks # {}
  BY <1>1
<1>4. PICK a \in Contended : \A b \in Contended : ~(UserCount - b < UserCount - a)
  <2>1. PICK x \in Ranks : \A y \in Ranks : ~(y < x)
    BY <1>2, <1>3, LeastRank
  <2> QED BY <2>1
<1>5. PICK q \in S : lockedBy[a] = q
  OBVIOUS
<1>6. PICK b \in Contended : Awaits(q, b) /\ lockedBy[b] # q
  BY <1>1
<1>7. a < b
  BY <1>5, <1>6, WaitsForLarger
<1>8. a \in Int /\ b \in Int /\ UserCount \in Int
  BY Parameters
<1> QED BY <1>4, <1>7, <1>8

(***************************************************************************)
(* No set of requests ever waits for one another's row locks: every lock   *)
(* order that a mix of deposits, withdrawals and transfers follows agrees  *)
(* with the order of the user ids (lockBothAccounts).                      *)
(***************************************************************************)
THEOREM NeverLockCycle == Spec => []NoLockCycle
  BY AlwaysInv, InvNoLockCycle, PTL

\* Who is waited for has a connection.
LEMMA HoldersAreInTransaction ==
  ASSUME Inv, NEW r \in Requests, NEW q \in Requests, WaitsFor(r, q)
  PROVE  pc[q] \in InTransaction
<1>1. PICK a \in Accounts : lockedBy[a] = q
  BY DEF WaitsFor
<1>2. Holding(q, a)
  BY <1>1, Parameters DEF Inv, LocksMatchProgress
<1> QED BY <1>2 DEF Holding, InTransaction

LEMMA InvSomebodyCanStep == Inv => SomebodyCanStep
<1> SUFFICES ASSUME Inv, NEW r \in Requests, InFlight(r)
             PROVE  \E q \in Requests : CanStep(q)
  BY DEF SomebodyCanStep
<1> DEFINE S == {q \in Requests : pc[q] \in InTransaction}
<1>1. CASE S # {}
  <2>1. PICK q \in S : \A p \in S : ~WaitsFor(q, p)
    BY <1>1, InvNoLockCycle DEF NoLockCycle
  <2>2. \A p \in Requests : ~WaitsFor(q, p)
    BY <2>1, HoldersAreInTransaction
  <2>3. InFlight(q) /\ ~WaitsForConnection(q)
    BY DEF InTransaction, InFlight, WaitsForConnection
  <2> QED BY <2>2, <2>3 DEF CanStep
<1>2. CASE S = {}
  <2>1. FreeConnection
    BY <1>2, MoneyAssumption, FS_EmptySet DEF MoneyAssumption, FreeConnection
  <2>2. \A p \in Requests : ~WaitsFor(r, p)
    BY <1>2, HoldersAreInTransaction
  <2> QED BY <2>1, <2>2 DEF CanStep, WaitsForConnection
<1> QED BY <1>1, <1>2

(***************************************************************************)
(* However many requests compete for however few connections, somebody can *)
(* take the next statement (KnexUnitOfWork.transaction).                   *)
(***************************************************************************)
THEOREM SomebodyCanAlwaysStep == Spec => []SomebodyCanStep
  BY AlwaysInv, InvSomebodyCanStep, PTL

-----------------------------------------------------------------------------
(* Refinement *)

LEMMA CommitPosts ==
  ASSUME Inv, NEW r \in Requests, Commit(r)
  PROVE  L!Post(r, job[r])
<1>a. /\ pc[r] = "commit" /\ job[r] \in Jobs
      /\ drafts[r] = {[id |-> r, job |-> job[r]]}
  BY DEF Commit, Inv, TypeOK, WorkMatchesProgress, Writing
<1>1. \A row \in transactions : row.id # r
  BY <1>a DEF Inv, RowsMatchProgress
<1>2. job[r].amount > 0
  BY <1>a DEF Inv, JobIsAcceptable
<1>3. Parties(job[r]) \subseteq Accounts
  <2>1. Parties(job[r]) \subseteq L!Users
    BY <1>a, JobShape DEF Inv, JobIsAcceptable, Parties, Writing
  <2> QED BY <1>a, <2>1 DEF Inv, LocksMatchProgress, Holding
<1>4. job[r].type = "transfer" => job[r].recipientId # job[r].userId
  BY <1>a DEF Inv, JobIsAcceptable, Writing
<1>5. L!Postable(job[r])
  BY <1>2, <1>3, <1>4 DEF L!Postable, Parties
<1>6. balance' = [a \in Accounts |-> balance[a] + L!Effect(job[r], a)]
  <2>1. \A a \in Accounts : delta[r][a] = L!Effect(job[r], a)
    BY <1>a DEF Inv, WorkMatchesProgress, Pending, L!Effect
  <2> QED BY <2>1 DEF Commit
<1>7. \A a \in Accounts : balance'[a] \in 0..MaxInt
  BY CommitKeepsInv DEF Inv, TypeOK
<1>8. transactions' = transactions \cup {[id |-> r, job |-> job[r]]}
  BY <1>a DEF Commit
<1> QED BY <1>1, <1>5, <1>6, <1>7, <1>8 DEF L!Post

\* Every other step leaves the balances and the rows alone.
LEMMA OnlyCommitPosts ==
  ASSUME [Next]_vars
  PROVE  UNCHANGED <<balance, transactions>> \/ \E r \in Requests : Commit(r)
<1>1. ASSUME NEW r \in Requests,
             Receive(r) \/ Fault(r) \/ (Step(r) /\ ~Commit(r))
      PROVE  UNCHANGED <<balance, transactions>>
  BY <1>1 DEF Receive, Fault, Step, Begin, DepositRead, TransferRead, WithdrawLock,
     TransferLock1, TransferLock2, LockRow, Insert, Debit, Credit, UpdateBalance,
     CacheMiss, Notify, UserMissing, Proceed, Abort, database
<1>2. CASE Crash \/ (\E u \in L!Users : Deactivate(u) \/ Reactivate(u)) \/ UNCHANGED vars
  BY <1>2 DEF Crash, Deactivate, Reactivate, SetActive, vars, database
<1> QED BY <1>1, <1>2 DEF Next

LEMMA NextImplementsLedger ==
  Inv /\ [Next]_vars => [L!Next]_<<balance, transactions>>
<1>1. ASSUME Inv, NEW r \in Requests, Commit(r)
      PROVE  L!Next
  BY <1>1, CommitPosts DEF L!Next, Inv, TypeOK
<1> QED BY <1>1, OnlyCommitPosts

(***************************************************************************)
(* The statements of the three use cases implement the ledger: whatever    *)
(* interleaving, fault or crash, money moves only by posting a row, whole. *)
(***************************************************************************)
THEOREM MovementImplementsLedger == Spec => ImplementsLedger
<1>1. Init => L!Init
  BY DEF Init, L!Init
<1> QED BY <1>1, NextImplementsLedger, AlwaysInv, PTL DEF Spec, L!Spec, ImplementsLedger

-----------------------------------------------------------------------------
(* The ledger, and what the statements inherit from it *)

LEMMA LedgerSum ==
  ASSUME NEW f
  PROVE  L!SumFunction(f) = SumFunctionOnSet(f, DOMAIN f)
  BY DEF L!SumFunction, L!SumFunctionOnSet, L!FoldFunctionOnSet, L!MapThenFoldSet,
     SumFunctionOnSet, FoldFunctionOnSet, MapThenFoldSet

LEMMA LedgerFinite ==
  ASSUME NEW S
  PROVE  L!IsFiniteSet(S) <=> IsFiniteSet(S)
  BY DEF L!IsFiniteSet, IsFiniteSet

LEMMA EffectIsInt ==
  ASSUME NEW j \in Jobs, NEW a \in Accounts
  PROVE  L!Effect(j, a) \in Int
  BY Parameters DEF L!Effect

(***************************************************************************)
(* A posted row adds its effect to the sum of the effects.                 *)
(***************************************************************************)
LEMMA PostAddsEffect ==
  ASSUME L!Inv, NEW id \in Requests, NEW j \in Jobs, L!Post(id, j), NEW a \in Accounts
  PROVE  LET effect(rows) == [row \in rows |-> L!Effect(row.job, a)]
         IN  L!SumFunction(effect(transactions'))
               = L!SumFunction(effect(transactions)) + L!Effect(j, a)
  <1>. DEFINE new == [id |-> id, job |-> j]
              f == [row \in transactions |-> L!Effect(row.job, a)]
              g == [row \in transactions \cup {new} |-> L!Effect(row.job, a)]
  <1>1. transactions' = transactions \cup {new} /\ new \notin transactions
    BY DEF L!Post
  <1>2. \A row \in transactions : row.job \in Jobs
    BY DEF L!Inv, L!TypeOK, L!Row
  <1>3. IsFiniteSet(transactions)
    BY LedgerFinite DEF L!Inv, L!RowsAreSound
  <1>4. \A row \in transactions : f[row] \in Int /\ g[row] = f[row]
    BY <1>2, EffectIsInt
  <1>5. g[new] = L!Effect(j, a) /\ g[new] \in Int
    BY EffectIsInt
  <1>6. DOMAIN f = transactions /\ DOMAIN g = transactions \cup {new}
    OBVIOUS
  <1>. HIDE DEF new, f, g
  <1>7. SumFunctionOnSet(g, transactions \cup {new})
          = SumFunctionOnSet(g, transactions) + g[new]
    BY <1>1, <1>3, <1>4, <1>5, SumAdd
  <1>8. SumFunctionOnSet(f, transactions) = SumFunctionOnSet(g, transactions)
    BY <1>3, <1>4, SumSame
  <1>9. L!SumFunction(g) = L!SumFunction(f) + L!Effect(j, a)
    BY <1>5, <1>6, <1>7, <1>8, LedgerSum
  <1>10. QED
    BY <1>1, <1>9 DEF f, g

(***************************************************************************)
(* The abstract ledger keeps its books: every balance is explained by rows *)
(* that are sound, for any number of accounts and rows.                    *)
(***************************************************************************)
THEOREM LedgerIsExplained == L!Spec => []L!Inv
  <1>1. L!Init => L!Inv
    <2>. SUFFICES ASSUME L!Init PROVE L!Inv
      OBVIOUS
    <2>1. \A a \in Accounts : L!SumFunction([row \in transactions |-> L!Effect(row.job, a)]) = 0
      <3>. TAKE a \in Accounts
      <3>. DEFINE f == [row \in transactions |-> L!Effect(row.job, a)]
      <3>1. DOMAIN f = {}
        BY DEF L!Init
      <3>. HIDE DEF f
      <3>2. L!SumFunction(f) = 0
        BY <3>1, LedgerSum, SumEmpty
      <3>3. QED
        BY <3>2 DEF f
    <2>2. L!HistoryExplainsBalance
      BY <2>1, Parameters DEF L!Init, L!HistoryExplainsBalance
    <2>3. L!TypeOK /\ L!RowsAreSound
      BY Parameters, LedgerFinite, FS_EmptySet DEF L!Init, L!TypeOK, L!RowsAreSound
    <2>4. QED
      BY <2>2, <2>3 DEF L!Inv
  <1>2. L!Inv /\ [L!Next]_<<balance, transactions>> => L!Inv'
    <2>. SUFFICES ASSUME L!Inv, [L!Next]_<<balance, transactions>> PROVE L!Inv'
      OBVIOUS
    <2>1. CASE UNCHANGED <<balance, transactions>>
      BY <2>1 DEF L!Inv, L!TypeOK, L!RowsAreSound, L!HistoryExplainsBalance
    <2>2. ASSUME NEW id \in Requests, NEW j \in Jobs, L!Post(id, j)
          PROVE  L!Inv'
      <3>. DEFINE new == [id |-> id, job |-> j]
      <3>1. L!TypeOK'
        BY <2>2, Parameters DEF L!Post, L!Inv, L!TypeOK, L!Row
      <3>2. L!RowsAreSound'
        <4>1. transactions' = transactions \cup {new}
          BY <2>2 DEF L!Post
        <4>2. L!IsFiniteSet(transactions')
          BY <4>1, LedgerFinite, FS_AddElement DEF L!Inv, L!RowsAreSound
        <4>3. QED
          BY <2>2, <4>1, <4>2 DEF L!Post, L!Inv, L!RowsAreSound
      <3>3. L!HistoryExplainsBalance'
        <4>. SUFFICES ASSUME NEW a \in Accounts
                      PROVE  balance'[a] = Opening[a]
                        + L!SumFunction([row \in transactions' |-> L!Effect(row.job, a)])
          BY DEF L!HistoryExplainsBalance
        <4>. DEFINE old == L!SumFunction([row \in transactions |-> L!Effect(row.job, a)])
                    sum == L!SumFunction([row \in transactions' |-> L!Effect(row.job, a)])
        <4>1. sum = old + L!Effect(j, a)
          BY <2>2, PostAddsEffect
        <4>2. balance[a] = Opening[a] + old
          BY DEF L!Inv, L!HistoryExplainsBalance
        <4>3. balance'[a] = balance[a] + L!Effect(j, a)
          BY <2>2 DEF L!Post
        <4>4. balance[a] \in Int /\ Opening[a] \in Int /\ L!Effect(j, a) \in Int
          BY Parameters, EffectIsInt DEF L!Inv, L!TypeOK
        <4>5. old \in Int
          <5>. DEFINE f == [row \in transactions |-> L!Effect(row.job, a)]
          <5>1. \A row \in transactions : f[row] \in Int
            BY EffectIsInt DEF L!Inv, L!TypeOK, L!Row
          <5>2. DOMAIN f = transactions /\ IsFiniteSet(transactions)
            BY LedgerFinite DEF L!Inv, L!RowsAreSound
          <5>. HIDE DEF f
          <5>3. L!SumFunction(f) \in Int
            BY <5>1, <5>2, LedgerSum, SumType
          <5>4. QED
            BY <5>3 DEF f
        <4>. HIDE DEF old, sum
        <4>6. balance'[a] = Opening[a] + sum
          BY <4>1, <4>2, <4>3, <4>4, <4>5
        <4>7. QED
          BY <4>6 DEF sum
      <3>4. QED
        BY <3>1, <3>2, <3>3 DEF L!Inv
    <2>3. QED
      BY <2>1, <2>2 DEF L!Next
  <1>3. QED
    BY <1>1, <1>2, PTL DEF L!Spec

(***************************************************************************)
(* So do the three use cases, because they implement the ledger: at every  *)
(* instant of every interleaving, fault or crash each balance is the       *)
(* opening balance and what the committed rows have changed, and the rows  *)
(* are sound (DepositUseCase, WithdrawUseCase, TransferUseCase).           *)
(***************************************************************************)
THEOREM LedgerIsKept == Spec => []L!Inv
  BY MovementImplementsLedger, LedgerIsExplained, PTL DEF ImplementsLedger

THEOREM HistoryIsExplained == Spec => []HistoryExplainsBalance
  <1>1. L!Inv => HistoryExplainsBalance
    BY DEF L!Inv, HistoryExplainsBalance
  <1>2. QED
    BY <1>1, LedgerIsKept, PTL

-----------------------------------------------------------------------------
(* Conservation *)

LEMMA AccountsAreFinite == IsFiniteSet(Accounts)
  <1>1. IsFiniteSet(1..UserCount)
    BY Parameters, FS_Interval
  <1>2. QED
    BY <1>1, Parameters, FS_Subset DEF L!Users

LEMMA FromOutsideIsInt ==
  ASSUME NEW j \in Jobs
  PROVE  L!FromOutside(j) \in Int
  BY Parameters DEF L!FromOutside

(***************************************************************************)
(* Over all accounts, the two effects of a transfer cancel.                *)
(***************************************************************************)
LEMMA EffectsCancel ==
  ASSUME NEW j \in Jobs, L!Postable(j)
  PROVE  SumFunctionOnSet([a \in Accounts |-> L!Effect(j, a)], Accounts) = L!FromOutside(j)
  <1>. DEFINE e == [a \in Accounts |-> L!Effect(j, a)]
              moved == {L!Payer(j), L!Payee(j)} \cap Accounts
  <1>1. /\ j.type \in {"deposit", "withdraw", "transfer"}
        /\ j.amount \in Int /\ j.userId \in Accounts /\ 0 \notin Accounts
    BY Parameters DEF L!Postable
  <1>2. \A a \in Accounts : e[a] \in Int /\ (a \notin moved => e[a] = 0)
    BY EffectIsInt DEF L!Effect
  <1>3. SumFunctionOnSet(e, Accounts) = SumFunctionOnSet(e, moved)
    <2>. HIDE DEF e
    <2>1. QED
      BY <1>2, AccountsAreFinite, SumWithoutZeros
  <1>4. CASE j.type = "deposit"
    <2>1. moved = {j.userId} /\ L!Effect(j, j.userId) = j.amount
      BY <1>1, <1>4 DEF L!Payer, L!Payee, L!Nobody, L!Effect
    <2>2. SumFunctionOnSet(e, {j.userId}) = j.amount
      BY <1>1, <2>1, SumOfOne
    <2>3. QED
      BY <1>3, <1>4, <2>1, <2>2 DEF L!FromOutside
  <1>5. CASE j.type = "withdraw"
    <2>1. moved = {j.userId} /\ L!Effect(j, j.userId) = -j.amount
      BY <1>1, <1>5 DEF L!Payer, L!Payee, L!Nobody, L!Effect
    <2>2. SumFunctionOnSet(e, {j.userId}) = -j.amount
      BY <1>1, <2>1, SumOfOne
    <2>3. QED
      BY <1>3, <1>5, <2>1, <2>2 DEF L!FromOutside
  <1>6. CASE j.type = "transfer"
    <2>1. L!Payer(j) = j.userId /\ L!Payee(j) = j.recipientId
      BY <1>6 DEF L!Payer, L!Payee
    <2>2. j.recipientId \in Accounts /\ j.recipientId # j.userId
      BY <1>6 DEF L!Postable
    <2>3. moved = {j.userId, j.recipientId}
      BY <1>1, <2>1, <2>2
    <2>4. e[j.userId] = -j.amount /\ e[j.recipientId] = j.amount
      BY <1>1, <2>1, <2>2 DEF L!Effect
    <2>. HIDE DEF e, moved
    <2>5. SumFunctionOnSet(e, {j.userId, j.recipientId}) = e[j.userId] + e[j.recipientId]
      <3>1. e[j.userId] \in Int /\ e[j.recipientId] \in Int /\ j.userId # j.recipientId
        BY <1>1, <1>2, <2>2
      <3>2. QED
        BY <3>1, SumOfTwo
    <2>6. SumFunctionOnSet(e, Accounts) = 0
      BY <1>1, <1>3, <2>3, <2>4, <2>5
    <2>7. QED
      BY <1>6, <2>6 DEF L!FromOutside, e
  <1>7. QED
    BY <1>1, <1>4, <1>5, <1>6

LEMMA PostConserves ==
  ASSUME L!Inv, L!MoneyIsConserved, NEW id \in Requests, NEW j \in Jobs, L!Post(id, j)
  PROVE  L!MoneyIsConserved'
  <1>. DEFINE new    == [id |-> id, job |-> j]
              effect == [a \in Accounts |-> L!Effect(j, a)]
              before == [row \in transactions |-> L!FromOutside(row.job)]
              after  == [row \in transactions \cup {new} |-> L!FromOutside(row.job)]
              total  == SumFunctionOnSet(balance, Accounts)
  <1>1. /\ transactions' = transactions \cup {new} /\ new \notin transactions
        /\ balance' = [a \in Accounts |-> balance[a] + L!Effect(j, a)]
    BY DEF L!Post
  <1>2. /\ DOMAIN balance = Accounts /\ DOMAIN balance' = Accounts
        /\ \A a \in Accounts : /\ balance[a] \in Int /\ effect[a] \in Int
                               /\ balance'[a] = balance[a] + effect[a]
    BY <1>1, EffectIsInt, Parameters DEF L!Inv, L!TypeOK
  <1>3. /\ IsFiniteSet(transactions)
        /\ DOMAIN before = transactions /\ DOMAIN after = transactions \cup {new}
        /\ \A row \in transactions : before[row] \in Int /\ after[row] = before[row]
        /\ after[new] = L!FromOutside(j) /\ L!FromOutside(j) \in Int
    BY LedgerFinite, FromOutsideIsInt DEF L!Inv, L!TypeOK, L!RowsAreSound, L!Row
  <1>4. SumFunctionOnSet(effect, Accounts) = L!FromOutside(j)
    BY EffectsCancel DEF L!Post
  <1>5. total = L!SumFunction(Opening) + L!SumFunction(before)
    BY <1>2, LedgerSum DEF L!MoneyIsConserved
  <1>6. total \in Int
    BY <1>2, AccountsAreFinite, SumType
  <1>. HIDE DEF new, effect, before, after, total
  <1>7. SumFunctionOnSet(balance', Accounts) = total + L!FromOutside(j)
    BY <1>2, <1>4, AccountsAreFinite, SumPlus DEF total
  <1>8. SumFunctionOnSet(after, transactions \cup {new})
          = SumFunctionOnSet(before, transactions) + L!FromOutside(j)
    <2>1. SumFunctionOnSet(after, transactions \cup {new})
            = SumFunctionOnSet(after, transactions) + after[new]
      BY <1>1, <1>3, SumAdd
    <2>2. SumFunctionOnSet(after, transactions) = SumFunctionOnSet(before, transactions)
      BY <1>3, SumSame
    <2>3. QED
      BY <1>3, <2>1, <2>2
  <1>9. SumFunctionOnSet(before, transactions) \in Int /\ L!SumFunction(Opening) \in Int
    <2>1. DOMAIN Opening = Accounts /\ \A a \in Accounts : Opening[a] \in Int
      BY Parameters
    <2>2. QED
      BY <1>3, <2>1, AccountsAreFinite, LedgerSum, SumType
  <1>10. L!SumFunction(balance') = L!SumFunction(Opening) + L!SumFunction(after)
    BY <1>2, <1>3, <1>5, <1>6, <1>7, <1>8, <1>9, LedgerSum
  <1>11. QED
    BY <1>1, <1>10 DEF L!MoneyIsConserved, after, new

(***************************************************************************)
(* Whatever the interleaving, fault or crash, transfers neither create nor *)
(* destroy money: the accounts together hold what deposits brought in and  *)
(* withdrawals left (DepositUseCase, WithdrawUseCase, TransferUseCase).    *)
(***************************************************************************)
THEOREM MoneyIsNeverMade == Spec => []MoneyIsConserved
  <1>1. L!Init => L!MoneyIsConserved
    <2>. SUFFICES ASSUME L!Init PROVE L!MoneyIsConserved
      OBVIOUS
    <2>. DEFINE f == [row \in transactions |-> L!FromOutside(row.job)]
    <2>1. DOMAIN f = {} /\ balance = Opening
      BY DEF L!Init
    <2>2. DOMAIN Opening = Accounts /\ \A a \in Accounts : Opening[a] \in Int
      BY Parameters
    <2>. HIDE DEF f
    <2>3. L!SumFunction(f) = 0
      BY <2>1, LedgerSum, SumEmpty
    <2>4. L!SumFunction(Opening) \in Int
      BY <2>2, AccountsAreFinite, LedgerSum, SumType
    <2>5. QED
      BY <2>1, <2>3, <2>4 DEF f, L!MoneyIsConserved
  <1>2. L!Inv /\ L!MoneyIsConserved /\ [L!Next]_<<balance, transactions>>
          => L!MoneyIsConserved'
    BY PostConserves DEF L!Next, L!MoneyIsConserved
  <1>3. QED
    BY <1>1, <1>2, MovementImplementsLedger, LedgerIsExplained, PTL
    DEF ImplementsLedger, L!Spec, MoneyIsConserved
=============================================================================
