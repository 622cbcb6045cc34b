------------------------- MODULE RegistrationProofs -------------------------
(***************************************************************************)
(* Safety of Registration for any number of requests, e-mails and          *)
(* connections.  OneUserPerEmail and AnswerMatchesTables are not inductive *)
(* by themselves: that a refused request has no user needs to know that    *)
(* rows belong to requests past their insert (RowsMatchProgress), and that *)
(* a 201 has all its rows needs what each statement has left behind        *)
(* (WorkMatchesProgress).                                                  *)
(***************************************************************************)
EXTENDS Registration, TLAPS

(***************************************************************************)
(* The empty tables satisfy the invariant.                                 *)
(***************************************************************************)
THEOREM InitInv == Init => Inv
  BY DEF Init, Inv, TypeOK, WorkMatchesProgress, RowsMatchProgress,
         OneUserPerEmail, AnswerMatchesTables, Registered, Taken, Steps,
         InTransaction, Replies

(***************************************************************************)
(* Requests that only move on, or are answered, with the tables untouched: *)
(* every action but the two inserts that commit, Commit and Welcome.       *)
(***************************************************************************)
LEMMA AnswerInv ==
  ASSUME Inv, NEW r \in Requests, NEW answer \in {"error", "lost"},
         pc[r] # "done", Answer(r, answer),
         UNCHANGED <<tables, email, outbox>>
  PROVE  Inv'
  BY DEF Inv, Answer, Goto, tables, TypeOK, WorkMatchesProgress,
         RowsMatchProgress, OneUserPerEmail, AnswerMatchesTables, Registered,
         Taken, Steps, InTransaction, Replies

(***************************************************************************)
(* Each statement of a registration, each fault and a crash preserve the   *)
(* invariant.                                                              *)
(***************************************************************************)
THEOREM NextInv == Inv /\ [Next]_vars => Inv'
  <1>1. SUFFICES ASSUME Inv, [Next]_vars PROVE Inv'
    OBVIOUS
  <1>2. CASE UNCHANGED vars
    BY <1>1, <1>2 DEF vars, Inv, TypeOK, WorkMatchesProgress,
       RowsMatchProgress, OneUserPerEmail, AnswerMatchesTables, Registered, Taken
  <1>3. ASSUME NEW r \in Requests, Receive(r) PROVE Inv'
    BY <1>1, <1>3 DEF Receive, Goto, tables, Inv, TypeOK, WorkMatchesProgress,
       RowsMatchProgress, OneUserPerEmail, AnswerMatchesTables, Registered,
       Taken, Steps, InTransaction, Replies
  <1>4. ASSUME NEW r \in Requests, FindByEmail(r) PROVE Inv'
    BY <1>1, <1>4 DEF FindByEmail, Answer, Goto, tables, Inv, TypeOK,
       WorkMatchesProgress, RowsMatchProgress, OneUserPerEmail,
       AnswerMatchesTables, Registered, Taken, Steps, InTransaction, Replies
  <1>5. ASSUME NEW r \in Requests, Begin(r) PROVE Inv'
    BY <1>1, <1>5 DEF Begin, Goto, tables, Inv, TypeOK, WorkMatchesProgress,
       RowsMatchProgress, OneUserPerEmail, AnswerMatchesTables, Registered,
       Taken, Steps, InTransaction, Replies
  <1>6. ASSUME NEW r \in Requests, InsertUser(r) PROVE Inv'
    <2>1. CASE Taken(email[r]) /\ Answer(r, "error") /\ UNCHANGED users
      BY <1>1, <1>6, <2>1, AnswerInv DEF InsertUser, tables
    <2>2. CASE /\ ~Taken(email[r])
               /\ users' = users \cup {[id |-> r, email |-> email[r]]}
               /\ Goto(r, "insertAccount")
               /\ UNCHANGED reply
      BY <1>1, <1>6, <2>2 DEF InsertUser, Goto, Inv, TypeOK,
         WorkMatchesProgress, RowsMatchProgress, OneUserPerEmail,
         AnswerMatchesTables, Registered, Taken, Steps, InTransaction, Replies
    <2>3. QED
      BY <1>6, <2>1, <2>2 DEF InsertUser
  <1>7. ASSUME NEW r \in Requests, InsertAccount(r) PROVE Inv'
    BY <1>1, <1>7 DEF InsertAccount, Goto, tables, Inv, TypeOK,
       WorkMatchesProgress, RowsMatchProgress, OneUserPerEmail,
       AnswerMatchesTables, Registered, Taken, Steps, InTransaction, Replies
  <1>8. ASSUME NEW r \in Requests, Commit(r) PROVE Inv'
    BY <1>1, <1>8 DEF Commit, Goto, Inv, TypeOK, WorkMatchesProgress,
       RowsMatchProgress, OneUserPerEmail, AnswerMatchesTables, Registered,
       Taken, Steps, InTransaction, Replies
  <1>9. ASSUME NEW r \in Requests, Welcome(r) PROVE Inv'
    BY <1>1, <1>9 DEF Welcome, Goto, tables, Inv, TypeOK, WorkMatchesProgress,
       RowsMatchProgress, OneUserPerEmail, AnswerMatchesTables, Registered,
       Taken, Steps, InTransaction, Replies
  <1>10. ASSUME NEW r \in Requests, CreateSession(r) PROVE Inv'
    <2>1. PICK answer \in {"ok", "error"} : Answer(r, answer)
      BY <1>10 DEF CreateSession
    <2>2. /\ pc[r] = "session"
          /\ sessions' = sessions \cup {r}
          /\ UNCHANGED <<users, accounts, email, outbox>>
      BY <1>10 DEF CreateSession
    <2>3. /\ pc' = [pc EXCEPT ![r] = "done"]
          /\ reply' = [reply EXCEPT ![r] = answer]
      BY <2>1 DEF Answer, Goto
    <2>4. TypeOK'
      BY <1>1, <1>10, <2>2, <2>3 DEF Inv, TypeOK, Steps, InTransaction, Replies
    <2>5. (WorkMatchesProgress /\ RowsMatchProgress /\ OneUserPerEmail)'
      BY <1>1, <1>10, <2>2, <2>3 DEF Inv, TypeOK, WorkMatchesProgress,
         RowsMatchProgress, OneUserPerEmail, Registered
    <2>6. AnswerMatchesTables'
      BY <1>1, <1>10, <2>2, <2>3 DEF Inv, TypeOK, WorkMatchesProgress,
         AnswerMatchesTables, Registered, Taken
    <2>7. QED
      BY <2>4, <2>5, <2>6 DEF Inv
  <1>11. ASSUME NEW r \in Requests, AcquireTimeout(r) \/ Fault(r) PROVE Inv'
    BY <1>1, <1>11, AnswerInv DEF AcquireTimeout, Fault, InFlight
  <1>12. CASE Crash
    BY <1>1, <1>12 DEF Crash, InFlight, tables, Inv, TypeOK,
       WorkMatchesProgress, RowsMatchProgress, OneUserPerEmail,
       AnswerMatchesTables, Registered, Taken, Steps, InTransaction, Replies
  <1>13. QED
    BY <1>1, <1>2, <1>3, <1>4, <1>5, <1>6, <1>7, <1>8, <1>9, <1>10, <1>11,
       <1>12 DEF Next, Step

(***************************************************************************)
(* The invariant holds in every state of every behaviour.                  *)
(***************************************************************************)
THEOREM AlwaysInv == Spec => []Inv
  BY InitInv, NextInv, PTL DEF Spec

(***************************************************************************)
(* Rows, sessions and mails belong to requests, and requests are where the *)
(* handler can be (RegisterUseCase.execute).                               *)
(***************************************************************************)
THEOREM TypeCorrect == Spec => []TypeOK
  <1>1. Inv => TypeOK
    BY DEF Inv
  <1>2. QED
    BY AlwaysInv, <1>1, PTL

(***************************************************************************)
(* Two registrations that found one e-mail free never both create a user   *)
(* (RegisterUseCase.execute).                                              *)
(***************************************************************************)
THEOREM EmailsAreUnique == Spec => []OneUserPerEmail
  <1>1. Inv => OneUserPerEmail
    BY DEF Inv
  <1>2. QED
    BY AlwaysInv, <1>1, PTL

(***************************************************************************)
(* 201 and 409 say what the tables say, and nobody without an account is   *)
(* welcomed (RegisterUseCase.execute).                                     *)
(***************************************************************************)
THEOREM AnswersAreTrue == Spec => []AnswerMatchesTables
  <1>1. Inv => AnswerMatchesTables
    BY DEF Inv
  <1>2. QED
    BY AlwaysInv, <1>1, PTL
=============================================================================
