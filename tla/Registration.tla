---------------------------- MODULE Registration ----------------------------
(***************************************************************************)
(* POST /auth/register: RegisterUseCase with the repositories it calls.    *)
(*                                                                         *)
(* The use case runs both inserts in one unit of work, but                 *)
(* CachedUserRepository.create drops the transaction it is given: the row  *)
(* of users is committed at once, on a second connection of the pool,      *)
(* while the first one, with the transaction open, waits.                  *)
(***************************************************************************)
EXTENDS Naturals, FiniteSets

CONSTANTS Requests,  \* HTTP requests; the user a request creates has its id
          Emails,
          PoolMax    \* knex pool: connections the process may hold

ASSUME RegistrationAssumption == PoolMax \in Nat \ {0}

VARIABLES
  users,     \* committed rows of users
  accounts,  \* user_id of the committed rows of accounts
  sessions,  \* user_id of the committed rows of refresh_tokens
  email,     \* the e-mail each request asks for
  pc,        \* the statement each request runs next
  reply,     \* the HTTP answer of each request
  outbox     \* users whose welcome mail was handed to the publisher

tables == <<users, accounts, sessions>>
vars == <<users, accounts, sessions, email, pc, reply, outbox>>

InTransaction == {"insertUser", "insertAccount", "commit"}
Steps == {"idle", "find", "begin", "welcome", "session", "done"} \cup InTransaction

\* refused: 409.  error: 500.  lost: the process died before it answered.
Replies == {"none", "ok", "refused", "error", "lost"}

Init ==
  /\ users = {} /\ accounts = {} /\ sessions = {}
  /\ email \in [Requests -> Emails]
  /\ pc = [r \in Requests |-> "idle"]
  /\ reply = [r \in Requests |-> "none"]
  /\ outbox = {}

-----------------------------------------------------------------------------
InFlight(r) == pc[r] \notin {"idle", "done"}
FreeConnection == Cardinality({r \in Requests : pc[r] \in InTransaction}) < PoolMax
Taken(e) == \E u \in users : u.email = e

Goto(r, step) == pc' = [pc EXCEPT ![r] = step]

Answer(r, answer) ==
  /\ Goto(r, "done")
  /\ reply' = [reply EXCEPT ![r] = answer]

Receive(r) ==
  /\ pc[r] = "idle"
  /\ Goto(r, "find")
  /\ UNCHANGED <<tables, email, reply, outbox>>

FindByEmail(r) ==
  /\ pc[r] = "find"
  /\ FreeConnection
  /\ \/ Taken(email[r]) /\ Answer(r, "refused")
     \/ ~Taken(email[r]) /\ Goto(r, "begin") /\ UNCHANGED reply
  /\ UNCHANGED <<tables, email, outbox>>

Begin(r) ==
  /\ pc[r] = "begin"
  /\ FreeConnection
  /\ Goto(r, "insertUser")
  /\ UNCHANGED <<tables, email, reply, outbox>>

\* Mutant: users.email has no unique index.
InsertAnyUser(r) ==
  /\ pc[r] = "insertUser"
  /\ FreeConnection
  /\ users' = users \cup {[id |-> r, email |-> email[r]]}
  /\ Goto(r, "insertAccount")
  /\ UNCHANGED <<accounts, sessions, email, reply, outbox>>

\* On a connection of its own, committed by itself.
InsertUser(r) ==
  /\ pc[r] = "insertUser"
  /\ FreeConnection
  /\ \/ Taken(email[r]) /\ Answer(r, "error") /\ UNCHANGED users
     \/ /\ ~Taken(email[r])
        /\ users' = users \cup {[id |-> r, email |-> email[r]]}
        /\ Goto(r, "insertAccount")
        /\ UNCHANGED reply
  /\ UNCHANGED <<accounts, sessions, email, outbox>>

\* Mutant: the welcome mail is published inside the unit of work.
InsertAccountPublishing(r) ==
  /\ pc[r] = "insertAccount"
  /\ Goto(r, "commit")
  /\ outbox' = outbox \cup {r}
  /\ UNCHANGED <<tables, email, reply>>

\* On the connection of the transaction; the row stays uncommitted.
InsertAccount(r) ==
  /\ pc[r] = "insertAccount"
  /\ Goto(r, "commit")
  /\ UNCHANGED <<tables, email, reply, outbox>>

\* Mutant: the account is created for the e-mail instead of the id.
CommitWrongKey(r) ==
  /\ pc[r] = "commit"
  /\ accounts' = accounts \cup {email[r]}
  /\ Goto(r, "welcome")
  /\ UNCHANGED <<users, sessions, email, reply, outbox>>

Commit(r) ==
  /\ pc[r] = "commit"
  /\ accounts' = accounts \cup {r}
  /\ Goto(r, "welcome")
  /\ UNCHANGED <<users, sessions, email, reply, outbox>>

\* Handed over and not awaited; publish reports no error.
Welcome(r) ==
  /\ pc[r] = "welcome"
  /\ outbox' = outbox \cup {r}
  /\ Goto(r, "session")
  /\ UNCHANGED <<tables, email, reply>>

\* The row may be there although the connection broke.
CreateSession(r) ==
  /\ pc[r] = "session"
  /\ FreeConnection
  /\ sessions' = sessions \cup {r}
  /\ \E answer \in {"ok", "error"} : Answer(r, answer)
  /\ UNCHANGED <<users, accounts, email, outbox>>

-----------------------------------------------------------------------------
(* Failures: an open transaction is rolled back, committed rows stay *)

\* Mutant: requests queue for a connection without a time limit.
NeverTimeout(r) ==
  /\ pc[r] = "idle"
  /\ ~FreeConnection
  /\ Answer(r, "error")
  /\ UNCHANGED <<tables, email, outbox>>

\* knex gives up waiting for a pooled connection (acquireConnectionTimeout).
AcquireTimeout(r) ==
  /\ pc[r] \in {"find", "begin", "insertUser", "session"}
  /\ ~FreeConnection
  /\ Answer(r, "error")
  /\ UNCHANGED <<tables, email, outbox>>

\* A statement fails or its connection is lost.  After Commit, it is the
\* acknowledgement of the commit that is lost.
Fault(r) ==
  /\ InFlight(r)
  /\ Answer(r, "error")
  /\ UNCHANGED <<tables, email, outbox>>

Crash ==
  /\ \E r \in Requests : InFlight(r)
  /\ pc' = [r \in Requests |-> IF InFlight(r) THEN "done" ELSE pc[r]]
  /\ reply' = [r \in Requests |-> IF InFlight(r) THEN "lost" ELSE reply[r]]
  /\ UNCHANGED <<tables, email, outbox>>

-----------------------------------------------------------------------------
Step(r) ==
  \/ FindByEmail(r) \/ Begin(r)
  \/ InsertUser(r) \/ InsertAccount(r) \/ Commit(r)
  \/ Welcome(r) \/ CreateSession(r)
  \/ AcquireTimeout(r)

Next ==
  \/ \E r \in Requests : Receive(r) \/ Step(r) \/ Fault(r)
  \/ Crash

Spec == Init /\ [][Next]_vars

\* Statements are served and the acquire timer fires; faults owe nothing.
FairSpec == Spec /\ \A r \in Requests : WF_vars(Step(r))

-----------------------------------------------------------------------------
(* Properties *)

Registered(r) == [id |-> r, email |-> email[r]] \in users

\* Types.
TypeOK ==
  /\ users \subseteq [id : Requests, email : Emails]
  /\ accounts \subseteq Requests
  /\ sessions \subseteq Requests
  /\ email \in [Requests -> Emails]
  /\ pc \in [Requests -> Steps]
  /\ reply \in [Requests -> Replies]
  /\ outbox \subseteq Requests

(***************************************************************************)
(* Two registrations that both found the e-mail free cannot both create a  *)
(* user (RegisterUseCase.ts:34-39 checks before it inserts).               *)
(***************************************************************************)
OneUserPerEmail ==
  \A u, v \in users : u.email = v.email => u = v

(***************************************************************************)
(* 201 means a user, an account, a session and a welcome mail; 409 means   *)
(* the e-mail is somebody else's; nobody without an account is welcomed.   *)
(***************************************************************************)
AnswerMatchesTables ==
  /\ \A r \in Requests :
       /\ reply[r] = "ok" => /\ Registered(r)
                             /\ r \in accounts \cap sessions \cap outbox
       /\ reply[r] = "refused" => Taken(email[r]) /\ ~Registered(r)
  /\ outbox \cup sessions \subseteq accounts

\* What a request has written at each of its statements.
WorkMatchesProgress ==
  \A r \in Requests :
    /\ pc[r] \in {"insertAccount", "commit", "welcome", "session"} => Registered(r)
    /\ pc[r] \in {"welcome", "session"} => r \in accounts
    /\ pc[r] = "session" => r \in outbox
    /\ pc[r] # "done" => reply[r] = "none"

\* Rows of users belong to requests that have inserted them.
RowsMatchProgress ==
  \A u \in users :
    /\ u.email = email[u.id]
    /\ pc[u.id] \notin {"idle", "find", "begin", "insertUser"}

\* The inductive invariant of RegistrationProofs.
Inv ==
  /\ TypeOK
  /\ WorkMatchesProgress
  /\ RowsMatchProgress
  /\ OneUserPerEmail
  /\ AnswerMatchesTables

(***************************************************************************)
(* A user exists with its account or not at all, once its registration is  *)
(* over: both rows are written in one unit of work (RegisterUseCase.ts:    *)
(* 50-54), and the other use cases log "Account not found for existing     *)
(* user" as an error (DepositUseCase.ts:34).                               *)
(***************************************************************************)
EveryUserHasAccount ==
  \A u \in users : ~InFlight(u.id) => u.id \in accounts

(***************************************************************************)
(* Every registration is answered (or its process dies), even when every   *)
(* pooled connection belongs to a registration waiting for a second one.   *)
(***************************************************************************)
EveryRegistrationAnswered ==
  \A r \in Requests : pc[r] = "find" ~> pc[r] = "done"
=============================================================================
