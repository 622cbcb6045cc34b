------------------------------ MODULE Sessions ------------------------------
(***************************************************************************)
(* Refresh tokens: login, refresh, logout, deactivation and reactivation   *)
(* (LoginUseCase, RefreshTokenUseCase, LogoutUseCase,                      *)
(* DeactivateAccountUseCase, ReactivateAccountUseCase) with the nightly    *)
(* clean-up, over the tables refresh_tokens and users.is_active.           *)
(*                                                                         *)
(* None of them opens a transaction: each statement commits by itself, and *)
(* between two statements of one request any other request may run.        *)
(***************************************************************************)
EXTENDS FiniteSets

CONSTANTS Requests,  \* HTTP requests; the token a request issues has its id
          Users,
          Seeds,     \* tokens issued before the model starts
          Nobody

ASSUME SessionsAssumption ==
  /\ Seeds \cap Requests = {}
  /\ Nobody \notin Users

VARIABLES
  sessions,  \* rows of refresh_tokens
  expired,   \* tokens whose expires_at has passed
  active,    \* users whose is_active is true
  job,       \* what each request asks for
  pc,        \* the statement each request runs next
  found,     \* user_id of the row a refresh has read
  reply,     \* the HTTP answer of each request
  before     \* the requests that were over when each request was received

vars == <<sessions, expired, active, job, pc, found, reply, before>>

Tokens == Seeds \cup Requests
Row == [token : Tokens, user : Users]

\* A login or a reactivation carries the user's right credentials.
Job == [op : {"login", "deactivate", "reactivate"}, user : Users]
         \cup [op : {"refresh", "logout"}, token : Tokens]

Steps == {"idle", "find", "delete", "create", "blacklist", "deleteAll",
          "setInactive", "setActive", "uncache", "done"}

\* refused: 401, 403, 404 or 409.  error: 500.  lost: the process died.
Replies == {"none", "ok", "refused", "error", "lost"}

Presents(r, t) == job[r].op \in {"refresh", "logout"} /\ job[r].token = t
Asks(r, op, u) == job[r].op = op /\ job[r].user = u
Issues(r)      == job[r].op \in {"login", "reactivate", "refresh"}
Subject(r)     == IF job[r].op = "refresh" THEN found[r] ELSE job[r].user

Init ==
  /\ active \in SUBSET Users
  /\ \E owner \in [Seeds -> active] :
       sessions = {[token |-> t, user |-> owner[t]] : t \in Seeds}
  /\ expired = {}
  /\ job \in [Requests -> Job]
  /\ pc = [r \in Requests |-> "idle"]
  /\ found = [r \in Requests |-> Nobody]
  /\ reply = [r \in Requests |-> "none"]
  /\ before = [r \in Requests |-> {}]

-----------------------------------------------------------------------------
InFlight(r) == pc[r] \notin {"idle", "done"}
Goto(r, step) == pc' = [pc EXCEPT ![r] = step]

Answer(r, answer) ==
  /\ Goto(r, "done")
  /\ reply' = [reply EXCEPT ![r] = answer]

RowsWithToken(t) == {s \in sessions : s.token = t}
RowsOfUser(u)    == {s \in sessions : s.user = u}

\* A client presents a token it was handed; logout has nothing to look up.
Receive(r) ==
  /\ pc[r] = "idle"
  /\ \A s \in Requests : Presents(r, s) => reply[s] = "ok"
  /\ Goto(r, IF job[r].op = "logout" THEN "delete" ELSE "find")
  /\ before' = [before EXCEPT ![r] = {s \in Requests : pc[s] = "done"}]
  /\ UNCHANGED <<sessions, expired, active, job, found, reply>>

\* Mutant: login does not look at is_active.
LoginAnybody(r) ==
  /\ pc[r] = "find" /\ job[r].op = "login"
  /\ Goto(r, "create")
  /\ UNCHANGED <<sessions, expired, active, job, found, reply, before>>

\* findByEmail is never cached.
LoginFind(r) ==
  /\ pc[r] = "find" /\ job[r].op = "login"
  /\ \/ job[r].user \in active /\ Goto(r, "create") /\ UNCHANGED reply
     \/ job[r].user \notin active /\ Answer(r, "refused")
  /\ UNCHANGED <<sessions, expired, active, job, found, before>>

ReactivateFind(r) ==
  /\ pc[r] = "find" /\ job[r].op = "reactivate"
  /\ \/ job[r].user \notin active /\ Goto(r, "setActive") /\ UNCHANGED reply
     \/ job[r].user \in active /\ Answer(r, "refused")
  /\ UNCHANGED <<sessions, expired, active, job, found, before>>

\* findById goes through the cache, whose copy may outlive a deactivation.
DeactivateFind(r) ==
  /\ pc[r] = "find" /\ job[r].op = "deactivate"
  /\ \/ Goto(r, "deleteAll") /\ UNCHANGED reply
     \/ job[r].user \notin active /\ Answer(r, "refused")
  /\ UNCHANGED <<sessions, expired, active, job, found, before>>

\* Mutant: the row's user_id is not read.
RefreshForgetsUser(r) ==
  /\ pc[r] = "find" /\ job[r].op = "refresh"
  /\ RowsWithToken(job[r].token) # {}
  /\ Goto(r, "delete")
  /\ UNCHANGED <<sessions, expired, active, job, found, reply, before>>

RefreshFind(r) ==
  /\ pc[r] = "find" /\ job[r].op = "refresh"
  /\ \/ /\ \/ RowsWithToken(job[r].token) = {}
           \/ job[r].token \in expired
        /\ Answer(r, "refused")
        /\ UNCHANGED found
     \/ /\ job[r].token \notin expired
        /\ \E s \in RowsWithToken(job[r].token) :
             found' = [found EXCEPT ![r] = s.user]
        /\ Goto(r, "delete")
        /\ UNCHANGED reply
  /\ UNCHANGED <<sessions, expired, active, job, before>>

\* Deletes whatever is there, one row or none.
DeleteToken(r) ==
  /\ pc[r] = "delete"
  /\ sessions' = sessions \ RowsWithToken(job[r].token)
  /\ Goto(r, IF job[r].op = "refresh" THEN "create" ELSE "blacklist")
  /\ UNCHANGED <<expired, active, job, found, reply, before>>

\* Redis, see tokenBlacklistService.
Blacklist(r) ==
  /\ pc[r] = "blacklist"
  /\ Answer(r, "ok")
  /\ UNCHANGED <<sessions, expired, active, job, found, before>>

\* Mutant: a refresh prolongs the token it was shown.
CreateProlonging(r) ==
  /\ pc[r] = "create"
  /\ sessions' = sessions \cup
       {[token |-> IF job[r].op = "refresh" THEN job[r].token ELSE r,
         user  |-> Subject(r)]}
  /\ Answer(r, "ok")
  /\ UNCHANGED <<expired, active, job, found, before>>

\* The row may be there although the connection broke: then nobody learns r.
Create(r) ==
  /\ pc[r] = "create"
  /\ sessions' = sessions \cup {[token |-> r, user |-> Subject(r)]}
  /\ \E answer \in {"ok", "error"} : Answer(r, answer)
  /\ UNCHANGED <<expired, active, job, found, before>>

\* Mutant: deletes the expired sessions of the user only.
DeleteAllExpired(r) ==
  /\ pc[r] = "deleteAll"
  /\ sessions' = sessions \ {s \in RowsOfUser(job[r].user) : s.token \in expired}
  /\ Goto(r, "setInactive")
  /\ UNCHANGED <<expired, active, job, found, reply, before>>

DeleteAll(r) ==
  /\ pc[r] = "deleteAll"
  /\ sessions' = sessions \ RowsOfUser(job[r].user)
  /\ Goto(r, "setInactive")
  /\ UNCHANGED <<expired, active, job, found, reply, before>>

SetInactive(r) ==
  /\ pc[r] = "setInactive"
  /\ active' = active \ {job[r].user}
  /\ Goto(r, "uncache")
  /\ UNCHANGED <<sessions, expired, job, found, reply, before>>

SetActive(r) ==
  /\ pc[r] = "setActive"
  /\ active' = active \cup {job[r].user}
  /\ Goto(r, "uncache")
  /\ UNCHANGED <<sessions, expired, job, found, reply, before>>

\* The user's entry is dropped from Redis.
Uncache(r) ==
  /\ pc[r] = "uncache"
  /\ \/ job[r].op = "deactivate" /\ Answer(r, "ok")
     \/ job[r].op = "reactivate" /\ Goto(r, "create") /\ UNCHANGED reply
  /\ UNCHANGED <<sessions, expired, active, job, found, before>>

-----------------------------------------------------------------------------
(* Time, the clean-up job and failures *)

Expire(s) ==
  /\ s.token \notin expired
  /\ expired' = expired \cup {s.token}
  /\ UNCHANGED <<sessions, active, job, pc, found, reply, before>>

\* Mutant: the comparison of deleteExpired is turned round.
CleanupLive ==
  /\ \E s \in sessions : s.token \notin expired
  /\ sessions' = {s \in sessions : s.token \in expired}
  /\ UNCHANGED <<expired, active, job, pc, found, reply, before>>

Cleanup ==
  /\ \E s \in sessions : s.token \in expired
  /\ sessions' = {s \in sessions : s.token \notin expired}
  /\ UNCHANGED <<expired, active, job, pc, found, reply, before>>

\* A statement, or the Redis call, fails: what was written stays written.
\* After a step, it is that step's own acknowledgement that is lost.
Fault(r) ==
  /\ InFlight(r)
  /\ Answer(r, "error")
  /\ UNCHANGED <<sessions, expired, active, job, found, before>>

Crash ==
  /\ \E r \in Requests : InFlight(r)
  /\ pc' = [r \in Requests |-> IF InFlight(r) THEN "done" ELSE pc[r]]
  /\ reply' = [r \in Requests |-> IF InFlight(r) THEN "lost" ELSE reply[r]]
  /\ UNCHANGED <<sessions, expired, active, job, found, before>>

-----------------------------------------------------------------------------
Step(r) ==
  \/ LoginFind(r) \/ ReactivateFind(r) \/ DeactivateFind(r) \/ RefreshFind(r)
  \/ DeleteToken(r) \/ Blacklist(r) \/ Create(r)
  \/ DeleteAll(r) \/ SetInactive(r) \/ SetActive(r) \/ Uncache(r)

Next ==
  \/ \E r \in Requests : Receive(r) \/ Step(r) \/ Fault(r)
  \/ \E s \in sessions : Expire(s)
  \/ Cleanup
  \/ Crash

Spec == Init /\ [][Next]_vars

-----------------------------------------------------------------------------
(* Properties *)

Succeeded(r) == reply[r] = "ok"

\* Types; a token is in the table once, for one user (its hash is unique).
TypeOK ==
  /\ sessions \subseteq Row
  /\ \A s, t \in sessions : s.token = t.token => s = t
  /\ expired \subseteq Tokens
  /\ active \subseteq Users
  /\ job \in [Requests -> Job]
  /\ pc \in [Requests -> Steps]
  /\ found \in [Requests -> Users \cup {Nobody}]
  /\ reply \in [Requests -> Replies]
  /\ before \in [Requests -> SUBSET Requests]

(***************************************************************************)
(* A token that was rotated or logged out, with the answer given, is       *)
(* refused to every refresh received afterwards (RefreshTokenUseCase.ts:   *)
(* 16-28, LogoutUseCase.ts:18), whatever other requests do in between.     *)
(***************************************************************************)
ReplayIsRefused ==
  \A r, s \in Requests :
    (/\ Succeeded(r) /\ r \in before[s]
     /\ job[s].op = "refresh" /\ Presents(r, job[s].token)) => ~Succeeded(s)

(***************************************************************************)
(* Once a deactivation is answered, no session handed out before it was    *)
(* received is left, and no refresh received from then on gets a new one   *)
(* for it, although refreshes never look at is_active and other requests   *)
(* of the user are half way (DeactivateAccountUseCase.ts:25,               *)
(* RefreshTokenUseCase.ts:16-31).                                          *)
(***************************************************************************)
DeactivationEndsSessions ==
  \A r \in Requests : Succeeded(r) =>
    /\ \A s \in sessions :
         Asks(r, "deactivate", s.user) => s.token \notin Seeds \cup before[r]
    /\ \A s \in Requests :
         (/\ r \in before[s] /\ Succeeded(s)
          /\ job[s].op = "refresh" /\ Asks(r, "deactivate", found[s]))
         => job[s].token \notin Seeds \cup before[r]

(***************************************************************************)
(* A login received after a deactivation was answered is refused, unless   *)
(* the user was reactivated meanwhile (LoginUseCase.ts:30).                *)
(***************************************************************************)
DeactivatedCannotLogin ==
  \A r, s \in Requests :
    (/\ Succeeded(r) /\ r \in before[s]
     /\ job[s].op = "login" /\ Asks(r, "deactivate", job[s].user)
     /\ Succeeded(s))
    => \E q \in Requests \ before[r] : Asks(q, "reactivate", job[s].user)

(***************************************************************************)
(* A session that was handed out is gone only if it expired, if somebody   *)
(* presented it, or if its user was deactivated later; neither another     *)
(* user's requests nor the clean-up ends it.                               *)
(***************************************************************************)
SessionsLast ==
  \A s \in Requests :
    Succeeded(s) /\ Issues(s) /\ RowsWithToken(s) = {}
      => \/ s \in expired
         \/ \E r \in Requests \ before[s] :
              /\ pc[r] # "idle"
              /\ Presents(r, s) \/ Asks(r, "deactivate", Subject(s))

(***************************************************************************)
(* "JWT authentication with refresh token rotation" (README.md:35): a      *)
(* refresh exchanges the presented token for a new one, so a token is      *)
(* exchanged at most once.                                                 *)
(***************************************************************************)
RotationIsSingleUse ==
  \A r, s \in Requests :
    (/\ job[r].op = "refresh" /\ job[s].op = "refresh"
     /\ job[r].token = job[s].token
     /\ Succeeded(r) /\ Succeeded(s)) => r = s

-----------------------------------------------------------------------------
(* The inductive invariant of SessionsProofs *)

\* What a request has been through on its way to its next statement.
WorkMatchesProgress ==
  \A r \in Requests :
    /\ pc[r] # "done" => reply[r] = "none"
    /\ pc[r] \in {"delete", "blacklist"} => job[r].op \in {"refresh", "logout"}
    /\ pc[r] = "create" => Issues(r)
    /\ pc[r] \in {"deleteAll", "setInactive"} => job[r].op = "deactivate"
    /\ pc[r] = "setActive" => job[r].op = "reactivate"
    /\ pc[r] = "blacklist" => job[r].op = "logout"
    /\ pc[r] \in {"delete", "create"} /\ job[r].op = "refresh" => found[r] \in Users

HistoryIsPast ==
  \A r, s \in Requests :
    /\ r \in before[s] => pc[r] = "done" /\ pc[s] # "idle"
    /\ Presents(r, s) /\ pc[r] # "idle" => reply[s] = "ok"

RowsMatchProgress ==
  \A s \in sessions :
    s.token \in Requests =>
      /\ pc[s.token] = "done" /\ Issues(s.token)
      /\ s.user = Subject(s.token)

\* From its delete on, the token a request presented is not in the table,
Spent(r) == Succeeded(r) \/ pc[r] \in {"create", "blacklist"}
SpentTokensAreGone ==
  \A r \in Requests, s \in sessions : Spent(r) => ~Presents(r, s.token)

\* so that no refresh received later gets past its look-up.
ReplaysStop ==
  \A r, s \in Requests :
    (/\ Succeeded(r) /\ r \in before[s]
     /\ job[s].op = "refresh" /\ Presents(r, job[s].token))
    => pc[s] \notin {"delete", "create"} /\ ~Succeeded(s)

\* From its delete on, a deactivation has ended the sessions before it,
OldSessionsAreGone ==
  \A r \in Requests, s \in sessions :
    (/\ Succeeded(r) \/ pc[r] \in {"setInactive", "uncache"}
     /\ Asks(r, "deactivate", s.user)) => s.token \notin Seeds \cup before[r]

\* so that no refresh received later gets past its look-up with one of them;
OldRefreshesStop ==
  \A r, s \in Requests :
    (/\ Succeeded(r) /\ r \in before[s]
     /\ job[s].op = "refresh" /\ Asks(r, "deactivate", found[s])
     /\ Succeeded(s) \/ pc[s] \in {"delete", "create"})
    => job[s].token \notin Seeds \cup before[r]

\* and from its update on, only a reactivation makes the user active again.
Reactivated(r, u) ==
  \E q \in Requests \ before[r] : Asks(q, "reactivate", u) /\ pc[q] # "idle"
DeactivationHolds ==
  \A r \in Requests, u \in Users :
    (/\ Succeeded(r) \/ pc[r] = "uncache"
     /\ Asks(r, "deactivate", u)) => u \notin active \/ Reactivated(r, u)
LoginsStop ==
  \A r, s \in Requests :
    (/\ Succeeded(r) /\ r \in before[s]
     /\ job[s].op = "login" /\ Asks(r, "deactivate", job[s].user)
     /\ Succeeded(s) \/ pc[s] = "create") => Reactivated(r, job[s].user)

Inv ==
  /\ TypeOK
  /\ WorkMatchesProgress
  /\ HistoryIsPast
  /\ RowsMatchProgress
  /\ SpentTokensAreGone
  /\ ReplaysStop
  /\ OldSessionsAreGone
  /\ OldRefreshesStop
  /\ DeactivationHolds
  /\ LoginsStop
  /\ SessionsLast
=============================================================================
