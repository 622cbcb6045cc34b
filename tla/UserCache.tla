------------------------------ MODULE UserCache ------------------------------
(***************************************************************************)
(* CachedUserRepository in front of UserRepository, with the handlers that *)
(* go through it: GET and PATCH /user/profile (GetProfileUseCase,          *)
(* UpdateProfileUseCase), DELETE /user/account and POST /auth/reactivate.  *)
(*                                                                         *)
(* Cache-aside: a read that misses selects the row and then writes the     *)
(* copy, a writer updates the row and then deletes the copy; nothing makes *)
(* the two steps of either atomic.  Names are written like e-mails, with   *)
(* no check, and are left out; refresh tokens are in Sessions.              *)
(***************************************************************************)
EXTENDS Naturals

CONSTANTS Requests, Users, Emails, Phones,
          Jobs,     \* what the clients ask for
          Null,     \* phone: null
          Absent,   \* a field the body of a PATCH does not have
          Nothing   \* no entry in Redis, no user found

Job == [op : {"get", "deactivate", "reactivate"}, user : Users]
         \cup [op : {"patch"}, user : Users, email : Emails \cup {Absent},
               phone : Phones \cup {Null, Absent}]

ASSUME UserCacheAssumption ==
  /\ Jobs \subseteq Job
  /\ Absent \notin Emails /\ Absent \notin Phones \cup {Null}

VARIABLES
  users,   \* rows of users; rev counts the writes to a row
  cache,   \* Redis entry user:<id>, a copy without is_active
  job,     \* what each request asks for
  pc,      \* the call each request makes next
  found,   \* what findById has given each request
  wrote,   \* rev of the row as each request has left it
  reply,   \* the HTTP answer of each request
  before   \* the requests that were over when each request was received

vars == <<users, cache, job, pc, found, wrote, reply, before>>

Row  == [email : Emails, phone : Phones \cup {Null}, active : BOOLEAN, rev : Nat]
Copy == [email : Emails, phone : Phones \cup {Null}, rev : Nat]

Steps == {"idle", "get", "select", "set", "decide", "checkEmail",
          "findInactive", "write", "delete", "done"}

\* notFound: 404.  refused: 409.  error: 500.  lost: the process died.
Replies == {"none", "ok", "notFound", "refused", "error", "lost"}

CopyOf(row) == [email |-> row.email, phone |-> row.phone, rev |-> row.rev]
Owns(u, e)  == users[u].email = e

\* Rows as registration leaves them.
Init ==
  /\ users \in [Users -> [email : Emails, phone : Phones \cup {Null},
                          active : {TRUE}, rev : {0}]]
  /\ \A u, v \in Users : users[u].email = users[v].email => u = v
  /\ cache = [u \in Users |-> Nothing]
  /\ job \in [Requests -> Jobs]
  /\ pc = [r \in Requests |-> "idle"]
  /\ found = [r \in Requests |-> Nothing]
  /\ wrote = [r \in Requests |-> 0]
  /\ reply = [r \in Requests |-> "none"]
  /\ before = [r \in Requests |-> {}]

-----------------------------------------------------------------------------
User(r) == job[r].user
InFlight(r) == pc[r] \notin {"idle", "done"}
Goto(r, step) == pc' = [pc EXCEPT ![r] = step]

Answer(r, answer) ==
  /\ Goto(r, "done")
  /\ reply' = [reply EXCEPT ![r] = answer]

Receive(r) ==
  /\ pc[r] = "idle"
  /\ Goto(r, IF job[r].op = "reactivate" THEN "findInactive" ELSE "get")
  /\ before' = [before EXCEPT ![r] = {q \in Requests : pc[q] = "done"}]
  /\ UNCHANGED <<users, cache, job, found, wrote, reply>>

-----------------------------------------------------------------------------
(* findById *)

CacheGet(r) ==
  /\ pc[r] = "get"
  /\ found' = [found EXCEPT ![r] = cache[User(r)]]
  /\ Goto(r, IF cache[User(r)] = Nothing THEN "select" ELSE "decide")
  /\ UNCHANGED <<users, cache, job, wrote, reply, before>>

\* Only active users are found, and "nobody" is not cached.
Select(r) ==
  /\ pc[r] = "select"
  /\ \/ /\ users[User(r)].active
        /\ found' = [found EXCEPT ![r] = CopyOf(users[User(r)])]
        /\ Goto(r, "set")
        /\ UNCHANGED reply
     \/ ~users[User(r)].active /\ Answer(r, "notFound") /\ UNCHANGED found
  /\ UNCHANGED <<users, cache, job, wrote, before>>

CacheSet(r) ==
  /\ pc[r] = "set"
  /\ cache' = [cache EXCEPT ![User(r)] = found[r]]
  /\ Goto(r, "decide")
  /\ UNCHANGED <<users, job, found, wrote, reply, before>>

-----------------------------------------------------------------------------
(* The handlers *)

\* A PATCH looks for conflicts when the e-mail differs from the one found.
NewEmail(r) ==
  /\ job[r].op = "patch"
  /\ job[r].email # Absent
  /\ job[r].email # found[r].email

Decide(r) ==
  /\ pc[r] = "decide"
  /\ \/ job[r].op = "get" /\ Answer(r, "ok")
     \/ job[r].op # "get" /\ NewEmail(r) /\ Goto(r, "checkEmail") /\ UNCHANGED reply
     \/ job[r].op # "get" /\ ~NewEmail(r) /\ Goto(r, "write") /\ UNCHANGED reply
  /\ UNCHANGED <<users, cache, job, found, wrote, before>>

CheckEmail(r) ==
  /\ pc[r] = "checkEmail"
  /\ \/ (\E u \in Users : Owns(u, job[r].email)) /\ Answer(r, "refused")
     \/ /\ ~\E u \in Users : Owns(u, job[r].email)
        /\ Goto(r, "write")
        /\ UNCHANGED reply
  /\ UNCHANGED <<users, cache, job, found, wrote, before>>

\* findByEmail and the is_active check of a reactivation, with an e-mail and
\* a password that are the user's.
FindInactive(r) ==
  /\ pc[r] = "findInactive"
  /\ \/ users[User(r)].active /\ Answer(r, "refused")
     \/ ~users[User(r)].active /\ Goto(r, "write") /\ UNCHANGED reply
  /\ UNCHANGED <<users, cache, job, found, wrote, before>>

\* Mutant: the field the body lacks is stored as it is.
PhoneAsGiven(j) == j.phone

\* phoneSchema.default(null): a body without a phone has the phone null.
PhoneOf(j) == IF j.phone = Absent THEN Null ELSE j.phone

\* Mutant: reactivate updates active rows only.
RewrittenIfActive(row, j) ==
  IF j.op = "patch"
    THEN [row EXCEPT !.email = IF j.email = Absent THEN @ ELSE j.email,
                     !.phone = PhoneOf(j), !.rev = @ + 1]
    ELSE IF row.active
      THEN [row EXCEPT !.active = (j.op = "reactivate"), !.rev = @ + 1]
      ELSE row

\* The UPDATE; deactivate and reactivate touch a row they would change only.
Rewritten(row, j) ==
  IF j.op = "patch"
    THEN [row EXCEPT !.email = IF j.email = Absent THEN @ ELSE j.email,
                     !.phone = PhoneOf(j), !.rev = @ + 1]
    ELSE IF row.active # (j.op = "reactivate")
      THEN [row EXCEPT !.active = (j.op = "reactivate"), !.rev = @ + 1]
      ELSE row

\* Mutant: users.email has no unique index.
NeverClashes(r) == FALSE

\* users.email is unique.
Clashes(r) ==
  /\ job[r].op = "patch"
  /\ \E u \in Users \ {User(r)} : Owns(u, job[r].email)

Write(r) ==
  /\ pc[r] = "write"
  /\ \/ Clashes(r) /\ Answer(r, "error") /\ UNCHANGED <<users, wrote>>
     \/ /\ ~Clashes(r)
        /\ users' = [users EXCEPT ![User(r)] = Rewritten(@, job[r])]
        /\ wrote' = [wrote EXCEPT ![r] = users'[User(r)].rev]
        /\ Goto(r, "delete")
        /\ UNCHANGED reply
  /\ UNCHANGED <<cache, job, found, before>>

\* Mutant: the entry is overwritten with the copy the handler has read.
CachePutBack(r) ==
  /\ pc[r] = "delete"
  /\ cache' = [cache EXCEPT ![User(r)] = found[r]]
  /\ Answer(r, "ok")
  /\ UNCHANGED <<users, job, found, wrote, before>>

CacheDelete(r) ==
  /\ pc[r] = "delete"
  /\ cache' = [cache EXCEPT ![User(r)] = Nothing]
  /\ Answer(r, "ok")
  /\ UNCHANGED <<users, job, found, wrote, before>>

-----------------------------------------------------------------------------
(* Environment *)

\* The entry's 300 seconds are over, or Redis needs the room.
Evict(u) ==
  /\ cache[u] # Nothing
  /\ cache' = [cache EXCEPT ![u] = Nothing]
  /\ UNCHANGED <<users, job, pc, found, wrote, reply, before>>

\* A Redis call or a statement fails, before or after it took effect.
Fault(r) ==
  /\ InFlight(r)
  /\ Answer(r, "error")
  /\ UNCHANGED <<users, cache, job, found, wrote, before>>

Crash ==
  /\ \E r \in Requests : InFlight(r)
  /\ pc' = [r \in Requests |-> IF InFlight(r) THEN "done" ELSE pc[r]]
  /\ reply' = [r \in Requests |-> IF InFlight(r) THEN "lost" ELSE reply[r]]
  /\ UNCHANGED <<users, cache, job, found, wrote, before>>

Step(r) ==
  \/ CacheGet(r) \/ Select(r) \/ CacheSet(r)
  \/ Decide(r) \/ CheckEmail(r) \/ FindInactive(r)
  \/ Write(r) \/ CacheDelete(r)

Next ==
  \/ \E r \in Requests : Receive(r) \/ Step(r) \/ Fault(r)
  \/ \E u \in Users : Evict(u)
  \/ Crash

Spec == Init /\ [][Next]_vars

-----------------------------------------------------------------------------
(* Properties *)

Succeeded(r) == reply[r] = "ok"
ReadsUser(r) == job[r].op # "reactivate"
Writes(r)    == job[r].op # "get"
Overlap(q, r) == pc[q] # "idle" /\ q \notin before[r] /\ r \notin before[q]

\* A findById of the same user was under way during write w.
Straddled(w) ==
  \E q \in Requests \ {w} : ReadsUser(q) /\ User(q) = User(w) /\ Overlap(q, w)

\* A deactivation of the same user was not over when w was received.
DeactivatedAnew(w) ==
  \E q \in Requests \ before[w] :
    job[q].op = "deactivate" /\ User(q) = User(w) /\ pc[q] # "idle"

\* Types; the cache never holds an absent field.
TypeOK ==
  /\ users \in [Users -> Row]
  /\ cache \in [Users -> Copy \cup {Nothing}]
  /\ job \in [Requests -> Jobs]
  /\ pc \in [Requests -> Steps]
  /\ found \in [Requests -> Copy \cup {Nothing}]
  /\ wrote \in [Requests -> Nat]
  /\ reply \in [Requests -> Replies]
  /\ before \in [Requests -> SUBSET Requests]

(***************************************************************************)
(* Two PATCHes, or a PATCH and a stale look-up, never give one e-mail to   *)
(* two users (UpdateProfileUseCase.ts:26-34 checks before it writes).      *)
(***************************************************************************)
OneUserPerEmail ==
  \A u, v \in Users : users[u].email = users[v].email => u = v

(***************************************************************************)
(* A findById that starts after a write was answered returns what the      *)
(* write left or something newer, unless a findById of the same user       *)
(* overlapped the write and filled the cache with what it had read before: *)
(* failed deletes, evictions and crashes alone never bring old data back   *)
(* (CachedUserRepository.ts:19-64).                                        *)
(***************************************************************************)
StaleReadHasCause ==
  \A r, w \in Requests :
    (/\ w \in before[r] /\ Succeeded(w) /\ Writes(w)
     /\ User(w) = User(r) /\ found[r] # Nothing)
    => found[r].rev >= wrote[w] \/ Straddled(w)

(***************************************************************************)
(* A user is found again once its reactivation was answered, unless it was *)
(* deactivated anew: that nobody was found is never remembered             *)
(* (ReactivateAccountUseCase.ts:36, CachedUserRepository.ts:32).           *)
(***************************************************************************)
ReactivatedIsFound ==
  \A r, w \in Requests :
    (/\ w \in before[r] /\ Succeeded(w) /\ job[w].op = "reactivate"
     /\ User(w) = User(r) /\ reply[r] = "notFound")
    => DeactivatedAnew(w)

(***************************************************************************)
(* "At least one field must be provided" (schemas/user.ts:16).             *)
(***************************************************************************)
EmptyPatchIsRefused ==
  \A r \in Requests :
    job[r].op = "patch" /\ Succeeded(r)
      => job[r].email # Absent \/ job[r].phone # Absent

-----------------------------------------------------------------------------
(* The inductive invariant of UserCacheProofs *)

WorkMatchesProgress ==
  \A r \in Requests :
    /\ reply[r] # "none" => pc[r] = "done"
    /\ pc[r] \in {"get", "select", "set", "decide", "checkEmail"} => ReadsUser(r)
    /\ pc[r] \in {"checkEmail", "findInactive", "write", "delete"} => Writes(r)
    /\ wrote[r] <= users[User(r)].rev

HistoryIsPast ==
  \A r \in Requests :
    /\ pc[r] = "idle" => before[r] = {} /\ found[r] = Nothing
    /\ \A q \in before[r] : pc[q] = "done"

\* What StaleReadHasCause says of a copy that was read, said of the entry.
EntryHasCause ==
  \A w \in Requests :
    Succeeded(w) /\ Writes(w) /\ cache[User(w)] # Nothing
      => cache[User(w)].rev >= wrote[w] \/ Straddled(w)

ReactivationsHold ==
  \A w \in Requests :
    job[w].op = "reactivate" /\ (pc[w] = "delete" \/ Succeeded(w))
      => users[User(w)].active \/ DeactivatedAnew(w)

Inv ==
  /\ TypeOK
  /\ WorkMatchesProgress
  /\ HistoryIsPast
  /\ EntryHasCause
  /\ ReactivationsHold
  /\ OneUserPerEmail
  /\ StaleReadHasCause
  /\ ReactivatedIsFound
=============================================================================
