-------------------------------- MODULE Gate --------------------------------
(***************************************************************************)
(* What a request passes before its handler: the limiters, authenticate    *)
(* and the blacklist, with the two handlers that feed it, login and logout.*)
(*                                                                         *)
(*   POST /auth/login        limiter, handler                              *)
(*   POST /auth/logout       limiter, authenticate, handler                *)
(*   /user, /transactions    authenticate, limiter, handler ("call")       *)
(*                                                                         *)
(* Redis keeps the counters and the blacklist and outlives the process.    *)
(***************************************************************************)
EXTENDS AccessTokens, RateLimiter, FiniteSets

CONSTANTS Requests, Jobs,
          Steps, MaxTime,   \* how far the clock jumps; where runs end
          None              \* no login

Job == [op : {"login", "logout", "call"}, user : Users, client : Clients]

ASSUME GateAssumption ==
  /\ IsFiniteSet(Requests)
  /\ Jobs \subseteq Job
  /\ Steps \subseteq Nat
  /\ None \notin Requests /\ None \notin Token

VARIABLES
  now,         \* the clock, in milliseconds
  blacklist,   \* entries blacklist:<token> and when they go
  rows,        \* refresh_tokens; a login stores the one named like itself
  job,         \* what each request asks for
  login,       \* the login whose access token a request presents
  refresh,     \* the login whose refresh token the body of a logout names
  token,       \* the access token a login has signed
  ttl,         \* what a logout has computed for its entry
  pc, reply,   \* next step and HTTP answer of each request
  window,      \* end of the window a request was counted in, or 0
  before       \* the requests that were over when each request was received

vars == <<counter, now, blacklist, rows, job, login, refresh, token, ttl, pc,
          reply, window, before>>

Points == {"idle", "limit", "has", "verify", "sign", "open", "delete",
           "blacklist", "finish", "done"}

\* tooMany: 429.  unknown, revoked, expired: 401.  error: 500.
Replies == {"none", "ok", "tooMany", "unknown", "revoked", "expired", "error", "lost"}

Init ==
  /\ counter = NoHits
  /\ now = 0
  /\ blacklist = {}
  /\ rows = {}
  /\ job \in [Requests -> Jobs]
  /\ login = [r \in Requests |-> None]
  /\ refresh = [r \in Requests |-> None]
  /\ token = [r \in Requests |-> None]
  /\ ttl = [r \in Requests |-> 0]
  /\ pc = [r \in Requests |-> "idle"]
  /\ reply = [r \in Requests |-> "none"]
  /\ window = [r \in Requests |-> 0]
  /\ before = [r \in Requests |-> {}]

-----------------------------------------------------------------------------
Client(r)   == job[r].client
Group(r)    == CASE job[r].op = "login"  -> "login"
                 [] job[r].op = "logout" -> "auth"
                 [] job[r].op = "call"   -> "global"
Presented(r) == token[login[r]]
InFlight(r) == pc[r] \notin {"idle", "done"}

Goto(r, point) == pc' = [pc EXCEPT ![r] = point]

Answer(r, answer) ==
  /\ Goto(r, "done")
  /\ reply' = [reply EXCEPT ![r] = answer]

Proceed(r, point) == Goto(r, point) /\ UNCHANGED reply

\* Clients present what a login has handed them, or nothing.
Handed == {q \in Requests : job[q].op = "login" /\ reply[q] = "ok"}
HandedTo(u) == {q \in Handed : job[q].user = u}

\* The body of a logout may name any uuid: the refresh token of the session,
\* that of another session or user, or one without a row (None).
Receive(r) ==
  /\ pc[r] = "idle"
  /\ \E q \in (IF job[r].op = "login" THEN {} ELSE HandedTo(job[r].user)) \cup {None} :
       login' = [login EXCEPT ![r] = q]
  /\ \E q \in (IF job[r].op = "logout" THEN Handed ELSE {}) \cup {None} :
       refresh' = [refresh EXCEPT ![r] = q]
  /\ Proceed(r, IF job[r].op = "call" THEN "has" ELSE "limit")
  /\ before' = [before EXCEPT ![r] = {q \in Requests : pc[q] = "done"}]
  /\ UNCHANGED <<counter, now, blacklist, rows, job, token, ttl, window>>

-----------------------------------------------------------------------------
(* The middlewares *)

Count(r) ==
  /\ pc[r] = "limit"
  /\ LET entry == Counted(Client(r), now) IN
     /\ counter' = [counter EXCEPT ![Client(r)] = entry]
     /\ window' = [window EXCEPT ![r] = entry.until]
     /\ IF Over(Group(r), entry.hits)
          THEN Answer(r, "tooMany")
          ELSE Proceed(r, CASE job[r].op = "login"  -> "sign"
                            [] job[r].op = "logout" -> "has"
                            [] job[r].op = "call"   -> "finish")
  /\ UNCHANGED <<now, blacklist, rows, job, login, refresh, token, ttl, before>>

\* Mutant: entries are kept by user.
BlacklistedUser(t, ms) ==
  \E e \in blacklist : e.token.sub = t.sub /\ ms < e.until

Blacklisted(t, ms) == \E e \in blacklist : e.token = t /\ ms < e.until

\* authenticate asks Redis first and looks at the token afterwards.
Has(r) ==
  /\ pc[r] = "has"
  /\ \/ login[r] = None /\ Answer(r, "unknown")
     \/ login[r] # None /\ Blacklisted(Presented(r), now) /\ Answer(r, "revoked")
     \/ login[r] # None /\ ~Blacklisted(Presented(r), now) /\ Proceed(r, "verify")
  /\ UNCHANGED <<counter, now, blacklist, rows, job, login, refresh, token, ttl,
                 window, before>>

Verify(r) ==
  /\ pc[r] = "verify"
  /\ \/ Expired(Presented(r), now) /\ Answer(r, "expired")
     \/ /\ ~Expired(Presented(r), now)
        /\ Proceed(r, IF job[r].op = "call" THEN "limit" ELSE "delete")
  /\ UNCHANGED <<counter, now, blacklist, rows, job, login, refresh, token, ttl,
                 window, before>>

-----------------------------------------------------------------------------
(* The handlers *)

SignToken(r) ==
  /\ pc[r] = "sign"
  /\ token' = [token EXCEPT ![r] = Sign(job[r].user, now)]
  /\ Proceed(r, "open")
  /\ UNCHANGED <<counter, now, blacklist, rows, job, login, refresh, ttl, window, before>>

\* Mutant: a user has one refresh token.
OpenForUser(r) ==
  /\ pc[r] = "open"
  /\ rows' = rows \cup {job[r].user}
  /\ Proceed(r, "finish")
  /\ UNCHANGED <<counter, now, blacklist, job, login, refresh, token, ttl,
                 window, before>>

Open(r) ==
  /\ pc[r] = "open"
  /\ rows' = rows \cup {r}
  /\ Proceed(r, "finish")
  /\ UNCHANGED <<counter, now, blacklist, job, login, refresh, token, ttl,
                 window, before>>

\* Nothing is blacklisted for a token that has expired meanwhile.
Delete(r) ==
  /\ pc[r] = "delete"
  /\ rows' = rows \ {refresh[r]}
  /\ LET left == TokenExpiresIn(Presented(r), now) IN
     /\ ttl' = [ttl EXCEPT ![r] = left]
     /\ Proceed(r, IF left > 0 THEN "blacklist" ELSE "finish")
  /\ UNCHANGED <<counter, now, blacklist, job, login, refresh, token, window, before>>

\* SET blacklist:<token> true EX ttl
Blacklist(r) ==
  /\ pc[r] = "blacklist"
  /\ blacklist' = {e \in blacklist : e.token # Presented(r)}
       \cup {[token |-> Presented(r), until |-> now + 1000 * ttl[r]]}
  /\ Proceed(r, "finish")
  /\ UNCHANGED <<counter, now, rows, job, login, refresh, token, ttl,
                 window, before>>

Finish(r) ==
  /\ pc[r] = "finish"
  /\ Answer(r, "ok")
  /\ UNCHANGED <<counter, now, blacklist, rows, job, login, refresh, token, ttl,
                 window, before>>

-----------------------------------------------------------------------------
(* Environment *)

\* A Redis call or a statement fails.
Fault(r) ==
  /\ InFlight(r)
  /\ Answer(r, "error")
  /\ UNCHANGED <<counter, now, blacklist, rows, job, login, refresh, token, ttl,
                 window, before>>

Crash ==
  /\ \E r \in Requests : InFlight(r)
  /\ pc' = [r \in Requests |-> IF InFlight(r) THEN "done" ELSE pc[r]]
  /\ reply' = [r \in Requests |-> IF InFlight(r) THEN "lost" ELSE reply[r]]
  /\ UNCHANGED <<counter, now, blacklist, rows, job, login, refresh, token, ttl,
                 window, before>>

Tick ==
  /\ \E ms \in Steps : now + ms <= MaxTime /\ now' = now + ms
  /\ UNCHANGED <<counter, blacklist, rows, job, login, refresh, token, ttl, pc,
                 reply, window, before>>

Step(r) ==
  \/ Count(r) \/ Has(r) \/ Verify(r)
  \/ SignToken(r) \/ Open(r) \/ Delete(r) \/ Blacklist(r) \/ Finish(r)

Next ==
  \/ \E r \in Requests : Receive(r) \/ Step(r) \/ Fault(r)
  \/ Tick
  \/ Crash

Spec == Init /\ [][Next]_vars

-----------------------------------------------------------------------------
(* Properties *)

\* Types.
TypeOK ==
  /\ counter \in [Clients -> Counter]
  /\ now \in Nat
  /\ blacklist \subseteq [token : Token, until : Nat]
  /\ rows \subseteq Requests
  /\ job \in [Requests -> Jobs]
  /\ login \in [Requests -> Requests \cup {None}]
  /\ refresh \in [Requests -> Requests \cup {None}]
  /\ token \in [Requests -> Token \cup {None}]
  /\ ttl \in [Requests -> Nat]
  /\ pc \in [Requests -> Points]
  /\ reply \in [Requests -> Replies]
  /\ window \in [Requests -> Nat]
  /\ before \in [Requests -> SUBSET Requests]

LoggedOut(q) == job[q].op = "logout" /\ reply[q] = "ok"

(***************************************************************************)
(* From the answer of a logout on, neither of the two tokens it was given  *)
(* works, whether or not they are of one session: the refresh token has no *)
(* row, and the blacklist entry of the access token, which lives for a     *)
(* whole number of seconds from whenever Redis gets it, stays until the    *)
(* access token has expired (LogoutUseCase.ts:17-22, AuthService.ts:24-28).*)
(***************************************************************************)
LogoutEndsBoth ==
  \A q \in Requests : LoggedOut(q) =>
    /\ refresh[q] \notin rows
    /\ Blacklisted(Presented(q), now) \/ Expired(Presented(q), now)

\* Request r presents the access token that logout q had ended before.
Supersedes(q, r) ==
  /\ LoggedOut(q) /\ q \in before[r] /\ login[r] # None
  /\ Presented(r) = Presented(q)

(***************************************************************************)
(* No request received after a logout was answered gets through with its   *)
(* access token, although Redis is asked at one moment and the expiry is   *)
(* looked at at another (authenticate.ts:24-31).                           *)
(***************************************************************************)
RevokedStaysOut ==
  \A r, q \in Requests : Supersedes(q, r) =>
    pc[r] \notin {"delete", "blacklist", "finish"} /\ reply[r] # "ok"

(***************************************************************************)
(* "Token revoked" is the consequence of a logout of a token signed for    *)
(* the same user in the same second: no other session of the user, and no  *)
(* other user, is turned away (authenticate.ts:25-29).  It need not be a   *)
(* logout of the session itself: two logins within a second share their    *)
(* access token.                                                           *)
(***************************************************************************)
RefusalHasCause ==
  \A r \in Requests : reply[r] = "revoked" =>
    \E q \in Requests \ {r} :
      /\ job[q].op = "logout" /\ login[q] # None
      /\ Presented(q) = Presented(r)
      /\ refresh[q] \notin rows

(***************************************************************************)
(* However the requests of a client interleave, no more of a group than    *)
(* its limit get past the limiter in one window (rateLimiter.ts:11-34).    *)
(***************************************************************************)
Passed(c, group, end) ==
  {r \in Requests : /\ Client(r) = c /\ Group(r) = group
                    /\ window[r] = end /\ reply[r] # "tooMany"}

BudgetHolds ==
  \A r \in Requests : window[r] # 0 =>
    Cardinality(Passed(Client(r), Group(r), window[r])) <= Limit[Group(r)]

(***************************************************************************)
(* Each group has the budget the environment gives it (.env.example:29-31, *)
(* RATE_LIMIT_GLOBAL_TRIES, _AUTH_TRIES, _LOGIN_TRIES): a request is       *)
(* answered 429 only when requests of its own group have used it up.       *)
(***************************************************************************)
OwnBudget ==
  \A r \in Requests : reply[r] = "tooMany" =>
    Cardinality(Passed(Client(r), Group(r), window[r])) >= Limit[Group(r)]

-----------------------------------------------------------------------------
(* The inductive invariant of GateProofs *)

\* What a request carries at each point.
WorkMatchesProgress ==
  \A r \in Requests :
    /\ reply[r] # "none" => pc[r] = "done"
    /\ pc[r] \in {"sign", "open"} => job[r].op = "login"
    /\ pc[r] \in {"has", "verify"} => job[r].op # "login"
    /\ pc[r] = "delete" \/ pc[r] = "blacklist" => job[r].op = "logout"
    /\ job[r].op # "login" /\ (pc[r] = "finish" \/ reply[r] = "ok") => login[r] # None
    /\ job[r].op = "call" /\ pc[r] = "limit" => login[r] # None
    /\ pc[r] \in {"verify", "delete", "blacklist"} => login[r] # None
    /\ reply[r] = "revoked" => login[r] # None
    /\ pc[r] = "idle" \/ job[r].op = "login" => login[r] = None
    /\ pc[r] = "open" => token[r] \in Token
    /\ job[r].op = "login" /\ (pc[r] = "finish" \/ reply[r] = "ok") => token[r] \in Token
    /\ login[r] # None => job[login[r]].op = "login" /\ reply[login[r]] = "ok"
    /\ refresh[r] # None => job[refresh[r]].op = "login" /\ reply[refresh[r]] = "ok"

HistoryIsPast ==
  \A r \in Requests :
    /\ pc[r] = "idle" => before[r] = {}
    /\ \A q \in before[r] : pc[q] = "done" /\ q # r

\* Entries outlive their tokens, also the one a logout is about to make.
EntriesOutlive ==
  /\ \A e \in blacklist : e.until >= 1000 * Exp(e.token)
  /\ \A q \in Requests : pc[q] = "blacklist" => Second(now) + ttl[q] >= Exp(Presented(q))

EntriesHaveCause ==
  \A e \in blacklist : \E q \in Requests :
    /\ job[q].op = "logout" /\ login[q] # None /\ pc[q] \in {"finish", "done"}
    /\ Presented(q) = e.token
    /\ refresh[q] \notin rows

Revoked(t) == Expired(t, now) \/ \E e \in blacklist : e.token = t

LogoutsHold ==
  \A q \in Requests : job[q].op = "logout" =>
    /\ pc[q] \in {"blacklist", "finish"} \/ reply[q] = "ok" => refresh[q] \notin rows
    /\ pc[q] = "finish" \/ reply[q] = "ok" => Revoked(Presented(q))

\* A request with a revoked token that Redis has let through has expired.
RevokedStops ==
  \A r, q \in Requests : Supersedes(q, r) =>
    /\ pc[r] = "verify" => Expired(Presented(r), now)
    /\ pc[r] = "limit" => job[r].op # "call"

\* The requests of client c counted in the window that ends at end.
CountedIn(c, end) == {r \in Requests : Client(r) = c /\ window[r] = end}

\* A counter has been incremented for every request of its window.
HitsCoverRequests ==
  /\ \A r \in Requests : window[r] <= counter[Client(r)].until
  /\ \A c \in Clients : counter[c].until # 0 =>
       Cardinality(CountedIn(c, counter[c].until)) <= counter[c].hits

Inv ==
  /\ TypeOK
  /\ WorkMatchesProgress
  /\ HistoryIsPast
  /\ EntriesOutlive
  /\ EntriesHaveCause
  /\ LogoutsHold
  /\ RevokedStops
  /\ RevokedStaysOut
  /\ RefusalHasCause
  /\ HitsCoverRequests
  /\ BudgetHolds
=============================================================================
