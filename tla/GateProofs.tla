------------------------------ MODULE GateProofs ------------------------------
(***************************************************************************)
(* Logouts and the blacklist, for any number of requests, users and        *)
(* addresses and any lifetime of the tokens.                               *)
(*                                                                         *)
(* An entry is made for the seconds its token had left when the logout     *)
(* looked at the clock, and made later: it outlives the token              *)
(* (EntriesOutlive).  So a token once revoked is, at any moment, on the    *)
(* blacklist or expired (LogoutsHold), and a request that Redis has let    *)
(* through with it meets an expired token (RevokedStops).                  *)
(***************************************************************************)
EXTENDS Gate, FiniteSetTheorems, TLAPS

(***************************************************************************)
(* Math.floor(ms / 1000) and what it leaves.                               *)
(***************************************************************************)
LEMMA SecondBounds ==
  ASSUME NEW ms \in Nat
  PROVE  /\ Second(ms) \in Nat
         /\ 1000 * Second(ms) <= ms
         /\ ms < 1000 * Second(ms) + 1000
  BY DEF Second

(***************************************************************************)
(* Whole seconds do not run backwards.                                     *)
(***************************************************************************)
LEMMA SecondMonotone ==
  ASSUME NEW ms \in Nat, NEW later \in Nat, ms <= later
  PROVE  Second(ms) <= Second(later)
  BY SecondBounds

(***************************************************************************)
(* What signing and decoding return.                                       *)
(***************************************************************************)
LEMMA TokenTypes ==
  /\ \A t \in Token : Exp(t) \in Nat
  /\ \A t \in Token, ms \in Nat : TokenExpiresIn(t, ms) \in Nat
  /\ \A u \in Users, ms \in Nat : Sign(u, ms) \in Token
  <1>1. ASSUME NEW t \in Token PROVE Exp(t) \in Nat
    BY LifetimeAssumption DEF Token, Exp
  <1>2. ASSUME NEW t \in Token, NEW ms \in Nat PROVE TokenExpiresIn(t, ms) \in Nat
    <2>1. Exp(t) \in Nat
      BY <1>1
    <2>2. Second(ms) \in Nat
      BY SecondBounds
    <2>3. QED
      BY <2>1, <2>2 DEF TokenExpiresIn
  <1>3. ASSUME NEW u \in Users, NEW ms \in Nat PROVE Sign(u, ms) \in Token
    <2>1. Second(ms) \in Nat
      BY SecondBounds
    <2>2. QED
      BY <2>1 DEF Sign, Token
  <1>4. QED
    BY <1>1, <1>2, <1>3

(***************************************************************************)
(* A token that has expired stays expired.                                 *)
(***************************************************************************)
LEMMA ExpiredStays ==
  ASSUME NEW t \in Token, NEW ms \in Nat, NEW later \in Nat, ms <= later,
         Expired(t, ms)
  PROVE  Expired(t, later)
  BY SecondBounds, SecondMonotone, TokenTypes DEF Expired

(***************************************************************************)
(* Requests ask for one of the modelled routes.                            *)
(***************************************************************************)
LEMMA JobTypes ==
  ASSUME TypeOK, NEW r \in Requests
  PROVE  /\ job[r].op \in {"login", "logout", "call"}
         /\ job[r].user \in Users
         /\ job[r].client \in Clients
  BY GateAssumption DEF TypeOK, Job

(***************************************************************************)
(* Tokens are presented that a login has signed, and nothing touches them  *)
(* afterwards (AuthService.ts:9-13).                                       *)
(***************************************************************************)
LEMMA PresentedIsToken ==
  ASSUME TypeOK, WorkMatchesProgress, NEW r \in Requests, login[r] # None
  PROVE  login[r] \in Requests /\ Presented(r) \in Token
  BY DEF TypeOK, WorkMatchesProgress, Presented

(***************************************************************************)
(* The first second: nobody has come.                                      *)
(***************************************************************************)
THEOREM InitInv == Init => Inv
  <1>. SUFFICES ASSUME Init PROVE Inv
    OBVIOUS
  <1>1. TypeOK
    BY LimitAssumption, GateAssumption DEF Init, TypeOK, NoHits, Counter, Points, Replies
  <1>2. HitsCoverRequests /\ BudgetHolds
    <2>1. \A c \in Clients : counter[c].until = 0
      BY DEF Init, NoHits
    <2>2. \A r \in Requests : Client(r) \in Clients
      BY <1>1, JobTypes DEF Client
    <2>3. QED
      BY <2>1, <2>2 DEF Init, HitsCoverRequests, BudgetHolds
  <1>3. QED
    BY <1>1, <1>2, GateAssumption DEF Init, Inv, WorkMatchesProgress, HistoryIsPast,
       EntriesOutlive, EntriesHaveCause, LogoutsHold, RevokedStops, RevokedStaysOut,
       RefusalHasCause, Supersedes, LoggedOut

(***************************************************************************)
(* Types, step by step.                                                    *)
(***************************************************************************)
LEMMA NextTypes ==
  ASSUME Inv, [Next]_vars
  PROVE  TypeOK'
  <1>. USE DEF Inv
  <1>1. ASSUME NEW r \in Requests, Receive(r) PROVE TypeOK'
    <2>1. /\ login' \in [Requests -> Requests \cup {None}]
          /\ refresh' \in [Requests -> Requests \cup {None}]
      BY <1>1 DEF Receive, Handed, HandedTo, TypeOK
    <2>2. pc' \in [Requests -> Points] /\ UNCHANGED reply
      BY <1>1 DEF Receive, Proceed, Goto, TypeOK, Points
    <2>3. before' \in [Requests -> SUBSET Requests]
      BY <1>1 DEF Receive, TypeOK
    <2>4. UNCHANGED <<counter, now, blacklist, rows, job, token, ttl, window>>
      BY <1>1 DEF Receive
    <2>5. QED
      BY <2>1, <2>2, <2>3, <2>4 DEF TypeOK
  <1>2. ASSUME NEW r \in Requests, Count(r) PROVE TypeOK'
    <2>1. Client(r) \in Clients
      BY JobTypes DEF Client
    <2>2. Counted(Client(r), now) \in Counter
      <3>1. counter[Client(r)] \in Counter /\ now + WindowMs \in Nat
        BY <2>1, LimitAssumption DEF TypeOK
      <3>2. [counter[Client(r)] EXCEPT !.hits = @ + 1] \in Counter
        BY <3>1 DEF Counter
      <3>3. [hits |-> 1, until |-> now + WindowMs] \in Counter
        BY <3>1 DEF Counter
      <3>4. QED
        BY <3>2, <3>3 DEF Counted
    <2>3. counter' \in [Clients -> Counter] /\ window' \in [Requests -> Nat]
      BY <1>2, <2>1, <2>2 DEF Count, TypeOK, Counter
    <2>4. pc' \in [Requests -> Points] /\ reply' \in [Requests -> Replies]
      <3>1. job[r].op \in {"login", "logout", "call"}
        BY JobTypes
      <3>2. \/ Answer(r, "tooMany")
            \/ \E point \in {"sign", "has", "finish"} : Proceed(r, point)
        BY <1>2, <3>1 DEF Count
      <3>3. QED
        BY <3>2 DEF Answer, Proceed, Goto, TypeOK, Points, Replies
    <2>5. QED
      BY <1>2, <2>3, <2>4 DEF Count, TypeOK
  <1>3. ASSUME NEW r \in Requests, Has(r) \/ Verify(r) \/ Finish(r) \/ Fault(r) PROVE TypeOK'
    BY <1>3 DEF Has, Verify, Finish, Fault, Answer, Proceed, Goto, TypeOK, Points, Replies
  <1>4. ASSUME NEW r \in Requests, SignToken(r) PROVE TypeOK'
    <2>1. Sign(job[r].user, now) \in Token
      BY TokenTypes, JobTypes DEF TypeOK
    <2>2. QED
      BY <1>4, <2>1 DEF SignToken, Proceed, Goto, TypeOK, Points
  <1>5. ASSUME NEW r \in Requests, Open(r) PROVE TypeOK'
    BY <1>5 DEF Open, Proceed, Goto, TypeOK, Points
  <1>6. ASSUME NEW r \in Requests, Delete(r) PROVE TypeOK'
    <2>1. TokenExpiresIn(Presented(r), now) \in Nat
      BY <1>6, PresentedIsToken, TokenTypes DEF Delete, TypeOK, WorkMatchesProgress
    <2>2. QED
      BY <1>6, <2>1 DEF Delete, Proceed, Goto, TypeOK, Points
  <1>7. ASSUME NEW r \in Requests, Blacklist(r) PROVE TypeOK'
    <2>1. Presented(r) \in Token /\ now + 1000 * ttl[r] \in Nat
      BY <1>7, PresentedIsToken DEF Blacklist, TypeOK, WorkMatchesProgress
    <2>2. QED
      BY <1>7, <2>1 DEF Blacklist, Proceed, Goto, TypeOK, Points
  <1>8. CASE Tick
    BY <1>8, GateAssumption DEF Tick, TypeOK
  <1>9. CASE Crash
    BY <1>9 DEF Crash, TypeOK, Points, Replies
  <1>10. CASE UNCHANGED vars
    BY <1>10 DEF vars, TypeOK
  <1>11. QED
    BY <1>1, <1>2, <1>3, <1>4, <1>5, <1>6, <1>7, <1>8, <1>9, <1>10 DEF Next, Step

-----------------------------------------------------------------------------
\* What no step takes back: answers, the session a request presents and its
\* token, the clock; rows come from logins only, entries are replaced only.
Last ==
  /\ job' = job
  /\ now' \in Nat /\ now <= now'
  /\ \A r \in Requests :
       /\ pc[r] = "done" => pc'[r] = "done" /\ reply'[r] = reply[r] /\ token'[r] = token[r]
       /\ pc[r] = "finish" => pc'[r] \in {"finish", "done"}
       /\ pc[r] # "idle" => /\ login'[r] = login[r] /\ refresh'[r] = refresh[r]
                            /\ before'[r] = before[r]
  /\ \A q \in rows' : q \in rows \/ pc[q] = "open"
  /\ \A e \in blacklist : \E f \in blacklist' : f.token = e.token

(***************************************************************************)
(* Every step of Gate keeps what lasts.                                    *)
(***************************************************************************)
LEMMA Lasting ==
  ASSUME Inv, [Next]_vars
  PROVE  Last
  <1>. USE DEF Inv, Last
  <1>1. ASSUME NEW r \in Requests,
               Receive(r) \/ Count(r) \/ Has(r) \/ Verify(r) \/ Finish(r) \/ Fault(r)
        PROVE Last
    BY <1>1 DEF Receive, Count, Has, Verify, Finish, Fault, Answer, Proceed, Goto,
       InFlight, TypeOK
  <1>2. ASSUME NEW r \in Requests, SignToken(r) \/ Open(r) \/ Delete(r) PROVE Last
    BY <1>2 DEF SignToken, Open, Delete, Proceed, Goto, TypeOK
  <1>3. ASSUME NEW r \in Requests, Blacklist(r) PROVE Last
    <2>1. \A e \in blacklist : \E f \in blacklist' : f.token = e.token
      <3>. TAKE e \in blacklist
      <3>1. CASE e.token = Presented(r)
        <4>. DEFINE f == [token |-> Presented(r), until |-> now + 1000 * ttl[r]]
        <4>1. f \in blacklist'
          BY <1>3 DEF Blacklist
        <4>2. f.token = e.token
          BY <3>1
        <4>3. QED
          BY <4>1, <4>2
      <3>2. CASE e.token # Presented(r)
        <4>1. e \in blacklist'
          BY <1>3, <3>2 DEF Blacklist
        <4>2. QED
          BY <4>1
      <3>3. QED
        BY <3>1, <3>2
    <2>2. QED
      BY <1>3, <2>1 DEF Blacklist, Proceed, Goto, TypeOK
  <1>4. CASE Tick
    BY <1>4, GateAssumption DEF Tick, TypeOK
  <1>5. CASE Crash
    BY <1>5 DEF Crash, InFlight, TypeOK
  <1>6. CASE UNCHANGED vars
    BY <1>6 DEF vars, TypeOK
  <1>7. QED
    BY <1>1, <1>2, <1>3, <1>4, <1>5, <1>6 DEF Next, Step

(***************************************************************************)
(* The access token a request presents stays what it is, and once revoked  *)
(* stays revoked; the row of its refresh token, once gone, does not come   *)
(* back.                                                                   *)
(***************************************************************************)
LEMMA PresentedStays ==
  ASSUME Inv, [Next]_vars, NEW r \in Requests, login[r] # None
  PROVE  /\ login'[r] = login[r] /\ Presented(r)' = Presented(r)
         /\ Presented(r) \in Token
         /\ refresh[r] \notin rows => refresh'[r] \notin rows'
         /\ Revoked(Presented(r)) => Revoked(Presented(r))'
  <1>1. /\ pc[r] # "idle" /\ login[r] \in Requests
        /\ reply[login[r]] = "ok" /\ pc[login[r]] = "done"
    BY PresentedIsToken DEF Inv, WorkMatchesProgress
  <1>2. login'[r] = login[r] /\ Presented(r)' = Presented(r)
    BY <1>1, Lasting DEF Last, Presented
  <1>3. Presented(r) \in Token
    BY PresentedIsToken DEF Inv
  <1>4. ASSUME refresh[r] \notin rows PROVE refresh'[r] \notin rows'
    <2>1. refresh'[r] = refresh[r]
      BY <1>1, Lasting DEF Last
    <2>2. CASE refresh[r] = None
      BY <2>1, <2>2, NextTypes, GateAssumption DEF TypeOK
    <2>3. CASE refresh[r] # None
      <3>1. pc[refresh[r]] = "done"
        BY <2>3 DEF Inv, TypeOK, WorkMatchesProgress
      <3>2. QED
        BY <1>4, <2>1, <3>1, Lasting DEF Last
    <2>4. QED
      BY <2>2, <2>3
  <1>5. ASSUME Expired(Presented(r), now) PROVE Expired(Presented(r), now')
    BY <1>3, <1>5, Lasting, ExpiredStays DEF Last, Inv, TypeOK
  <1>6. Revoked(Presented(r)) => Revoked(Presented(r))'
    BY <1>2, <1>5, Lasting DEF Last, Revoked
  <1>7. QED
    BY <1>2, <1>3, <1>4, <1>6

(***************************************************************************)
(* What requests carry, step by step.                                      *)
(***************************************************************************)
LEMMA NextWork ==
  ASSUME Inv, [Next]_vars
  PROVE  WorkMatchesProgress' /\ HistoryIsPast'
  <1>. USE DEF Inv
  <1>0. \A q \in Requests :
          /\ login[q] # None => login[q] \in Requests /\ pc[login[q]] = "done"
          /\ refresh[q] # None => refresh[q] \in Requests /\ pc[refresh[q]] = "done"
    BY DEF TypeOK, WorkMatchesProgress
  <1>1. ASSUME NEW r \in Requests, Receive(r) PROVE WorkMatchesProgress' /\ HistoryIsPast'
    BY <1>0, <1>1, JobTypes DEF Receive, Handed, HandedTo, Proceed, Goto, WorkMatchesProgress,
       HistoryIsPast, TypeOK
  <1>2. ASSUME NEW r \in Requests, Count(r) PROVE WorkMatchesProgress' /\ HistoryIsPast'
    <2>1. \/ Answer(r, "tooMany")
          \/ job[r].op = "login" /\ Proceed(r, "sign")
          \/ job[r].op = "logout" /\ Proceed(r, "has")
          \/ job[r].op = "call" /\ Proceed(r, "finish")
      BY <1>2, JobTypes DEF Count
    <2>2. QED
      BY <1>0, <1>2, <2>1 DEF Count, Answer, Proceed, Goto, WorkMatchesProgress,
         HistoryIsPast, TypeOK
  <1>3. ASSUME NEW r \in Requests, Has(r) PROVE WorkMatchesProgress' /\ HistoryIsPast'
    BY <1>0, <1>3 DEF Has, Answer, Proceed, Goto, WorkMatchesProgress, HistoryIsPast, TypeOK
  <1>4. ASSUME NEW r \in Requests, Verify(r) PROVE WorkMatchesProgress' /\ HistoryIsPast'
    <2>1. job[r].op # "login"
      BY <1>4 DEF Verify, WorkMatchesProgress
    <2>2. \/ Answer(r, "expired")
          \/ job[r].op = "call" /\ Proceed(r, "limit")
          \/ job[r].op = "logout" /\ Proceed(r, "delete")
      BY <1>4, <2>1, JobTypes DEF Verify
    <2>3. QED
      BY <1>0, <1>4, <2>1, <2>2 DEF Verify, Answer, Proceed, Goto, WorkMatchesProgress,
         HistoryIsPast, TypeOK
  <1>5. ASSUME NEW r \in Requests, SignToken(r) PROVE WorkMatchesProgress' /\ HistoryIsPast'
    <2>1. Sign(job[r].user, now) \in Token
      BY TokenTypes, JobTypes DEF TypeOK
    <2>2. QED
      BY <1>0, <1>5, <2>1 DEF SignToken, Proceed, Goto, WorkMatchesProgress, HistoryIsPast,
         TypeOK
  <1>6. ASSUME NEW r \in Requests, Open(r) \/ Delete(r) \/ Blacklist(r)
        PROVE  WorkMatchesProgress' /\ HistoryIsPast'
    BY <1>0, <1>6 DEF Open, Delete, Blacklist, Proceed, Goto, WorkMatchesProgress,
       HistoryIsPast, TypeOK
  <1>7. ASSUME NEW r \in Requests, Finish(r) \/ Fault(r)
        PROVE  WorkMatchesProgress' /\ HistoryIsPast'
    BY <1>0, <1>7 DEF Finish, Fault, InFlight, Answer, Goto, WorkMatchesProgress,
       HistoryIsPast, TypeOK
  <1>8. CASE Crash
    BY <1>0, <1>8 DEF Crash, InFlight, WorkMatchesProgress, HistoryIsPast, TypeOK
  <1>9. CASE Tick \/ UNCHANGED vars
    BY <1>9 DEF Tick, vars, WorkMatchesProgress, HistoryIsPast
  <1>10. QED
    BY <1>1, <1>2, <1>3, <1>4, <1>5, <1>6, <1>7, <1>8, <1>9 DEF Next, Step

-----------------------------------------------------------------------------
(***************************************************************************)
(* An entry is made of the seconds counted at Delete, from a later moment  *)
(* on: it goes no earlier than its token (LogoutUseCase.ts:17-22).         *)
(***************************************************************************)
LEMMA NextEntriesOutlive ==
  ASSUME Inv, [Next]_vars
  PROVE  EntriesOutlive'
  <1>. USE DEF Inv
  <1>1. now \in Nat /\ now' \in Nat /\ Second(now) \in Nat /\ Second(now') \in Nat
        /\ Second(now) <= Second(now')
    <2>1. now \in Nat /\ now' \in Nat /\ now <= now'
      BY Lasting DEF Last, TypeOK
    <2>2. Second(now) \in Nat
      BY <2>1, SecondBounds
    <2>3. Second(now') \in Nat
      BY <2>1, SecondBounds
    <2>4. Second(now) <= Second(now')
      BY <2>1, SecondMonotone
    <2>5. QED
      BY <2>1, <2>2, <2>3, <2>4
  <1>2. ASSUME NEW q \in Requests, pc[q] = "blacklist", pc'[q] = "blacklist", ttl'[q] = ttl[q]
        PROVE  Second(now') + ttl'[q] >= Exp(Presented(q)')
    <2>1. login[q] # None
      BY <1>2 DEF WorkMatchesProgress
    <2>2. Presented(q)' = Presented(q) /\ Exp(Presented(q)) \in Nat
      BY <2>1, PresentedStays, TokenTypes
    <2>3. Second(now) + ttl[q] >= Exp(Presented(q)) /\ ttl[q] \in Nat
      BY <1>2 DEF EntriesOutlive, TypeOK
    <2>4. QED
      BY <1>1, <1>2, <2>2, <2>3
  <1>3. ASSUME blacklist' = blacklist,
               \A q \in Requests : pc'[q] = "blacklist" => pc[q] = "blacklist" /\ ttl'[q] = ttl[q]
        PROVE  EntriesOutlive'
    <2>1. \A e \in blacklist' : e.until >= 1000 * Exp(e.token)
      BY <1>3 DEF EntriesOutlive
    <2>2. \A q \in Requests :
            pc'[q] = "blacklist" => Second(now') + ttl'[q] >= Exp(Presented(q)')
      BY <1>2, <1>3
    <2>3. QED
      BY <2>1, <2>2 DEF EntriesOutlive
  <1>4. ASSUME NEW r \in Requests, Delete(r) PROVE EntriesOutlive'
    <2>1. login[r] # None /\ Presented(r)' = Presented(r) /\ Exp(Presented(r)) \in Nat
      BY <1>4, PresentedStays, TokenTypes DEF Delete, WorkMatchesProgress
    <2>2. ttl'[r] = TokenExpiresIn(Presented(r), now) /\ now' = now
      BY <1>4 DEF Delete, TypeOK
    <2>3. Second(now) + TokenExpiresIn(Presented(r), now) >= Exp(Presented(r))
      BY <1>1, <2>1 DEF TokenExpiresIn
    <2>4. \A q \in Requests \ {r} : pc'[q] = pc[q] /\ ttl'[q] = ttl[q]
      BY <1>4 DEF Delete, Proceed, Goto, TypeOK
    <2>5. blacklist' = blacklist
      BY <1>4 DEF Delete
    <2>6. QED
      BY <1>2, <2>1, <2>2, <2>3, <2>4, <2>5 DEF EntriesOutlive
  <1>5. ASSUME NEW r \in Requests, Blacklist(r) PROVE EntriesOutlive'
    <2>1. Presented(r) \in Token /\ Exp(Presented(r)) \in Nat /\ ttl[r] \in Nat
      BY <1>5, PresentedStays, TokenTypes DEF Blacklist, WorkMatchesProgress, TypeOK
    <2>2. Second(now) + ttl[r] >= Exp(Presented(r))
      BY <1>5 DEF Blacklist, EntriesOutlive
    <2>3. 1000 * Second(now) <= now
      BY <1>1, SecondBounds
    <2>4. now + 1000 * ttl[r] >= 1000 * Exp(Presented(r))
      BY <1>1, <2>1, <2>2, <2>3
    <2>5. \A e \in blacklist' : e.until >= 1000 * Exp(e.token)
      BY <1>5, <2>4 DEF Blacklist, EntriesOutlive
    <2>6. \A q \in Requests : pc'[q] = "blacklist" => pc[q] = "blacklist" /\ ttl'[q] = ttl[q]
      BY <1>5 DEF Blacklist, Proceed, Goto, TypeOK
    <2>7. QED
      BY <1>2, <2>5, <2>6 DEF EntriesOutlive
  <1>6. ASSUME NEW r \in Requests, Count(r) PROVE EntriesOutlive'
    BY <1>3, <1>6, JobTypes DEF Count, Answer, Proceed, Goto, TypeOK
  <1>7. ASSUME NEW r \in Requests, Receive(r) \/ Has(r) \/ Verify(r) \/ SignToken(r)
                                   \/ Open(r) \/ Finish(r) \/ Fault(r)
        PROVE  EntriesOutlive'
    BY <1>3, <1>7 DEF Receive, Has, Verify, SignToken, Open, Finish, Fault, Answer, Proceed,
       Goto, TypeOK
  <1>8. CASE Crash \/ Tick \/ UNCHANGED vars
    BY <1>3, <1>8 DEF Crash, Tick, vars
  <1>9. QED
    BY <1>4, <1>5, <1>6, <1>7, <1>8 DEF Next, Step

(***************************************************************************)
(* A request that is on the way to making an entry has deleted its row.    *)
(***************************************************************************)
LEMMA NextEntriesHaveCause ==
  ASSUME Inv, [Next]_vars
  PROVE  EntriesHaveCause'
  <1>. USE DEF Inv
  <1>1. ASSUME NEW e \in blacklist
        PROVE  \E q \in Requests :
                 /\ job'[q].op = "logout" /\ login'[q] # None /\ pc'[q] \in {"finish", "done"}
                 /\ Presented(q)' = e.token
                 /\ refresh'[q] \notin rows'
    <2>1. PICK q \in Requests :
            /\ job[q].op = "logout" /\ login[q] # None /\ pc[q] \in {"finish", "done"}
            /\ Presented(q) = e.token
            /\ refresh[q] \notin rows
      BY DEF EntriesHaveCause
    <2>2. QED
      BY <2>1, PresentedStays, Lasting DEF Last
  <1>2. ASSUME NEW r \in Requests, Blacklist(r) PROVE EntriesHaveCause'
    <2>1. /\ job[r].op = "logout" /\ login[r] # None
          /\ refresh[r] \notin rows
      BY <1>2 DEF Blacklist, WorkMatchesProgress, LogoutsHold
    <2>2. /\ job'[r].op = "logout" /\ login'[r] # None /\ pc'[r] = "finish"
          /\ Presented(r)' = Presented(r)
          /\ refresh'[r] \notin rows'
      BY <1>2, <2>1, PresentedStays, Lasting DEF Last, Blacklist, Proceed, Goto, TypeOK
    <2>3. \A e \in blacklist' : e \in blacklist \/ e.token = Presented(r)
      BY <1>2 DEF Blacklist
    <2>4. QED
      BY <1>1, <2>2, <2>3 DEF EntriesHaveCause
  <1>3. ASSUME blacklist' = blacklist PROVE EntriesHaveCause'
    BY <1>1, <1>3 DEF EntriesHaveCause
  <1>4. QED
    BY <1>2, <1>3 DEF Next, Step, Receive, Count, Has, Verify, SignToken, Open, Delete,
       Finish, Fault, Crash, Tick, vars

(***************************************************************************)
(* A logout past its delete has deleted the row, and at its end the token  *)
(* is on the blacklist or has expired.                                     *)
(***************************************************************************)
LEMMA NextLogoutsHold ==
  ASSUME Inv, [Next]_vars
  PROVE  LogoutsHold'
  <1>. USE DEF Inv
  <1>. DEFINE Gone(q)  == pc[q] \in {"blacklist", "finish"} \/ reply[q] = "ok"
              Ended(q) == pc[q] = "finish" \/ reply[q] = "ok"
  <1>2. ASSUME NEW q \in Requests, job[q].op = "logout", Gone(q)
        PROVE  /\ refresh'[q] \notin rows'
               /\ Ended(q) => Revoked(Presented(q))'
    BY <1>2, PresentedStays DEF LogoutsHold, WorkMatchesProgress
  <1>3. ASSUME \A q \in Requests : job[q].op = "logout" =>
                 (Gone(q)' => Gone(q)) /\ (Ended(q)' => Ended(q))
        PROVE  LogoutsHold'
    BY <1>2, <1>3, Lasting DEF Last, LogoutsHold
  <1>4. ASSUME NEW r \in Requests, Delete(r) PROVE LogoutsHold'
    <2>1. job[r].op = "logout" /\ login[r] # None /\ Presented(r) \in Token
      BY <1>4, PresentedStays DEF Delete, WorkMatchesProgress
    <2>2. refresh'[r] \notin rows'
      BY <1>4 DEF Delete
    <2>3. pc'[r] = "finish" => Revoked(Presented(r))'
      <3>1. Exp(Presented(r)) \in Nat
        BY <2>1, TokenTypes
      <3>2. Second(now) \in Nat
        BY SecondBounds DEF TypeOK
      <3>3. pc'[r] = "finish" => ~(TokenExpiresIn(Presented(r), now) > 0)
        BY <1>4 DEF Delete, Proceed, Goto, TypeOK
      <3>4. pc'[r] = "finish" => Expired(Presented(r), now)
        BY <3>1, <3>2, <3>3 DEF TokenExpiresIn, Expired
      <3>5. QED
        BY <2>1, <3>4, PresentedStays DEF Revoked
    <2>4. /\ \A q \in Requests \ {r} : pc'[q] = pc[q]
          /\ reply' = reply /\ reply[r] = "none"
      BY <1>4 DEF Delete, Proceed, Goto, TypeOK, WorkMatchesProgress, Replies
    <2>5. QED
      BY <1>2, <2>2, <2>3, <2>4, Lasting DEF Last, LogoutsHold
  <1>5. ASSUME NEW r \in Requests, Blacklist(r) PROVE LogoutsHold'
    <2>1. job[r].op = "logout" /\ Gone(r) /\ login[r] # None
      BY <1>5 DEF Blacklist, WorkMatchesProgress
    <2>2. Revoked(Presented(r))'
      <3>1. Presented(r)' = Presented(r)
        BY <2>1, PresentedStays
      <3>2. [token |-> Presented(r), until |-> now + 1000 * ttl[r]] \in blacklist'
        BY <1>5 DEF Blacklist
      <3>3. QED
        BY <3>1, <3>2 DEF Revoked
    <2>3. /\ \A q \in Requests \ {r} : pc'[q] = pc[q]
          /\ reply' = reply
      BY <1>5 DEF Blacklist, Proceed, Goto, TypeOK
    <2>4. QED
      BY <1>2, <2>1, <2>2, <2>3, Lasting DEF Last, LogoutsHold
  <1>6. ASSUME NEW r \in Requests, Count(r) PROVE LogoutsHold'
    <2>1. job[r].op = "logout" => Answer(r, "tooMany") \/ Proceed(r, "has")
      BY <1>6 DEF Count
    <2>2. /\ \A q \in Requests \ {r} : pc'[q] = pc[q] /\ reply'[q] = reply[q]
          /\ job[r].op = "logout" => /\ pc'[r] \in {"has", "done"}
                                     /\ reply'[r] \in {"tooMany", reply[r]}
      BY <1>6, <2>1 DEF Count, Answer, Proceed, Goto, TypeOK
    <2>3. QED
      BY <1>3, <2>2
  <1>7. ASSUME NEW r \in Requests, Receive(r) \/ Has(r) \/ Verify(r) \/ SignToken(r)
        PROVE  LogoutsHold'
    BY <1>3, <1>7 DEF Receive, Has, Verify, SignToken, Answer, Proceed, Goto, TypeOK
  <1>8. ASSUME NEW r \in Requests, Open(r) \/ Finish(r) \/ Fault(r) PROVE LogoutsHold'
    BY <1>3, <1>8 DEF Open, Finish, Fault, Answer, Proceed, Goto, TypeOK,
       WorkMatchesProgress
  <1>9. CASE Crash \/ Tick \/ UNCHANGED vars
    BY <1>3, <1>9 DEF Crash, Tick, vars, TypeOK
  <1>10. QED
    BY <1>4, <1>5, <1>6, <1>7, <1>8, <1>9 DEF Next, Step

(***************************************************************************)
(* A request that comes with a revoked token is stopped by Redis or, with  *)
(* the entry gone, by the token's own expiry (authenticate.ts:24-31).      *)
(***************************************************************************)
LEMMA NextRevoked ==
  ASSUME Inv, [Next]_vars
  PROVE  RevokedStops' /\ RevokedStaysOut'
  <1>. USE DEF Inv
  <1>. SUFFICES ASSUME NEW r \in Requests, NEW q \in Requests, Supersedes(q, r)'
                PROVE  /\ pc'[r] = "verify" => Expired(Presented(r), now)'
                       /\ pc'[r] = "limit" => job'[r].op # "call"
                       /\ pc'[r] \notin {"delete", "blacklist", "finish"} /\ reply'[r] # "ok"
    BY DEF RevokedStops, RevokedStaysOut
  <1>1. job' = job
    BY Lasting DEF Last
  <1>2. CASE pc[r] = "idle"
    <2>1. q \in before'[r]
      BY DEF Supersedes
    <2>2. pc'[r] # "idle"
      BY <2>1, NextWork DEF HistoryIsPast
    <2>3. CASE Receive(r)
      BY <1>2, <2>3 DEF Receive, Proceed, Goto, TypeOK, WorkMatchesProgress
    <2>4. \A s \in Requests \ {r} : ~Receive(s)
      BY <1>2, <2>2 DEF Receive, Proceed, Goto, TypeOK
    <2>5. \A s \in Requests : ~(Step(s) \/ Fault(s))
      BY <1>2, <2>2 DEF Step, Count, Has, Verify, SignToken, Open, Delete, Blacklist,
         Finish,
         Fault, InFlight, Answer, Proceed, Goto, TypeOK
    <2>6. ~(Tick \/ Crash \/ UNCHANGED vars)
      BY <1>2, <2>2 DEF Tick, Crash, InFlight, vars
    <2>7. QED
      BY <2>3, <2>4, <2>5, <2>6 DEF Next
  <1>3. CASE pc[r] # "idle"
    <2>1. login[r] # None /\ q \in before[r] /\ LoggedOut(q)
      BY <1>3, Lasting DEF Last, Supersedes, LoggedOut, HistoryIsPast
    <2>2. login[q] # None /\ Revoked(Presented(q))
      BY <2>1 DEF LoggedOut, WorkMatchesProgress, LogoutsHold
    <2>3. /\ Presented(r) = Presented(q) /\ Presented(r) \in Token
          /\ Presented(r)' = Presented(r)
      BY <2>1, <2>2, PresentedStays DEF Supersedes
    <2>4. Supersedes(q, r) /\ job[r].op # "login"
      BY <2>1, <2>3 DEF Supersedes, WorkMatchesProgress
    <2>5. Expired(Presented(r), now) => Expired(Presented(r), now)'
      BY <2>3, ExpiredStays, Lasting DEF Last, TypeOK
    <2>6. /\ pc[r] = "verify" => Expired(Presented(r), now)
          /\ pc[r] = "limit" => job[r].op # "call"
          /\ pc[r] \notin {"delete", "blacklist", "finish"} /\ reply[r] # "ok"
      BY <2>4 DEF RevokedStops, RevokedStaysOut
    <2>7. CASE pc'[r] = pc[r] /\ reply'[r] = reply[r]
      BY <1>1, <2>5, <2>6, <2>7
    <2>8. CASE Count(r)
      <3>1. Answer(r, "tooMany") \/ Proceed(r, "has")
        BY <2>4, <2>6, <2>8, JobTypes DEF Count
      <3>2. QED
        BY <2>6, <3>1 DEF Answer, Proceed, Goto, TypeOK
    <2>9. CASE Has(r)
      <3>1. ~Blacklisted(Presented(r), now) => Expired(Presented(r), now)
        <4>1. SUFFICES ASSUME NEW e \in blacklist, e.token = Presented(r), ~(now < e.until)
                       PROVE  Expired(Presented(r), now)
          BY <2>2, <2>3 DEF Revoked, Blacklisted
        <4>2. /\ now \in Nat /\ e.until \in Nat
              /\ e.until >= 1000 * Exp(Presented(r))
          BY <4>1 DEF EntriesOutlive, TypeOK
        <4>3. Exp(Presented(r)) \in Nat
          BY <2>3, TokenTypes
        <4>4. Second(now) \in Nat
          BY <4>2, SecondBounds
        <4>5. now < 1000 * Second(now) + 1000
          BY <4>2, <4>4, SecondBounds
        <4>6. QED
          BY <4>1, <4>2, <4>3, <4>4, <4>5 DEF Expired
      <3>2. \/ Answer(r, "revoked")
            \/ Expired(Presented(r), now) /\ Proceed(r, "verify")
        BY <2>1, <2>9, <3>1 DEF Has
      <3>3. QED
        BY <2>5, <2>6, <3>2 DEF Answer, Proceed, Goto, TypeOK
    <2>10. CASE Verify(r)
      <3>1. Answer(r, "expired")
        BY <2>6, <2>10 DEF Verify
      <3>2. QED
        BY <3>1 DEF Answer, Goto, TypeOK
    <2>11. CASE Fault(r)
      BY <2>11 DEF Fault, Answer, Goto, TypeOK
    <2>12. CASE Crash
      BY <2>6, <2>7, <2>12 DEF Crash, TypeOK
    <2>13. CASE Tick \/ UNCHANGED vars
      BY <2>7, <2>13 DEF Tick, vars
    <2>14. ASSUME NEW s \in Requests \ {r}, Receive(s) \/ Step(s) \/ Fault(s)
           PROVE  pc'[r] = pc[r] /\ reply'[r] = reply[r]
      BY <2>14 DEF Receive, Step, Count, Has, Verify, SignToken, Open, Delete, Blacklist,
         Finish, Fault, Answer, Proceed, Goto, TypeOK
    <2>15. ~(Receive(r) \/ SignToken(r) \/ Open(r) \/ Delete(r) \/ Blacklist(r) \/ Finish(r))
      BY <1>3, <2>4, <2>6 DEF Receive, SignToken, Open, Delete, Blacklist, Finish,
         WorkMatchesProgress
    <2>16. QED
      BY <2>7, <2>8, <2>9, <2>10, <2>11, <2>12, <2>13, <2>14, <2>15 DEF Next, Step
  <1>4. QED
    BY <1>2, <1>3

(***************************************************************************)
(* A request is only called revoked after a logout of an equal token.      *)
(***************************************************************************)
LEMMA NextRefusal ==
  ASSUME Inv, [Next]_vars
  PROVE  RefusalHasCause'
  <1>. USE DEF Inv
  <1>1. SUFFICES ASSUME NEW r \in Requests, reply'[r] = "revoked"
                 PROVE  \E q \in Requests \ {r} :
                          /\ job'[q].op = "logout" /\ login'[q] # None
                          /\ Presented(q)' = Presented(r)'
                          /\ refresh'[q] \notin rows'
    BY DEF RefusalHasCause
  <1>2. ASSUME login[r] # None,
               \E q \in Requests \ {r} :
                 /\ job[q].op = "logout" /\ login[q] # None
                 /\ Presented(q) = Presented(r) /\ refresh[q] \notin rows
        PROVE  \E q \in Requests \ {r} :
                 /\ job'[q].op = "logout" /\ login'[q] # None
                 /\ Presented(q)' = Presented(r)' /\ refresh'[q] \notin rows'
    BY <1>2, PresentedStays, Lasting DEF Last
  <1>3. CASE reply[r] = "revoked"
    BY <1>2, <1>3 DEF RefusalHasCause, WorkMatchesProgress
  <1>4. CASE reply[r] # "revoked"
    <2>1. Has(r) /\ login[r] # None /\ Blacklisted(Presented(r), now)
      BY <1>1, <1>4 DEF Next, Step, Receive, Count, Has, Verify, SignToken, Open, Delete,
         Blacklist, Finish, Fault, Crash, Tick, vars, Answer, Proceed, Goto, TypeOK
    <2>2. PICK e \in blacklist : e.token = Presented(r)
      BY <2>1 DEF Blacklisted
    <2>3. PICK q \in Requests :
            /\ job[q].op = "logout" /\ login[q] # None /\ pc[q] \in {"finish", "done"}
            /\ Presented(q) = e.token /\ refresh[q] \notin rows
      BY DEF EntriesHaveCause
    <2>4. q # r
      BY <2>1, <2>3 DEF Has
    <2>5. QED
      BY <1>2, <2>1, <2>2, <2>3, <2>4
  <1>5. QED
    BY <1>3, <1>4

(***************************************************************************)
(* What one more request adds to a number of requests.                     *)
(***************************************************************************)
LEMMA OneMore ==
  ASSUME NEW S \in SUBSET Requests, NEW r \in Requests, NEW T \in SUBSET (S \cup {r})
  PROVE  /\ Cardinality(T) \in Nat /\ Cardinality(S) \in Nat
         /\ Cardinality(T) <= Cardinality(S) + 1
         /\ T \subseteq S => Cardinality(T) <= Cardinality(S)
  <1>1. IsFiniteSet(S)
    BY GateAssumption, FS_Subset
  <1>2. /\ IsFiniteSet(S \cup {r})
        /\ Cardinality(S \cup {r}) = IF r \in S THEN Cardinality(S) ELSE Cardinality(S) + 1
    BY <1>1, FS_AddElement
  <1>3. IsFiniteSet(T) /\ Cardinality(T) <= Cardinality(S \cup {r})
    BY <1>2, FS_Subset
  <1>4. Cardinality(T) \in Nat /\ Cardinality(S) \in Nat
    BY <1>1, <1>3, FS_CardinalityType
  <1>5. T \subseteq S => Cardinality(T) <= Cardinality(S)
    BY <1>1, FS_Subset
  <1>6. QED
    BY <1>2, <1>3, <1>4, <1>5

(***************************************************************************)
(* BudgetHolds, said of any window and not only of those of some request.  *)
(***************************************************************************)
LEMMA BudgetOfAll ==
  ASSUME TypeOK, BudgetHolds, NEW c \in Clients, NEW group \in Groups, NEW end, end # 0
  PROVE  Cardinality(Passed(c, group, end)) <= Limit[group]
  <1>1. CASE Passed(c, group, end) = {}
    BY <1>1, FS_EmptySet, LimitAssumption
  <1>2. ASSUME NEW q \in Passed(c, group, end)
        PROVE  Cardinality(Passed(c, group, end)) <= Limit[group]
    BY <1>2 DEF BudgetHolds, Passed
  <1>3. QED
    BY <1>1, <1>2

(***************************************************************************)
(* Counting r in the window of client c that ends at end: the hits, which  *)
(* r is compared with, are no fewer than the requests counted.             *)
(***************************************************************************)
LEMMA CountBudget ==
  ASSUME Inv, TypeOK', job' = job,
         \A q \in Requests : reply[q] = "tooMany" => reply'[q] = "tooMany",
         NEW r \in Requests, NEW c \in Clients, NEW hits \in Nat, NEW end \in Nat,
         c = Client(r), end # 0, counter[c].until <= end,
         Cardinality(CountedIn(c, end)) + 1 <= hits,
         counter' = [counter EXCEPT ![c] = [hits |-> hits, until |-> end]],
         window' = [window EXCEPT ![r] = end],
         reply'[r] # "tooMany" => hits <= Limit[Group(r)]
  PROVE  (HitsCoverRequests /\ BudgetHolds)'
  <1>. USE DEF Inv
  <1>1. \A q \in Requests :
          /\ Client(q) \in Clients /\ Group(q) \in Groups
          /\ job'[q] = job[q]
          /\ window[q] \in Nat
          /\ window'[q] = IF q = r THEN end ELSE window[q]
    BY JobTypes DEF Client, Group, Groups, TypeOK
  <1>2. \A d \in Clients :
          /\ counter[d].until \in Nat
          /\ counter'[d] = IF d = c THEN [hits |-> hits, until |-> end] ELSE counter[d]
    BY DEF TypeOK, Counter
  <1>3. \A q \in Requests : window'[q] <= counter'[Client(q)].until
    <2>1. SUFFICES ASSUME NEW q \in Requests
                   PROVE  window'[q] <= counter'[Client(q)].until
      OBVIOUS
    <2>2. window[q] <= counter[Client(q)].until
      BY DEF HitsCoverRequests
    <2>3. CASE Client(q) = c
      <3>1. counter'[Client(q)].until = end
        BY <1>2, <2>3
      <3>2. window[q] <= end
        BY <1>1, <1>2, <2>2, <2>3
      <3>3. QED
        BY <1>1, <3>1, <3>2
    <2>4. CASE Client(q) # c
      BY <1>1, <1>2, <2>2, <2>4
    <2>5. QED
      BY <2>3, <2>4
  <1>4. ASSUME NEW d \in Clients, counter'[d].until # 0
        PROVE  Cardinality({q \in Requests : Client(q) = d /\ window'[q] = counter'[d].until})
                 <= counter'[d].hits
    <2>. DEFINE T == {q \in Requests : Client(q) = d /\ window'[q] = counter'[d].until}
    <2>1. CASE d = c
      <3>1. counter'[d].until = end /\ counter'[d].hits = hits
        BY <1>2, <2>1
      <3>2. CountedIn(c, end) \in SUBSET Requests /\ T \subseteq CountedIn(c, end) \cup {r}
        BY <1>1, <2>1, <3>1 DEF CountedIn
      <3>3. /\ Cardinality(CountedIn(c, end)) \in Nat /\ Cardinality(T) \in Nat
            /\ Cardinality(T) <= Cardinality(CountedIn(c, end)) + 1
        BY <3>2, OneMore
      <3>. HIDE DEF T
      <3>4. Cardinality(T) <= hits
        BY <3>3
      <3>5. QED
        BY <3>1, <3>4 DEF T
    <2>2. CASE d # c
      <3>1. counter'[d] = counter[d]
        BY <1>2, <2>2
      <3>2. T = CountedIn(d, counter[d].until)
        BY <1>1, <2>2, <3>1 DEF CountedIn
      <3>3. QED
        BY <1>4, <3>1, <3>2 DEF HitsCoverRequests
    <2>3. QED
      BY <2>1, <2>2
  <1>5. ASSUME NEW p \in Requests, window'[p] # 0
        PROVE  Cardinality({q \in Requests :
                              /\ Client(q) = Client(p) /\ Group(q) = Group(p)
                              /\ window'[q] = window'[p] /\ reply'[q] # "tooMany"})
                 <= Limit[Group(p)]
    <2>. DEFINE P == Passed(Client(p), Group(p), window'[p])
                T == {q \in Requests : /\ Client(q) = Client(p) /\ Group(q) = Group(p)
                                       /\ window'[q] = window'[p] /\ reply'[q] # "tooMany"}
    <2>1. P \in SUBSET Requests /\ T \subseteq P \cup {r}
      BY <1>1 DEF Passed
    <2>2. /\ Cardinality(T) \in Nat /\ Cardinality(P) \in Nat
          /\ Cardinality(T) <= Cardinality(P) + 1
          /\ T \subseteq P => Cardinality(T) <= Cardinality(P)
      BY <2>1, OneMore
    <2>3. Cardinality(P) <= Limit[Group(p)] /\ Limit[Group(p)] \in Nat
      BY <1>1, <1>5, BudgetOfAll, LimitAssumption
    <2>4. CASE r \notin T
      <3>1. T \subseteq P
        BY <2>1, <2>4
      <3>. HIDE DEF T, P
      <3>2. Cardinality(T) <= Limit[Group(p)]
        BY <2>2, <2>3, <3>1
      <3>3. QED
        BY <3>2 DEF T
    <2>5. CASE r \in T
      <3>1. Client(p) = c /\ Group(p) = Group(r) /\ window'[p] = end /\ reply'[r] # "tooMany"
        BY <1>1, <2>5
      <3>2. P \subseteq CountedIn(c, end) /\ CountedIn(c, end) \in SUBSET Requests
        BY <3>1 DEF Passed, CountedIn
      <3>3. /\ Cardinality(CountedIn(c, end)) \in Nat
            /\ Cardinality(P) <= Cardinality(CountedIn(c, end))
        BY <3>2, OneMore
      <3>4. hits <= Limit[Group(p)]
        BY <3>1
      <3>. HIDE DEF T, P
      <3>5. Cardinality(T) <= Limit[Group(p)]
        BY <2>2, <2>3, <3>3, <3>4
      <3>6. QED
        BY <3>5 DEF T
    <2>6. QED
      BY <2>4, <2>5
  <1>6. \A q \in Requests : Client(q)' = Client(q) /\ Group(q)' = Group(q)
    BY DEF Client, Group
  <1>7. HitsCoverRequests'
    BY <1>3, <1>4, <1>6 DEF HitsCoverRequests, CountedIn
  <1>8. BudgetHolds'
    BY <1>5, <1>6 DEF BudgetHolds, Passed
  <1>9. QED
    BY <1>7, <1>8

(***************************************************************************)
(* Counting is one INCR in Redis, and no other step counts.                *)
(***************************************************************************)
LEMMA NextBudget ==
  ASSUME Inv, [Next]_vars
  PROVE  (HitsCoverRequests /\ BudgetHolds)'
  <1>. USE DEF Inv
  <1>1. \A q \in Requests : Client(q) \in Clients /\ Group(q) \in Groups
    BY JobTypes DEF Client, Group, Groups
  <1>2. /\ TypeOK'
        /\ job' = job
        /\ \A q \in Requests : reply[q] = "tooMany" => reply'[q] = "tooMany"
    BY NextTypes, Lasting DEF Last, WorkMatchesProgress
  <1>3. CASE UNCHANGED <<counter, window>>
    <2>0. \A q \in Requests : Client(q)' = Client(q) /\ Group(q)' = Group(q)
      BY <1>2 DEF Client, Group
    <2>1. HitsCoverRequests'
      BY <1>2, <1>3 DEF HitsCoverRequests, CountedIn, Client
    <2>2. ASSUME NEW p \in Requests, window[p] # 0
          PROVE  Cardinality({q \in Requests :
                                /\ Client(q) = Client(p) /\ Group(q) = Group(p)
                                /\ window[q] = window[p] /\ reply'[q] # "tooMany"})
                   <= Limit[Group(p)]
      <3>. DEFINE P == Passed(Client(p), Group(p), window[p])
                  T == {q \in Requests : /\ Client(q) = Client(p) /\ Group(q) = Group(p)
                                         /\ window[q] = window[p] /\ reply'[q] # "tooMany"}
      <3>1. P \in SUBSET Requests /\ T \subseteq P
        BY <1>2 DEF Passed
      <3>2. Cardinality(T) \in Nat /\ Cardinality(P) \in Nat /\ Cardinality(T) <= Cardinality(P)
        BY <1>1, <2>2, <3>1, OneMore
      <3>3. Cardinality(P) <= Limit[Group(p)] /\ Limit[Group(p)] \in Nat
        BY <1>1, <2>2, LimitAssumption DEF BudgetHolds
      <3>. HIDE DEF T, P
      <3>4. Cardinality(T) <= Limit[Group(p)]
        BY <3>2, <3>3
      <3>5. QED
        BY <3>4 DEF T
    <2>3. BudgetHolds'
      BY <1>3, <2>0, <2>2 DEF BudgetHolds, Passed
    <2>4. QED
      BY <2>1, <2>3
  <1>4. ASSUME NEW r \in Requests, Count(r)
        PROVE  (HitsCoverRequests /\ BudgetHolds)'
    <2>. DEFINE c == Client(r)
                entry == Counted(c, now)
    <2>1. /\ c \in Clients
          /\ now \in Nat
          /\ counter[c] = [hits |-> counter[c].hits, until |-> counter[c].until]
          /\ counter[c].hits \in Nat /\ counter[c].until \in Nat
      BY <1>1 DEF TypeOK, Counter
    <2>2. CASE counter[c].until > now
      <3>. DEFINE hits == counter[c].hits + 1
                  end == counter[c].until
      <3>1. entry = [hits |-> hits, until |-> end]
        BY <2>1, <2>2 DEF Counted
      <3>2. Cardinality(CountedIn(c, end)) \in Nat /\ Cardinality(CountedIn(c, end)) <= hits - 1
        <4>1. CountedIn(c, end) \in SUBSET Requests
          BY DEF CountedIn
        <4>2. Cardinality(CountedIn(c, end)) \in Nat
          BY <1>4, <4>1, OneMore
        <4>3. end # 0
          BY <2>1, <2>2
        <4>4. Cardinality(CountedIn(c, end)) <= counter[c].hits
          BY <2>1, <4>3 DEF HitsCoverRequests
        <4>5. QED
          BY <2>1, <4>2, <4>4
      <3>3. reply'[r] # "tooMany" => hits <= Limit[Group(r)]
        BY <1>1, <1>4, <2>1, <3>1, LimitAssumption DEF Count, Over, Answer, Goto, TypeOK
      <3>4. /\ counter' = [counter EXCEPT ![c] = [hits |-> hits, until |-> end]]
            /\ window' = [window EXCEPT ![r] = end]
        BY <1>4, <3>1 DEF Count
      <3>5. hits \in Nat /\ end \in Nat /\ end # 0 /\ counter[c].until <= end
        BY <2>1, <2>2
      <3>6. Cardinality(CountedIn(c, end)) + 1 <= hits
        BY <2>1, <3>2
      <3>. HIDE DEF hits, end, entry
      <3>7. QED
        BY <1>2, <2>1, <3>3, <3>4, <3>5, <3>6, CountBudget
    <2>3. CASE ~(counter[c].until > now)
      <3>. DEFINE hits == 1
                  end == now + WindowMs
      <3>1. entry = [hits |-> hits, until |-> end]
        BY <2>3 DEF Counted
      <3>2. /\ hits \in Nat /\ end \in Nat /\ end # 0
            /\ counter[c].until < end /\ counter[c].until <= end
        BY <2>1, <2>3, LimitAssumption
      <3>3. CountedIn(c, end) = {}
        <4>1. SUFFICES ASSUME NEW q \in Requests, Client(q) = c, window[q] = end PROVE FALSE
          BY DEF CountedIn
        <4>2. window[q] <= counter[c].until
          BY <4>1 DEF HitsCoverRequests
        <4>3. QED
          BY <2>1, <3>2, <4>1, <4>2
      <3>4. Cardinality(CountedIn(c, end)) + 1 <= hits
        BY <3>3, FS_EmptySet
      <3>5. reply'[r] # "tooMany" => hits <= Limit[Group(r)]
        BY <1>1, <1>4, <2>1, <3>1, LimitAssumption DEF Count, Over, Answer, Goto, TypeOK
      <3>6. /\ counter' = [counter EXCEPT ![c] = [hits |-> hits, until |-> end]]
            /\ window' = [window EXCEPT ![r] = end]
        BY <1>4, <3>1 DEF Count
      <3>. HIDE DEF hits, end, entry
      <3>7. QED
        BY <1>2, <2>1, <3>2, <3>4, <3>5, <3>6, CountBudget
    <2>4. QED
      BY <2>2, <2>3
  <1>5. \/ UNCHANGED <<counter, window>>
        \/ \E r \in Requests : Count(r)
    BY DEF Next, Step, Receive, Has, Verify, SignToken, Open, Delete, Blacklist, Finish, Fault,
       Crash, Tick, vars
  <1>6. QED
    BY <1>3, <1>4, <1>5

-----------------------------------------------------------------------------
(***************************************************************************)
(* The invariant is inductive, and holds in every reachable state.         *)
(***************************************************************************)
THEOREM AlwaysInv == Spec => []Inv
  <1>1. Inv /\ [Next]_vars => Inv'
    BY NextTypes, NextWork, NextEntriesOutlive, NextEntriesHaveCause, NextLogoutsHold,
       NextRevoked, NextRefusal, NextBudget DEF Inv
  <1>2. QED
    BY <1>1, InitInv, PTL DEF Spec

(***************************************************************************)
(* An answered logout has ended both of its tokens for good                *)
(* (LogoutUseCase.ts:17-22, AuthService.ts:24-28).                         *)
(***************************************************************************)
THEOREM LogoutsEndBoth == Spec => []LogoutEndsBoth
  <1>1. Inv => LogoutEndsBoth
    <2>. SUFFICES ASSUME Inv, NEW q \in Requests, LoggedOut(q)
                  PROVE  /\ refresh[q] \notin rows
                         /\ Blacklisted(Presented(q), now) \/ Expired(Presented(q), now)
      BY DEF LogoutEndsBoth
    <2>. USE DEF Inv
    <2>1. refresh[q] \notin rows /\ Revoked(Presented(q)) /\ login[q] # None
      BY DEF LoggedOut, LogoutsHold, WorkMatchesProgress
    <2>2. ASSUME NEW e \in blacklist, e.token = Presented(q), ~(now < e.until)
          PROVE  Expired(Presented(q), now)
      <3>1. /\ now \in Nat /\ e.until \in Nat
            /\ e.until >= 1000 * Exp(Presented(q))
        BY <2>2 DEF EntriesOutlive, TypeOK
      <3>2. Exp(Presented(q)) \in Nat
        BY <2>1, PresentedIsToken, TokenTypes
      <3>3. Second(now) \in Nat
        BY <3>1, SecondBounds
      <3>4. now < 1000 * Second(now) + 1000
        BY <3>1, <3>3, SecondBounds
      <3>5. QED
        BY <2>2, <3>1, <3>2, <3>3, <3>4 DEF Expired
    <2>3. QED
      BY <2>1, <2>2 DEF Revoked, Blacklisted
  <1>2. QED
    BY <1>1, AlwaysInv, PTL

(***************************************************************************)
(* A request received after a logout was answered never gets through with  *)
(* its access token (authenticate.ts:24-31).                               *)
(***************************************************************************)
THEOREM RevokedTokensStayOut == Spec => []RevokedStaysOut
  <1>1. Inv => RevokedStaysOut
    BY DEF Inv
  <1>2. QED
    BY <1>1, AlwaysInv, PTL

(***************************************************************************)
(* "Token revoked" follows from a logout of an equal token only            *)
(* (authenticate.ts:25-29).                                                *)
(***************************************************************************)
THEOREM RefusalsHaveCauses == Spec => []RefusalHasCause
  <1>1. Inv => RefusalHasCause
    BY DEF Inv
  <1>2. QED
    BY <1>1, AlwaysInv, PTL

(***************************************************************************)
(* No window lets more requests of a group through than its limit          *)
(* (rateLimiter.ts:11-34).                                                 *)
(***************************************************************************)
THEOREM BudgetsHold == Spec => []BudgetHolds
  <1>1. Inv => BudgetHolds
    BY DEF Inv
  <1>2. QED
    BY <1>1, AlwaysInv, PTL
=============================================================================
