---------------------------- MODULE UserCacheProofs ----------------------------
(***************************************************************************)
(* The user cache, for any number of requests, users, e-mails and phones.  *)
(*                                                                         *)
(* Stale data has one way into Redis: the copy a findById took before a    *)
(* write and put there after it.  EntryHasCause says so of the entry, and  *)
(* with it StaleReadHasCause of whatever a request is given is inductive.  *)
(* Both hold on because two requests that overlapped have overlapped for   *)
(* good (StraddledStays).                                                  *)
(***************************************************************************)
EXTENDS UserCache, TLAPS

(***************************************************************************)
(* Requests ask for one of the modelled routes, and a PATCH has an e-mail  *)
(* and a phone.                                                            *)
(***************************************************************************)
LEMMA JobTypes ==
  ASSUME TypeOK, NEW r \in Requests
  PROVE  /\ job[r].op \in {"get", "deactivate", "reactivate", "patch"}
         /\ User(r) \in Users
         /\ job[r].op = "patch" => /\ job[r].email \in Emails \cup {Absent}
                                   /\ job[r].phone \in Phones \cup {Null, Absent}
  BY UserCacheAssumption DEF TypeOK, Job, User

(***************************************************************************)
(* What an UPDATE leaves: a row, no older than it was; a deactivation      *)
(* alone leaves an active user inactive, and a reactivation an active one. *)
(***************************************************************************)
LEMMA RewrittenRow ==
  ASSUME TypeOK, NEW r \in Requests, NEW row \in Row
  PROVE  /\ Rewritten(row, job[r]) \in Row
         /\ Rewritten(row, job[r]).rev >= row.rev
         /\ Rewritten(row, job[r]).email =
              IF job[r].op = "patch" /\ job[r].email # Absent THEN job[r].email ELSE row.email
         /\ job[r].op = "reactivate" => Rewritten(row, job[r]).active
         /\ row.active /\ job[r].op \notin {"get", "deactivate"} =>
              Rewritten(row, job[r]).active
  <1>1. CASE job[r].op = "patch"
    <2>. DEFINE email == IF job[r].email = Absent THEN row.email ELSE job[r].email
                phone == PhoneOf(job[r])
                rev   == row.rev + 1
    <2>1. phone \in Phones \cup {Null} /\ email \in Emails
      BY <1>1, JobTypes DEF PhoneOf, Row
    <2>2. rev \in Nat /\ rev >= row.rev
      BY DEF Row
    <2>3. Rewritten(row, job[r]) = [row EXCEPT !.email = email, !.phone = phone, !.rev = rev]
      BY <1>1 DEF Rewritten
    <2>. HIDE DEF email, phone, rev
    <2>4. /\ Rewritten(row, job[r]) \in Row
          /\ Rewritten(row, job[r]).rev = rev
          /\ Rewritten(row, job[r]).email = email
          /\ Rewritten(row, job[r]).active = row.active
      BY <2>1, <2>2, <2>3 DEF Row
    <2>5. QED
      BY <1>1, <2>2, <2>4 DEF email
  <1>2. CASE job[r].op # "patch" /\ row.active # (job[r].op = "reactivate")
    <2>. DEFINE active == job[r].op = "reactivate"
                rev    == row.rev + 1
    <2>1. rev \in Nat /\ rev >= row.rev
      BY DEF Row
    <2>2. Rewritten(row, job[r]) = [row EXCEPT !.active = active, !.rev = rev]
      BY <1>2, Zenon DEF Rewritten
    <2>3. active \in BOOLEAN
      OBVIOUS
    <2>. HIDE DEF active, rev
    <2>4. /\ Rewritten(row, job[r]) \in Row
          /\ Rewritten(row, job[r]).rev = rev
          /\ Rewritten(row, job[r]).email = row.email
          /\ Rewritten(row, job[r]).active = active
      BY <2>1, <2>2, <2>3 DEF Row
    <2>5. job[r].op = "reactivate" => active
      BY DEF active
    <2>6. row.active => active \/ job[r].op \in {"get", "deactivate"}
      BY <1>2, JobTypes DEF active
    <2>7. QED
      BY <1>2, <2>1, <2>4, <2>5, <2>6
  <1>3. CASE job[r].op # "patch" /\ row.active = (job[r].op = "reactivate")
    <2>1. Rewritten(row, job[r]) = row
      BY <1>3, Zenon DEF Rewritten
    <2>2. Rewritten(row, job[r]).rev >= row.rev
      BY <2>1 DEF Row
    <2>3. job[r].op = "reactivate" => row.active
      BY <1>3
    <2>4. QED
      BY <1>3, <2>1, <2>2, <2>3, Zenon
  <1>4. QED
    BY <1>1, <1>2, <1>3

(***************************************************************************)
(* The rows registration has left, and nobody has asked for anything.      *)
(***************************************************************************)
THEOREM InitInv == Init => Inv
  <1>. SUFFICES ASSUME Init PROVE Inv
    OBVIOUS
  <1>1. TypeOK
    <2>1. ASSUME NEW u \in Users PROVE users[u] \in Row
      <3>1. users[u] \in [email : Emails, phone : Phones \cup {Null},
                          active : {TRUE}, rev : {0}]
        BY DEF Init
      <3>2. TRUE \in BOOLEAN /\ 0 \in Nat
        OBVIOUS
      <3>3. QED
        BY <3>1, <3>2, Zenon DEF Row
    <2>2. users = [u \in Users |-> users[u]]
      BY DEF Init
    <2>3. users \in [Users -> Row]
      BY <2>1, <2>2
    <2>4. QED
      BY <2>3 DEF Init, TypeOK, Steps, Replies
  <1>2. WorkMatchesProgress
    <2>1. ASSUME NEW r \in Requests PROVE wrote[r] <= users[User(r)].rev
      <3>1. users[User(r)].rev = 0 /\ wrote[r] = 0
        BY <1>1, JobTypes DEF Init
      <3>2. QED
        BY <3>1
    <2>2. \A r \in Requests : pc[r] = "idle" /\ reply[r] = "none"
      BY DEF Init
    <2>3. QED
      BY <2>1, <2>2 DEF WorkMatchesProgress
  <1>3. QED
    BY <1>1, <1>2 DEF Init, Inv, HistoryIsPast, EntryHasCause, ReactivationsHold,
       OneUserPerEmail, StaleReadHasCause, ReactivatedIsFound, Succeeded

(***************************************************************************)
(* Types, step by step.                                                    *)
(***************************************************************************)
LEMMA NextTypes ==
  ASSUME TypeOK, [Next]_vars
  PROVE  TypeOK'
  <1>1. ASSUME NEW r \in Requests, Receive(r) PROVE TypeOK'
    BY <1>1 DEF Receive, Goto, TypeOK, Steps
  <1>2. ASSUME NEW r \in Requests, CacheGet(r) PROVE TypeOK'
    <2>1. cache[User(r)] \in Copy \cup {Nothing}
      BY JobTypes DEF TypeOK
    <2>2. QED
      BY <1>2, <2>1 DEF CacheGet, Goto, TypeOK, Steps
  <1>3. ASSUME NEW r \in Requests, Select(r) PROVE TypeOK'
    <2>1. CopyOf(users[User(r)]) \in Copy
      BY JobTypes DEF TypeOK, CopyOf, Row, Copy
    <2>2. QED
      BY <1>3, <2>1 DEF Select, Answer, Goto, TypeOK, Steps, Replies
  <1>4. ASSUME NEW r \in Requests, CacheSet(r) PROVE TypeOK'
    BY <1>4 DEF CacheSet, Goto, TypeOK, Steps
  <1>5. ASSUME NEW r \in Requests,
               Decide(r) \/ CheckEmail(r) \/ FindInactive(r) \/ CacheDelete(r) \/ Fault(r)
        PROVE  TypeOK'
    BY <1>5 DEF Decide, CheckEmail, FindInactive, CacheDelete, Fault, Answer, Goto, TypeOK,
       Steps, Replies
  <1>6. ASSUME NEW r \in Requests, Write(r) PROVE TypeOK'
    <2>1. User(r) \in Users /\ users[User(r)] \in Row
      BY JobTypes DEF TypeOK
    <2>2. Rewritten(users[User(r)], job[r]) \in Row
      BY <2>1, RewrittenRow
    <2>3. users' \in [Users -> Row] /\ wrote' \in [Requests -> Nat]
      BY <1>6, <2>1, <2>2 DEF Write, TypeOK, Row
    <2>4. QED
      BY <1>6, <2>3 DEF Write, Answer, Goto, TypeOK, Steps, Replies
  <1>7. ASSUME NEW u \in Users, Evict(u) PROVE TypeOK'
    BY <1>7 DEF Evict, TypeOK
  <1>8. CASE Crash
    BY <1>8 DEF Crash, TypeOK, Steps, Replies
  <1>9. CASE UNCHANGED vars
    BY <1>9 DEF vars, TypeOK
  <1>10. QED
    BY <1>1, <1>2, <1>3, <1>4, <1>5, <1>6, <1>7, <1>8, <1>9 DEF Next, Step

(***************************************************************************)
(* What a step leaves of a request: a job never changes, what was there    *)
(* before a request is settled when it is received, and a request that is  *)
(* over stays as it is.                                                    *)
(***************************************************************************)
LEMMA Lasting ==
  ASSUME TypeOK, [Next]_vars
  PROVE  /\ job' = job
         /\ \A r \in Requests :
              /\ pc[r] # "idle" => pc'[r] # "idle" /\ before'[r] = before[r]
              /\ pc[r] = "done" => /\ pc'[r] = "done"
                                   /\ reply'[r] = reply[r]
                                   /\ found'[r] = found[r]
                                   /\ wrote'[r] = wrote[r]
  <1>1. ASSUME NEW r \in Requests, Receive(r) \/ Step(r) \/ Fault(r)
        PROVE  /\ job' = job
               /\ \A q \in Requests \ {r} :
                    /\ pc'[q] = pc[q] /\ before'[q] = before[q] /\ reply'[q] = reply[q]
                    /\ found'[q] = found[q] /\ wrote'[q] = wrote[q]
               /\ pc[r] # "done"
               /\ pc[r] # "idle" => pc'[r] # "idle" /\ before'[r] = before[r]
    <2>1. CASE Receive(r)
      BY <2>1 DEF Receive, Goto, TypeOK
    <2>2. CASE CacheGet(r) \/ Select(r) \/ CacheSet(r)
      BY <2>2 DEF CacheGet, Select, CacheSet, Goto, Answer, TypeOK
    <2>3. CASE Decide(r) \/ CheckEmail(r) \/ FindInactive(r)
      BY <2>3 DEF Decide, CheckEmail, FindInactive, Goto, Answer, TypeOK
    <2>4. CASE Write(r) \/ CacheDelete(r) \/ Fault(r)
      BY <2>4 DEF Write, CacheDelete, Fault, Goto, Answer, InFlight, TypeOK
    <2>5. QED
      BY <1>1, <2>1, <2>2, <2>3, <2>4 DEF Step
  <1>2. ASSUME NEW u \in Users, Evict(u)
        PROVE  UNCHANGED <<job, pc, found, wrote, reply, before>>
    BY <1>2 DEF Evict
  <1>3. ASSUME Crash
        PROVE  /\ UNCHANGED <<job, found, wrote, before>>
               /\ \A r \in Requests :
                    /\ pc[r] = "done" => pc'[r] = "done" /\ reply'[r] = reply[r]
                    /\ pc[r] # "idle" => pc'[r] # "idle"
    BY <1>3 DEF Crash, InFlight, TypeOK
  <1>4. CASE UNCHANGED vars
    BY <1>4 DEF vars
  <1>5. QED
    BY <1>1, <1>2, <1>3, <1>4 DEF Next

(***************************************************************************)
(* A row is never replaced by an older one.                                *)
(***************************************************************************)
LEMMA RowsAge ==
  ASSUME TypeOK, [Next]_vars, NEW u \in Users
  PROVE  users'[u].rev >= users[u].rev
  <1>1. users[u].rev \in Nat
    BY DEF TypeOK, Row
  <1>2. ASSUME NEW r \in Requests, Write(r)
        PROVE  users'[u].rev >= users[u].rev
    <2>1. User(r) \in Users /\ users[User(r)] \in Row
      BY JobTypes DEF TypeOK
    <2>2. Rewritten(users[User(r)], job[r]).rev >= users[User(r)].rev
      BY <2>1, RewrittenRow
    <2>3. users' = users \/
          users' = [users EXCEPT ![User(r)] = Rewritten(users[User(r)], job[r])]
      BY <1>2 DEF Write
    <2>4. QED
      BY <1>1, <2>1, <2>2, <2>3 DEF TypeOK
  <1>3. \/ UNCHANGED users
        \/ \E r \in Requests : Write(r)
    BY DEF Next, vars, Receive, Step, Fault, Evict, Crash, CacheGet, Select, CacheSet,
       Decide,
       CheckEmail, FindInactive, CacheDelete
  <1>4. QED
    BY <1>1, <1>2, <1>3

(***************************************************************************)
(* A look-up that overlapped a write has overlapped it for good.           *)
(***************************************************************************)
LEMMA StraddledStays ==
  ASSUME TypeOK, [Next]_vars, NEW w \in Requests, pc[w] # "idle", Straddled(w)
  PROVE  Straddled(w)'
  <1>1. PICK q \in Requests \ {w} : ReadsUser(q) /\ User(q) = User(w) /\ Overlap(q, w)
    BY DEF Straddled
  <1>2. job' = job /\ pc'[q] # "idle" /\ before'[q] = before[q] /\ before'[w] = before[w]
    BY <1>1, Lasting DEF Overlap
  <1>3. QED
    BY <1>1, <1>2 DEF Straddled, ReadsUser, User, Overlap

(***************************************************************************)
(* A user that was deactivated after a request was received, was.          *)
(***************************************************************************)
LEMMA DeactivatedAnewStays ==
  ASSUME TypeOK, [Next]_vars, NEW w \in Requests, pc[w] # "idle", DeactivatedAnew(w)
  PROVE  DeactivatedAnew(w)'
  <1>1. PICK q \in Requests \ before[w] :
          job[q].op = "deactivate" /\ User(q) = User(w) /\ pc[q] # "idle"
    BY DEF DeactivatedAnew
  <1>2. job' = job /\ pc'[q] # "idle" /\ before'[w] = before[w]
    BY <1>1, Lasting
  <1>3. QED
    BY <1>1, <1>2 DEF DeactivatedAnew, User
(***************************************************************************)
(* What each step needs to have done before.                               *)
(***************************************************************************)
LEMMA NextWork ==
  ASSUME Inv, [Next]_vars
  PROVE  WorkMatchesProgress'
  <1>. USE DEF Inv
  <1>. SUFFICES ASSUME NEW r \in Requests
                PROVE  /\ reply'[r] # "none" => pc'[r] = "done"
                       /\ pc'[r] \in {"get", "select", "set", "decide", "checkEmail"} =>
                            ReadsUser(r)
                       /\ pc'[r] \in {"checkEmail", "findInactive", "write", "delete"} =>
                            Writes(r)
                       /\ wrote'[r] <= users'[User(r)].rev
    BY Lasting DEF WorkMatchesProgress, ReadsUser, Writes, User
  <1>1. wrote'[r] <= users'[User(r)].rev
    <2>1. /\ User(r) \in Users
          /\ wrote[r] \in Nat /\ wrote[r] <= users[User(r)].rev
          /\ users[User(r)].rev \in Nat /\ users'[User(r)].rev \in Nat
          /\ users'[User(r)].rev >= users[User(r)].rev
      BY JobTypes, NextTypes, RowsAge DEF TypeOK, Row, WorkMatchesProgress
    <2>2. CASE Write(r)
      BY <2>1, <2>2 DEF Write, TypeOK
    <2>3. CASE ~Write(r)
      <3>1. wrote'[r] = wrote[r]
        BY <2>3 DEF Next, vars, Receive, Step, Fault, Evict, Crash, CacheGet, Select,
           CacheSet,
           Decide, CheckEmail, FindInactive, CacheDelete, Write, TypeOK
      <3>2. QED
        BY <2>1, <3>1
    <2>4. QED
      BY <2>2, <2>3
  <1>2. ASSUME NEW q \in Requests, Receive(q) \/ Step(q) \/ Fault(q)
        PROVE  /\ reply'[r] # "none" => pc'[r] = "done"
               /\ pc'[r] \in {"get", "select", "set", "decide", "checkEmail"} =>
                    ReadsUser(r)
               /\ pc'[r] \in {"checkEmail", "findInactive", "write", "delete"} =>
                    Writes(r)
    <2>. USE DEF WorkMatchesProgress, TypeOK, Goto, Answer, ReadsUser, Writes
    <2>1. CASE Receive(q)
      BY <2>1 DEF Receive
    <2>2. CASE CacheGet(q) \/ Select(q) \/ CacheSet(q)
      BY <2>2 DEF CacheGet, Select, CacheSet
    <2>3. CASE Decide(q) \/ CheckEmail(q) \/ FindInactive(q)
      BY <2>3 DEF Decide, CheckEmail, FindInactive
    <2>4. CASE Write(q) \/ CacheDelete(q) \/ Fault(q)
      BY <2>4 DEF Write, CacheDelete, Fault
    <2>5. QED
      BY <1>2, <2>1, <2>2, <2>3, <2>4 DEF Step
  <1>3. ASSUME NEW u \in Users, Evict(u) PROVE pc' = pc /\ reply' = reply
    BY <1>3 DEF Evict
  <1>4. ASSUME Crash
        PROVE  /\ pc'[r] = "done" \/ pc'[r] = pc[r]
               /\ reply'[r] # "none" => pc'[r] = "done"
    BY <1>4 DEF Crash, WorkMatchesProgress, TypeOK
  <1>5. CASE UNCHANGED vars
    BY <1>1, <1>5 DEF vars, WorkMatchesProgress
  <1>6. QED
    BY <1>1, <1>2, <1>3, <1>4, <1>5 DEF Next, WorkMatchesProgress

(***************************************************************************)
(* Only what was over is before a request, and nobody is given a user      *)
(* before coming.                                                          *)
(***************************************************************************)
LEMMA NextHistory ==
  ASSUME Inv, [Next]_vars
  PROVE  HistoryIsPast'
  <1>. USE DEF Inv
  <1>1. ASSUME NEW r \in Requests
        PROVE  /\ pc'[r] = "idle" => before'[r] = {} /\ found'[r] = Nothing
               /\ \A q \in before'[r] : q \in before[r] \/ pc[q] = "done"
    BY DEF Next, vars, Receive, Step, Fault, Evict, Crash, CacheGet, Select, CacheSet,
       Decide,
       CheckEmail, FindInactive, CacheDelete, Write, TypeOK, HistoryIsPast, Goto, Answer
  <1>2. ASSUME NEW r \in Requests, NEW q \in before'[r]
        PROVE  pc'[q] = "done"
    <2>1. q \in Requests
      BY <1>2, NextTypes DEF TypeOK
    <2>2. QED
      BY <1>1, <1>2, <2>1, Lasting DEF HistoryIsPast
  <1>3. QED
    BY <1>1, <1>2 DEF HistoryIsPast

(***************************************************************************)
(* A request that has succeeded had, or has just done its last step.       *)
(***************************************************************************)
LEMMA NextSucceeded ==
  ASSUME Inv, [Next]_vars, NEW w \in Requests, Succeeded(w)'
  PROVE  \/ Succeeded(w) /\ pc[w] = "done"
         \/ job[w].op = "get"
         \/ CacheDelete(w)
  BY DEF Inv, Next, vars, Receive, Step, Fault, Evict, Crash, CacheGet, Select, CacheSet,
     Decide,
     CheckEmail, FindInactive, CacheDelete, Write, TypeOK, WorkMatchesProgress, Goto,
     Answer,
     Succeeded

(***************************************************************************)
(* Two users never get one e-mail: the unique index decides, whatever the  *)
(* look-ups before it saw.                                                 *)
(***************************************************************************)
LEMMA NextUnique ==
  ASSUME Inv, [Next]_vars
  PROVE  OneUserPerEmail'
  <1>. USE DEF Inv
  <1>1. ASSUME NEW r \in Requests, Write(r), ~Clashes(r) PROVE OneUserPerEmail'
    <2>1. User(r) \in Users /\ users[User(r)] \in Row
      BY JobTypes DEF TypeOK
    <2>2. /\ users'[User(r)] = Rewritten(users[User(r)], job[r])
          /\ \A u \in Users \ {User(r)} : users'[u] = users[u]
      BY <1>1, <2>1 DEF Write, TypeOK
    <2>3. \A u \in Users \ {User(r)} : users'[u].email # users'[User(r)].email
      <3>1. CASE job[r].op = "patch" /\ job[r].email # Absent
        <4>1. users'[User(r)].email = job[r].email
          BY <2>1, <2>2, <3>1, RewrittenRow
        <4>2. QED
          BY <1>1, <2>2, <3>1, <4>1 DEF Clashes, Owns
      <3>2. CASE ~(job[r].op = "patch" /\ job[r].email # Absent)
        <4>1. users'[User(r)].email = users[User(r)].email
          BY <2>1, <2>2, <3>2, RewrittenRow
        <4>2. QED
          BY <2>1, <2>2, <4>1 DEF OneUserPerEmail
      <3>3. QED
        BY <3>1, <3>2
    <2>4. QED
      BY <2>1, <2>2, <2>3 DEF OneUserPerEmail
  <1>2. \/ UNCHANGED users
        \/ \E r \in Requests : Write(r) /\ ~Clashes(r)
    BY DEF Next, vars, Receive, Step, Fault, Evict, Crash, CacheGet, Select, CacheSet,
       Decide,
       CheckEmail, FindInactive, CacheDelete, Write
  <1>3. QED
    BY <1>1, <1>2 DEF OneUserPerEmail

(***************************************************************************)
(* The entry: a copy put back by a look-up that began after a write is as  *)
(* new as the write, and any other look-up overlapped the write.           *)
(***************************************************************************)
LEMMA NextEntry ==
  ASSUME Inv, [Next]_vars
  PROVE  EntryHasCause'
  <1>. USE DEF Inv
  <1>. SUFFICES ASSUME NEW w \in Requests, Succeeded(w)', Writes(w)',
                       cache'[User(w)] # Nothing
                PROVE  cache'[User(w)].rev >= wrote'[w] \/ Straddled(w)'
    BY Lasting DEF EntryHasCause, User, Writes
  <1>1. Writes(w)
    BY Lasting DEF Writes
  <1>2. User(w) \in Users
    BY JobTypes
  <1>3. Succeeded(w) /\ pc[w] = "done"
    <2>1. ~CacheDelete(w)
      BY <1>2 DEF CacheDelete, TypeOK
    <2>2. QED
      BY <1>1, <2>1, NextSucceeded DEF Writes
  <1>4. wrote'[w] = wrote[w] /\ (Straddled(w) => Straddled(w)')
    BY <1>3, Lasting, StraddledStays
  <1>5. CASE cache'[User(w)] = cache[User(w)]
    BY <1>1, <1>3, <1>4, <1>5 DEF EntryHasCause
  <1>6. ASSUME NEW r \in Requests, CacheSet(r), User(r) = User(w)
        PROVE  cache'[User(w)].rev >= wrote'[w] \/ Straddled(w)'
    <2>1. cache'[User(w)] = found[r] /\ pc[r] = "set"
      BY <1>2, <1>6 DEF CacheSet, TypeOK
    <2>2. CASE w \in before[r]
      BY <1>1, <1>3, <1>4, <1>6, <2>1, <2>2 DEF StaleReadHasCause
    <2>3. CASE w \notin before[r]
      <3>1. ReadsUser(r) /\ r # w /\ r \notin before[w]
        BY <1>3, <2>1 DEF WorkMatchesProgress, HistoryIsPast
      <3>2. Straddled(w)
        BY <1>6, <2>1, <2>3, <3>1 DEF Straddled, Overlap
      <3>3. QED
        BY <1>4, <3>2
    <2>4. QED
      BY <2>2, <2>3
  <1>7. \/ cache'[User(w)] = cache[User(w)]
        \/ cache'[User(w)] = Nothing
        \/ \E r \in Requests : CacheSet(r) /\ User(r) = User(w)
    BY <1>2 DEF Next, vars, Receive, Step, Fault, Evict, Crash, CacheGet, Select, CacheSet,
       Decide, CheckEmail, FindInactive, CacheDelete, Write, TypeOK
  <1>8. QED
    BY <1>5, <1>6, <1>7

(***************************************************************************)
(* What a request is given, from the entry or from the row.                *)
(***************************************************************************)
LEMMA NextRead ==
  ASSUME Inv, [Next]_vars
  PROVE  StaleReadHasCause'
  <1>. USE DEF Inv
  <1>. SUFFICES ASSUME NEW r \in Requests, NEW w \in Requests,
                       w \in before'[r], Succeeded(w)', Writes(w)', User(w) = User(r),
                       found'[r] # Nothing
                PROVE  found'[r].rev >= wrote'[w] \/ Straddled(w)'
    BY Lasting DEF StaleReadHasCause, User, Writes
  <1>1. User(r) \in Users /\ Writes(w)
    BY JobTypes, Lasting DEF Writes
  <1>2. found'[r] # Nothing => pc[r] # "idle"
    BY DEF Next, vars, Receive, Step, Fault, Evict, Crash, CacheGet, Select, CacheSet,
       Decide,
       CheckEmail, FindInactive, CacheDelete, Write, TypeOK, HistoryIsPast
  <1>3. w \in before[r] /\ pc[w] = "done"
    BY <1>2, Lasting DEF HistoryIsPast
  <1>4. /\ Succeeded(w)
        /\ wrote'[w] = wrote[w]
        /\ Straddled(w) => Straddled(w)'
    BY <1>3, Lasting, StraddledStays DEF Succeeded
  <1>5. CASE found'[r] = found[r]
    BY <1>1, <1>3, <1>4, <1>5 DEF StaleReadHasCause
  <1>6. CASE found'[r] = cache[User(r)]
    BY <1>1, <1>3, <1>4, <1>6 DEF EntryHasCause
  <1>7. CASE found'[r] = CopyOf(users[User(r)])
    BY <1>1, <1>4, <1>7 DEF CopyOf, WorkMatchesProgress, TypeOK, Row
  <1>8. found'[r] \in {found[r], cache[User(r)], CopyOf(users[User(r)])}
    BY DEF Next, vars, Receive, Step, Fault, Evict, Crash, CacheGet, Select, CacheSet,
       Decide,
       CheckEmail, FindInactive, CacheDelete, Write, TypeOK
  <1>9. QED
    BY <1>5, <1>6, <1>7, <1>8

(***************************************************************************)
(* A reactivated user stays active until a deactivation comes.             *)
(***************************************************************************)
LEMMA NextReactivations ==
  ASSUME Inv, [Next]_vars
  PROVE  ReactivationsHold'
  <1>. USE DEF Inv
  <1>. SUFFICES ASSUME NEW w \in Requests, job[w].op = "reactivate",
                       pc'[w] = "delete" \/ Succeeded(w)'
                PROVE  users'[User(w)].active \/ DeactivatedAnew(w)'
    BY Lasting DEF ReactivationsHold, User
  <1>1. User(w) \in Users /\ users[User(w)] \in Row
    BY JobTypes DEF TypeOK
  <1>2. CASE Write(w)
    <2>1. users'[User(w)] = Rewritten(users[User(w)], job[w])
      BY <1>1, <1>2 DEF Write, Clashes, TypeOK
    <2>2. QED
      BY <1>1, <2>1, RewrittenRow
  <1>3. CASE ~Write(w)
    <2>1. pc[w] = "delete" \/ (Succeeded(w) /\ pc[w] = "done")
      <3>1. CASE Succeeded(w)'
        BY <3>1, NextSucceeded DEF CacheDelete
      <3>2. CASE pc'[w] = "delete"
        BY <1>3, <3>2 DEF Next, vars, Receive, Step, Fault, Evict, Crash, CacheGet, Select,
           CacheSet, Decide, CheckEmail, FindInactive, CacheDelete, Write, TypeOK, Goto,
           Answer
      <3>3. QED
        BY <3>1, <3>2
    <2>2. users[User(w)].active \/ DeactivatedAnew(w)
      BY <2>1 DEF ReactivationsHold
    <2>3. DeactivatedAnew(w) => DeactivatedAnew(w)'
      BY <2>1, DeactivatedAnewStays
    <2>4. ASSUME NEW q \in Requests, Write(q), User(q) = User(w), users[User(w)].active
          PROVE  users'[User(w)].active \/ DeactivatedAnew(w)
      <3>1. pc[q] = "write" /\ q \notin before[w] /\ job[q].op # "get"
        BY <2>4 DEF Write, HistoryIsPast, WorkMatchesProgress, Writes
      <3>2. CASE job[q].op = "deactivate"
        BY <2>4, <3>1, <3>2 DEF DeactivatedAnew
      <3>3. CASE job[q].op # "deactivate"
        <4>1. Rewritten(users[User(w)], job[q]).active
          BY <1>1, <2>4, <3>1, <3>3, RewrittenRow
        <4>2. users'[User(w)] \in {users[User(w)], Rewritten(users[User(w)], job[q])}
          BY <1>1, <2>4 DEF Write, TypeOK
        <4>3. QED
          BY <2>4, <4>1, <4>2
      <3>4. QED
        BY <3>2, <3>3
    <2>5. \/ users'[User(w)] = users[User(w)]
          \/ \E q \in Requests : Write(q) /\ User(q) = User(w)
      BY <1>1 DEF Next, vars, Receive, Step, Fault, Evict, Crash, CacheGet, Select,
         CacheSet,
         Decide, CheckEmail, FindInactive, CacheDelete, Write, TypeOK
    <2>6. QED
      BY <2>2, <2>3, <2>4, <2>5
  <1>4. QED
    BY <1>2, <1>3

(***************************************************************************)
(* Nobody is found only where the row says so.                             *)
(***************************************************************************)
LEMMA NextFound ==
  ASSUME Inv, [Next]_vars
  PROVE  ReactivatedIsFound'
  <1>. USE DEF Inv
  <1>. SUFFICES ASSUME NEW r \in Requests, NEW w \in Requests,
                       w \in before'[r], Succeeded(w)', job[w].op = "reactivate",
                       User(w) = User(r), reply'[r] = "notFound"
                PROVE  DeactivatedAnew(w)'
    BY Lasting DEF ReactivatedIsFound, User
  <1>1. \/ reply[r] = "notFound" /\ pc[r] = "done"
        \/ pc[r] = "select" /\ ~users[User(r)].active
    BY DEF Next, vars, Receive, Step, Fault, Evict, Crash, CacheGet, Select, CacheSet,
       Decide,
       CheckEmail, FindInactive, CacheDelete, Write, TypeOK, WorkMatchesProgress, Answer,
       Goto
  <1>2. w \in before[r] /\ pc[w] = "done"
    BY <1>1, Lasting DEF HistoryIsPast
  <1>3. Succeeded(w)
    BY <1>2, Lasting DEF Succeeded
  <1>4. DeactivatedAnew(w)
    BY <1>1, <1>2, <1>3 DEF ReactivatedIsFound, ReactivationsHold
  <1>5. QED
    BY <1>2, <1>4, DeactivatedAnewStays

-----------------------------------------------------------------------------
(***************************************************************************)
(* Every step keeps the invariant.                                         *)
(***************************************************************************)
THEOREM NextInv == Inv /\ [Next]_vars => Inv'
  <1>. SUFFICES ASSUME Inv, [Next]_vars PROVE Inv'
    OBVIOUS
  <1>1. TypeOK'
    BY NextTypes DEF Inv
  <1>2. QED
    BY <1>1, NextWork, NextHistory, NextEntry, NextReactivations, NextUnique, NextRead,
       NextFound
       DEF Inv

(***************************************************************************)
(* Inv holds in every reachable state.                                     *)
(***************************************************************************)
THEOREM AlwaysInv == Spec => []Inv
  BY InitInv, NextInv, PTL DEF Spec

(***************************************************************************)
(* However PATCHes and look-ups interleave, no e-mail ever has two users.  *)
(***************************************************************************)
THEOREM EmailsHaveOneUser == Spec => []OneUserPerEmail
  <1>1. Inv => OneUserPerEmail
    BY DEF Inv
  <1>2. QED
    BY <1>1, AlwaysInv, PTL

(***************************************************************************)
(* Old data is read after a write only when a look-up straddled the write. *)
(***************************************************************************)
THEOREM StaleReadsHaveCauses == Spec => []StaleReadHasCause
  <1>1. Inv => StaleReadHasCause
    BY DEF Inv
  <1>2. QED
    BY <1>1, AlwaysInv, PTL

(***************************************************************************)
(* A user whose reactivation was answered is found until deactivated anew. *)
(***************************************************************************)
THEOREM ReactivatedUsersAreFound == Spec => []ReactivatedIsFound
  <1>1. Inv => ReactivatedIsFound
    BY DEF Inv
  <1>2. QED
    BY <1>1, AlwaysInv, PTL
=============================================================================
