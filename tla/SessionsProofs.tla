--------------------------- MODULE SessionsProofs ---------------------------
(***************************************************************************)
(* Safety of Sessions for any number of requests, users and tokens.  None  *)
(* of the properties is inductive: each speaks of answered requests, and   *)
(* has to be carried from the statement that makes it true to the answer   *)
(* (SpentTokensAreGone and ReplaysStop for tokens; OldSessionsAreGone,     *)
(* OldRefreshesStop, DeactivationHolds and LoginsStop for deactivations),  *)
(* past the requests that come in between, whose tokens are new            *)
(* (RowsMatchProgress) and which are not over yet (HistoryIsPast).         *)
(***************************************************************************)
EXTENDS Sessions, TLAPS

(***************************************************************************)
(* What a job carries depends on what it asks for (the schemas of          *)
(* auth.ts).                                                               *)
(***************************************************************************)
LEMMA JobTypes ==
  ASSUME TypeOK, NEW r \in Requests
  PROVE  /\ job[r].op \in {"login", "deactivate", "reactivate"}
              => job[r].user \in Users
         /\ job[r].op \in {"refresh", "logout"} => job[r].token \in Tokens
         /\ job[r].op \in {"login", "deactivate", "reactivate", "refresh", "logout"}
  BY DEF TypeOK, Job

(***************************************************************************)
(* Before the first request, with some sessions open, the invariant holds. *)
(***************************************************************************)
THEOREM InitInv == Init => Inv
  <1>1. SUFFICES ASSUME Init PROVE Inv
    OBVIOUS
  <1>2. TypeOK
    BY <1>1, SessionsAssumption DEF TypeOK, Init, Row, Tokens, Steps, Replies
  <1>3. WorkMatchesProgress /\ HistoryIsPast
    BY <1>1, SessionsAssumption DEF WorkMatchesProgress, HistoryIsPast, Init,
       Issues, Presents
  <1>4. RowsMatchProgress
    BY <1>1, SessionsAssumption DEF RowsMatchProgress, Init, Issues, Subject
  <1>5. SpentTokensAreGone /\ ReplaysStop
    BY <1>1, SessionsAssumption DEF SpentTokensAreGone, ReplaysStop, Init,
       Spent, Presents, Succeeded
  <1>6. OldSessionsAreGone /\ OldRefreshesStop /\ DeactivationHolds /\ LoginsStop
    BY <1>1, SessionsAssumption DEF OldSessionsAreGone, OldRefreshesStop, DeactivationHolds,
       LoginsStop, Init, Succeeded, Asks, Reactivated
  <1>7. SessionsLast
    BY <1>1, SessionsAssumption DEF SessionsLast, Init, Succeeded, Issues,
       RowsWithToken, Presents, Asks, Subject
  <1>8. QED
    BY <1>2, <1>3, <1>4, <1>5, <1>6, <1>7 DEF Inv

(***************************************************************************)
(* A refresh received after a deactivation was answered meets none of the  *)
(* sessions handed out before it; a refresh that has met one was received  *)
(* earlier, and answers are never taken back.                              *)
(***************************************************************************)
LEMMA NextOldRefreshes ==
  ASSUME Inv, [Next]_vars
  PROVE  OldRefreshesStop'
  <1>. DEFINE Past(s) == Succeeded(s) \/ pc[s] \in {"delete", "create"}
  <1>. SUFFICES ASSUME NEW r \in Requests, NEW s \in Requests,
                       reply'[r] = "ok", r \in before'[s], job'[s].op = "refresh",
                       Asks(r, "deactivate", found[s])', Past(s)'
                PROVE  job'[s].token \notin Seeds \cup before'[r]
    BY DEF OldRefreshesStop, Succeeded
  <1>. USE DEF Inv
  <1>1. pc[r] = "done" => reply'[r] = reply[r] /\ before'[r] = before[r]
    BY DEF Next, Step, Receive, LoginFind, ReactivateFind, DeactivateFind, RefreshFind,
       DeleteToken, Blacklist, Create, DeleteAll, SetInactive, SetActive, Uncache, Expire,
       Cleanup, Fault, Crash, vars, Answer, Goto, InFlight, TypeOK
  <1>2. job' = job
    BY DEF Next, Step, Receive, LoginFind, ReactivateFind, DeactivateFind, RefreshFind,
       DeleteToken, Blacklist, Create, DeleteAll, SetInactive, SetActive, Uncache, Expire,
       Cleanup, Fault, Crash, vars
  <1>3. ASSUME found'[s] = found[s], before'[s] = before[s], Past(s)
        PROVE  job'[s].token \notin Seeds \cup before'[r]
    <2>1. pc[r] = "done"
      BY <1>3 DEF HistoryIsPast
    <2>2. reply[r] = "ok" /\ before'[r] = before[r]
      BY <1>1, <2>1
    <2>3. Asks(r, "deactivate", found[s])
      BY <1>2, <1>3 DEF Asks
    <2>4. QED
      BY <1>2, <1>3, <2>2, <2>3 DEF OldRefreshesStop, Succeeded
  <1>4. ASSUME RefreshFind(s)
        PROVE  job'[s].token \notin Seeds \cup before'[r]
    <2>1. r \in before[s] /\ pc[r] = "done"
      BY <1>4 DEF RefreshFind, HistoryIsPast
    <2>2. reply[r] = "ok" /\ before'[r] = before[r]
      BY <1>1, <2>1
    <2>3. PICK row \in sessions : row.token = job[s].token /\ found'[s] = row.user
      <3>1. ~Answer(s, "refused")
        BY DEF Answer, Goto, TypeOK, Succeeded
      <3>2. PICK row \in RowsWithToken(job[s].token) :
              found' = [found EXCEPT ![s] = row.user]
        BY <1>4, <3>1 DEF RefreshFind
      <3>3. QED
        BY <3>2 DEF RowsWithToken, TypeOK
    <2>4. Asks(r, "deactivate", row.user)
      BY <1>2, <2>3 DEF Asks
    <2>5. QED
      BY <1>2, <2>2, <2>3, <2>4 DEF OldSessionsAreGone, Succeeded
  <1>5. \/ RefreshFind(s)
        \/ found'[s] = found[s] /\ before'[s] = before[s] /\ Past(s)
    <2>1. ASSUME NEW q \in Requests, q # s, Receive(q) \/ Step(q) \/ Fault(q)
          PROVE  /\ found'[s] = found[s] /\ before'[s] = before[s]
                 /\ pc'[s] = pc[s] /\ reply'[s] = reply[s]
      BY <2>1 DEF Step, Receive, LoginFind, ReactivateFind, DeactivateFind, RefreshFind,
         DeleteToken, Blacklist, Create, DeleteAll, SetInactive, SetActive, Uncache, Fault,
         Answer, Goto, TypeOK
    <2>2. CASE Receive(s) \/ Fault(s) \/ (Step(s) /\ ~RefreshFind(s))
      <3>1. job[s].op = "refresh"
        BY <1>2
      <3>2. CASE Receive(s) \/ Fault(s)
        BY <3>1, <3>2 DEF Receive, Fault, Answer, Goto, TypeOK, WorkMatchesProgress, Succeeded
      <3>3. CASE Step(s) /\ ~RefreshFind(s)
        <4>1. DeleteToken(s) \/ Create(s)
          BY <3>1, <3>3 DEF Step, LoginFind, ReactivateFind, DeactivateFind, Blacklist,
             DeleteAll, SetInactive, SetActive, Uncache, WorkMatchesProgress
        <4>2. QED
          BY <4>1 DEF DeleteToken, Create
      <3>4. QED
        BY <2>2, <3>2, <3>3
    <2>3. CASE Crash \/ Cleanup \/ (\E row \in sessions : Expire(row)) \/ UNCHANGED vars
      BY <2>3 DEF Crash, Cleanup, Expire, vars, TypeOK, Succeeded, InFlight
    <2>4. QED
      BY <2>1, <2>2, <2>3 DEF Next, Succeeded
  <1>6. QED
    BY <1>3, <1>4, <1>5

(***************************************************************************)
(* Each statement of a request, expiry, the clean-up, faults and a crash   *)
(* preserve the invariant.                                                 *)
(***************************************************************************)
THEOREM NextInv == Inv /\ [Next]_vars => Inv'
  <1>. SUFFICES ASSUME Inv, [Next]_vars PROVE Inv'
    OBVIOUS
  <1>0. /\ TypeOK /\ WorkMatchesProgress /\ HistoryIsPast
        /\ RowsMatchProgress /\ SpentTokensAreGone /\ ReplaysStop
        /\ OldSessionsAreGone /\ DeactivationHolds /\ LoginsStop
        /\ SessionsLast
    BY DEF Inv
  <1>a. OldRefreshesStop'
    BY NextOldRefreshes
  <1>1. ASSUME NEW q \in Requests, Receive(q) PROVE Inv'
    <2>1. (TypeOK /\ WorkMatchesProgress /\ HistoryIsPast
           /\ RowsMatchProgress)'
      BY <1>0, <1>1 DEF Receive, TypeOK, WorkMatchesProgress, HistoryIsPast,
         RowsMatchProgress, Presents, Goto, Row, Tokens, Steps, Replies,
         Issues, Subject
    <2>2. (SpentTokensAreGone /\ ReplaysStop)'
      BY <1>0, <1>1 DEF Receive, SpentTokensAreGone, ReplaysStop, TypeOK,
         WorkMatchesProgress, Presents, Goto, Spent, Succeeded, Row, Tokens,
         Steps, Replies, Issues
    <2>3. (OldSessionsAreGone /\ DeactivationHolds /\ LoginsStop)'
      BY <1>0, <1>1 DEF Receive, OldSessionsAreGone, DeactivationHolds,
         LoginsStop, TypeOK, WorkMatchesProgress, Presents, Goto, Succeeded,
         Asks, Reactivated, Row, Tokens, Steps, Replies, Issues
    <2>4. SessionsLast'
      BY <1>0, <1>1 DEF Receive, SessionsLast, TypeOK, WorkMatchesProgress,
         Presents, Goto, Succeeded, Issues, RowsWithToken, Asks, Subject, Row,
         Tokens, Steps, Replies
    <2>5. QED
      BY <1>a, <2>1, <2>2, <2>3, <2>4 DEF Inv
  <1>2. ASSUME NEW q \in Requests, LoginFind(q) PROVE Inv'
    <2>1. (TypeOK /\ WorkMatchesProgress /\ HistoryIsPast
           /\ RowsMatchProgress)'
      BY <1>0, <1>2 DEF LoginFind, TypeOK, WorkMatchesProgress, HistoryIsPast,
         RowsMatchProgress, Goto, Answer, Row, Tokens, Steps, Replies, Issues,
         Presents, Subject
    <2>2. (SpentTokensAreGone /\ ReplaysStop)'
      BY <1>0, <1>2 DEF LoginFind, SpentTokensAreGone, ReplaysStop, TypeOK,
         WorkMatchesProgress, Goto, Answer, Spent, Presents, Succeeded, Row,
         Tokens, Steps, Replies, Issues
    <2>3. (OldSessionsAreGone /\ DeactivationHolds /\ LoginsStop)'
      BY <1>0, <1>2 DEF LoginFind, OldSessionsAreGone, DeactivationHolds,
         LoginsStop, TypeOK, WorkMatchesProgress, HistoryIsPast, Goto, Answer,
         Succeeded, Asks, Reactivated, Row, Tokens, Steps, Replies, Issues,
         Presents
    <2>4. SessionsLast'
      BY <1>0, <1>2 DEF LoginFind, SessionsLast, TypeOK, Goto, Answer,
         Succeeded, Issues, RowsWithToken, Presents, Asks, Subject, Row,
         Tokens, Steps, Replies
    <2>5. QED
      BY <1>a, <2>1, <2>2, <2>3, <2>4 DEF Inv
  <1>3. ASSUME NEW q \in Requests, ReactivateFind(q) PROVE Inv'
    <2>1. (TypeOK /\ WorkMatchesProgress /\ HistoryIsPast
           /\ RowsMatchProgress)'
      BY <1>0, <1>3 DEF ReactivateFind, TypeOK, WorkMatchesProgress,
         HistoryIsPast, RowsMatchProgress, Goto, Answer, Row, Tokens, Steps,
         Replies, Issues, Presents, Subject
    <2>2. (SpentTokensAreGone /\ ReplaysStop)'
      BY <1>0, <1>3 DEF ReactivateFind, SpentTokensAreGone, ReplaysStop,
         TypeOK, WorkMatchesProgress, Goto, Answer, Spent, Presents, Succeeded,
         Row, Tokens, Steps, Replies, Issues
    <2>3. (OldSessionsAreGone /\ DeactivationHolds /\ LoginsStop)'
      BY <1>0, <1>3 DEF ReactivateFind, OldSessionsAreGone, DeactivationHolds,
         LoginsStop, TypeOK, WorkMatchesProgress, Goto, Answer, Succeeded,
         Asks, Reactivated, Row, Tokens, Steps, Replies, Issues
    <2>4. SessionsLast'
      BY <1>0, <1>3 DEF ReactivateFind, SessionsLast, TypeOK, Goto, Answer,
         Succeeded, Issues, RowsWithToken, Presents, Asks, Subject, Row,
         Tokens, Steps, Replies
    <2>5. QED
      BY <1>a, <2>1, <2>2, <2>3, <2>4 DEF Inv
  <1>4. ASSUME NEW q \in Requests, DeactivateFind(q) PROVE Inv'
    <2>1. (TypeOK /\ WorkMatchesProgress /\ HistoryIsPast
           /\ RowsMatchProgress)'
      BY <1>0, <1>4 DEF DeactivateFind, TypeOK, WorkMatchesProgress,
         HistoryIsPast, RowsMatchProgress, Goto, Answer, Row, Tokens, Steps,
         Replies, Issues, Presents, Subject
    <2>2. (SpentTokensAreGone /\ ReplaysStop)'
      BY <1>0, <1>4 DEF DeactivateFind, SpentTokensAreGone, ReplaysStop,
         TypeOK, WorkMatchesProgress, Goto, Answer, Spent, Presents, Succeeded,
         Row, Tokens, Steps, Replies, Issues
    <2>3. (OldSessionsAreGone /\ DeactivationHolds /\ LoginsStop)'
      BY <1>0, <1>4 DEF DeactivateFind, OldSessionsAreGone, DeactivationHolds,
         LoginsStop, TypeOK, WorkMatchesProgress, Goto, Answer, Succeeded,
         Asks, Reactivated, Row, Tokens, Steps, Replies, Issues
    <2>4. SessionsLast'
      BY <1>0, <1>4 DEF DeactivateFind, SessionsLast, TypeOK, Goto, Answer,
         Succeeded, Issues, RowsWithToken, Presents, Asks, Subject, Row,
         Tokens, Steps, Replies
    <2>5. QED
      BY <1>a, <2>1, <2>2, <2>3, <2>4 DEF Inv
  <1>5. ASSUME NEW q \in Requests, RefreshFind(q) PROVE Inv'
    <2>1. (TypeOK /\ WorkMatchesProgress /\ HistoryIsPast
           /\ RowsMatchProgress)'
      BY <1>0, <1>5 DEF RefreshFind, TypeOK, WorkMatchesProgress,
         HistoryIsPast, RowsMatchProgress, RowsWithToken, Answer, Goto, Row,
         Tokens, Steps, Replies, Issues, Presents, Subject
    <2>2. (SpentTokensAreGone /\ ReplaysStop)'
      BY <1>0, <1>5 DEF RefreshFind, SpentTokensAreGone, ReplaysStop, TypeOK,
         WorkMatchesProgress, HistoryIsPast, RowsWithToken, Answer, Goto,
         Spent, Presents, Succeeded, Row, Tokens, Steps, Replies, Issues
    <2>3. (OldSessionsAreGone /\ DeactivationHolds /\ LoginsStop)'
      BY <1>0, <1>5 DEF RefreshFind, OldSessionsAreGone, DeactivationHolds,
         LoginsStop, TypeOK, WorkMatchesProgress, RowsWithToken, Answer, Goto,
         Succeeded, Asks, Reactivated, Row, Tokens, Steps, Replies, Issues
    <2>4. SessionsLast'
      BY <1>0, <1>5 DEF RefreshFind, SessionsLast, TypeOK, WorkMatchesProgress,
         RowsWithToken, Answer, Goto, Succeeded, Issues, Presents, Asks,
         Subject, Row, Tokens, Steps, Replies
    <2>5. QED
      BY <1>a, <2>1, <2>2, <2>3, <2>4 DEF Inv
  <1>6. ASSUME NEW q \in Requests, DeleteToken(q) PROVE Inv'
    <2>1. (TypeOK /\ WorkMatchesProgress /\ HistoryIsPast
           /\ RowsMatchProgress)'
      BY <1>0, <1>6 DEF DeleteToken, TypeOK, WorkMatchesProgress,
         HistoryIsPast, RowsMatchProgress, RowsWithToken, Goto, Row, Tokens,
         Steps, Replies, Issues, Presents, Subject
    <2>2. (SpentTokensAreGone /\ ReplaysStop)'
      BY <1>0, <1>6 DEF DeleteToken, SpentTokensAreGone, ReplaysStop, TypeOK,
         WorkMatchesProgress, RowsWithToken, Goto, Spent, Presents, Succeeded,
         Row, Tokens, Steps, Replies, Issues
    <2>3. (OldSessionsAreGone /\ DeactivationHolds /\ LoginsStop)'
      BY <1>0, <1>6 DEF DeleteToken, OldSessionsAreGone, DeactivationHolds,
         LoginsStop, TypeOK, WorkMatchesProgress, RowsWithToken, Goto,
         Succeeded, Asks, Reactivated, Row, Tokens, Steps, Replies, Issues
    <2>4. SessionsLast'
      BY <1>0, <1>6 DEF DeleteToken, SessionsLast, TypeOK, WorkMatchesProgress,
         HistoryIsPast, RowsWithToken, Goto, Succeeded, Issues, Presents, Asks,
         Subject, Row, Tokens, Steps, Replies
    <2>5. QED
      BY <1>a, <2>1, <2>2, <2>3, <2>4 DEF Inv
  <1>7. ASSUME NEW q \in Requests, Blacklist(q) PROVE Inv'
    <2>1. (TypeOK /\ WorkMatchesProgress /\ HistoryIsPast
           /\ RowsMatchProgress)'
      BY <1>0, <1>7 DEF Blacklist, TypeOK, WorkMatchesProgress, HistoryIsPast,
         RowsMatchProgress, Answer, Row, Tokens, Steps, Replies, Issues,
         Presents, Subject, Goto
    <2>2. (SpentTokensAreGone /\ ReplaysStop)'
      BY <1>0, <1>7 DEF Blacklist, SpentTokensAreGone, ReplaysStop, TypeOK,
         WorkMatchesProgress, HistoryIsPast, Answer, Spent, Presents,
         Succeeded, Row, Tokens, Steps, Replies, Issues, Goto
    <2>3. (OldSessionsAreGone /\ DeactivationHolds /\ LoginsStop)'
      BY <1>0, <1>7 DEF Blacklist, OldSessionsAreGone, DeactivationHolds,
         LoginsStop, TypeOK, WorkMatchesProgress, Answer, Succeeded, Asks,
         Reactivated, Row, Tokens, Steps, Replies, Issues, Goto
    <2>4. SessionsLast'
      BY <1>0, <1>7 DEF Blacklist, SessionsLast, TypeOK, WorkMatchesProgress,
         Answer, Succeeded, Issues, RowsWithToken, Presents, Asks, Subject,
         Row, Tokens, Steps, Replies, Goto
    <2>5. QED
      BY <1>a, <2>1, <2>2, <2>3, <2>4 DEF Inv
  <1>8. ASSUME NEW q \in Requests, Create(q) PROVE Inv'
    <2>1. (TypeOK /\ WorkMatchesProgress /\ HistoryIsPast
           /\ RowsMatchProgress)'
      BY <1>0, <1>8, JobTypes, SessionsAssumption DEF Create, TypeOK,
         WorkMatchesProgress, HistoryIsPast, RowsMatchProgress, Subject,
         Answer, Row, Tokens, Steps, Replies, Issues, Presents, Goto
    <2>2. (SpentTokensAreGone /\ ReplaysStop)'
      BY <1>0, <1>8 DEF Create, SpentTokensAreGone, ReplaysStop, TypeOK,
         WorkMatchesProgress, HistoryIsPast, Subject, Answer, Spent, Presents,
         Succeeded, Row, Tokens, Steps, Replies, Issues, Goto
    <2>3. (OldSessionsAreGone /\ DeactivationHolds /\ LoginsStop)'
      BY <1>0, <1>8, JobTypes, SessionsAssumption DEF Create,
         OldSessionsAreGone, DeactivationHolds, LoginsStop, TypeOK,
         WorkMatchesProgress, HistoryIsPast, RowsMatchProgress, Subject,
         Answer, Succeeded, Asks, Reactivated, Row, Tokens, Steps, Replies,
         Issues, Presents, Goto
    <2>4. SessionsLast'
      <3>1. SUFFICES ASSUME NEW s \in Requests,
                            (Succeeded(s) /\ Issues(s) /\ RowsWithToken(s) = {})'
                     PROVE  s \in expired
                            \/ \E r \in Requests \ before[s] :
                                 /\ pc'[r] # "idle"
                                 /\ Presents(r, s) \/ Asks(r, "deactivate", Subject(s))
        BY <1>8 DEF SessionsLast, Create, Presents, Asks, Subject
      <3>2. [token |-> q, user |-> Subject(q)] \in sessions'
        BY <1>8 DEF Create
      <3>3. s # q
        BY <3>1, <3>2 DEF RowsWithToken
      <3>4. Succeeded(s) /\ Issues(s) /\ RowsWithToken(s) = {}
        BY <1>0, <1>8, <3>1, <3>3
           DEF Create, Answer, Goto, TypeOK, Succeeded, Issues, RowsWithToken
      <3>5. PICK answer \in {"ok", "error"} : Answer(q, answer)
        BY <1>8 DEF Create
      <3>6. \A r \in Requests : pc[r] # "idle" => pc'[r] # "idle"
        BY <1>0, <3>5 DEF Answer, Goto, TypeOK
      <3>7. QED
        BY <1>0, <3>1, <3>4, <3>6 DEF SessionsLast
    <2>5. QED
      BY <1>a, <2>1, <2>2, <2>3, <2>4 DEF Inv
  <1>9. ASSUME NEW q \in Requests, DeleteAll(q) PROVE Inv'
    <2>1. (TypeOK /\ WorkMatchesProgress /\ HistoryIsPast
           /\ RowsMatchProgress)'
      BY <1>0, <1>9 DEF DeleteAll, TypeOK, WorkMatchesProgress, HistoryIsPast,
         RowsMatchProgress, RowsOfUser, Goto, Row, Tokens, Steps, Replies,
         Issues, Presents, Subject
    <2>2. (SpentTokensAreGone /\ ReplaysStop)'
      BY <1>0, <1>9 DEF DeleteAll, SpentTokensAreGone, ReplaysStop, TypeOK,
         RowsOfUser, Goto, Spent, Presents, Succeeded, Row, Tokens, Steps,
         Replies
    <2>3. (OldSessionsAreGone /\ DeactivationHolds /\ LoginsStop)'
      BY <1>0, <1>9 DEF DeleteAll, OldSessionsAreGone, DeactivationHolds,
         LoginsStop, TypeOK, RowsOfUser, Goto, Succeeded, Asks, Reactivated,
         Row, Tokens, Steps, Replies
    <2>4. SessionsLast'
      BY <1>0, <1>9 DEF DeleteAll, SessionsLast, TypeOK, WorkMatchesProgress,
         HistoryIsPast, RowsMatchProgress, RowsOfUser, Goto, Succeeded, Issues,
         RowsWithToken, Presents, Asks, Subject, Row, Tokens, Steps, Replies
    <2>5. QED
      BY <1>a, <2>1, <2>2, <2>3, <2>4 DEF Inv
  <1>10. ASSUME NEW q \in Requests, SetInactive(q) PROVE Inv'
    <2>1. (TypeOK /\ WorkMatchesProgress /\ HistoryIsPast
           /\ RowsMatchProgress)'
      BY <1>0, <1>10 DEF SetInactive, TypeOK, WorkMatchesProgress,
         HistoryIsPast, RowsMatchProgress, Goto, Row, Tokens, Steps, Replies,
         Issues, Presents, Subject
    <2>2. (SpentTokensAreGone /\ ReplaysStop)'
      BY <1>0, <1>10 DEF SetInactive, SpentTokensAreGone, ReplaysStop, TypeOK,
         WorkMatchesProgress, Goto, Spent, Presents, Succeeded, Row, Tokens,
         Steps, Replies, Issues
    <2>3. (OldSessionsAreGone /\ DeactivationHolds /\ LoginsStop)'
      BY <1>0, <1>10 DEF SetInactive, OldSessionsAreGone, DeactivationHolds,
         LoginsStop, TypeOK, WorkMatchesProgress, Goto, Succeeded, Asks,
         Reactivated, Row, Tokens, Steps, Replies, Issues
    <2>4. SessionsLast'
      BY <1>0, <1>10 DEF SetInactive, SessionsLast, TypeOK, Goto, Succeeded,
         Issues, RowsWithToken, Presents, Asks, Subject, Row, Tokens, Steps,
         Replies
    <2>5. QED
      BY <1>a, <2>1, <2>2, <2>3, <2>4 DEF Inv
  <1>11. ASSUME NEW q \in Requests, SetActive(q) PROVE Inv'
    <2>1. (TypeOK /\ WorkMatchesProgress /\ HistoryIsPast
           /\ RowsMatchProgress)'
      BY <1>0, <1>11, JobTypes DEF SetActive, TypeOK, WorkMatchesProgress,
         HistoryIsPast, RowsMatchProgress, Goto, Row, Tokens, Steps, Replies,
         Issues, Presents, Subject
    <2>2. (SpentTokensAreGone /\ ReplaysStop)'
      BY <1>0, <1>11 DEF SetActive, SpentTokensAreGone, ReplaysStop, TypeOK,
         WorkMatchesProgress, Goto, Spent, Presents, Succeeded, Row, Tokens,
         Steps, Replies, Issues
    <2>3. (OldSessionsAreGone /\ DeactivationHolds /\ LoginsStop)'
      BY <1>0, <1>11 DEF SetActive, OldSessionsAreGone, DeactivationHolds,
         LoginsStop, TypeOK, WorkMatchesProgress, HistoryIsPast, Goto,
         Succeeded, Asks, Reactivated, Row, Tokens, Steps, Replies, Issues,
         Presents
    <2>4. SessionsLast'
      BY <1>0, <1>11 DEF SetActive, SessionsLast, TypeOK, Goto, Succeeded,
         Issues, RowsWithToken, Presents, Asks, Subject, Row, Tokens, Steps,
         Replies
    <2>5. QED
      BY <1>a, <2>1, <2>2, <2>3, <2>4 DEF Inv
  <1>12. ASSUME NEW q \in Requests, Uncache(q) PROVE Inv'
    <2>1. (TypeOK /\ WorkMatchesProgress /\ HistoryIsPast
           /\ RowsMatchProgress)'
      BY <1>0, <1>12 DEF Uncache, TypeOK, WorkMatchesProgress, HistoryIsPast,
         RowsMatchProgress, Answer, Goto, Row, Tokens, Steps, Replies, Issues,
         Presents, Subject
    <2>2. (SpentTokensAreGone /\ ReplaysStop)'
      BY <1>0, <1>12 DEF Uncache, SpentTokensAreGone, ReplaysStop, TypeOK,
         WorkMatchesProgress, Answer, Goto, Spent, Presents, Succeeded, Row,
         Tokens, Steps, Replies, Issues
    <2>3. (OldSessionsAreGone /\ DeactivationHolds)'
      BY <1>0, <1>12 DEF Uncache, OldSessionsAreGone, DeactivationHolds,
         TypeOK, WorkMatchesProgress, Answer, Goto, Succeeded, Asks,
         Reactivated, Row, Tokens, Steps, Replies, Issues
    <2>4. LoginsStop'
      BY <1>0, <1>12 DEF Uncache, LoginsStop, TypeOK, WorkMatchesProgress,
         HistoryIsPast, Answer, Goto, Succeeded, Asks, Reactivated, Row,
         Tokens, Steps, Replies, Issues, Presents
    <2>5. SessionsLast'
      BY <1>0, <1>12 DEF Uncache, SessionsLast, TypeOK, Answer, Goto,
         Succeeded, Issues, RowsWithToken, Presents, Asks, Subject, Row,
         Tokens, Steps, Replies
    <2>6. QED
      BY <1>a, <2>1, <2>2, <2>3, <2>4, <2>5 DEF Inv
  <1>13. ASSUME NEW q \in Requests, Fault(q) PROVE Inv'
    <2>1. (TypeOK /\ WorkMatchesProgress /\ HistoryIsPast
           /\ RowsMatchProgress)'
      BY <1>0, <1>13 DEF Fault, TypeOK, WorkMatchesProgress, HistoryIsPast,
         RowsMatchProgress, InFlight, Answer, Row, Tokens, Steps, Replies,
         Issues, Presents, Subject, Goto
    <2>2. (SpentTokensAreGone /\ ReplaysStop)'
      BY <1>0, <1>13 DEF Fault, SpentTokensAreGone, ReplaysStop, TypeOK,
         WorkMatchesProgress, InFlight, Answer, Spent, Presents, Succeeded,
         Row, Tokens, Steps, Replies, Issues, Goto
    <2>3. (OldSessionsAreGone /\ DeactivationHolds /\ LoginsStop)'
      BY <1>0, <1>13 DEF Fault, OldSessionsAreGone, DeactivationHolds,
         LoginsStop, TypeOK, WorkMatchesProgress, InFlight, Answer, Succeeded,
         Asks, Reactivated, Row, Tokens, Steps, Replies, Issues, Goto
    <2>4. SessionsLast'
      BY <1>0, <1>13 DEF Fault, SessionsLast, TypeOK, InFlight, Answer,
         Succeeded, Issues, RowsWithToken, Presents, Asks, Subject, Row,
         Tokens, Steps, Replies, Goto
    <2>5. QED
      BY <1>a, <2>1, <2>2, <2>3, <2>4 DEF Inv
  <1>14. ASSUME NEW row \in sessions, Expire(row) PROVE Inv'
    <2>1. (TypeOK /\ WorkMatchesProgress /\ HistoryIsPast
           /\ RowsMatchProgress)'
      BY <1>0, <1>14 DEF Expire, TypeOK, WorkMatchesProgress, HistoryIsPast,
         RowsMatchProgress, Row, Tokens, Steps, Replies, Issues, Presents,
         Subject
    <2>2. (SpentTokensAreGone /\ ReplaysStop)'
      BY <1>0, <1>14 DEF Expire, SpentTokensAreGone, ReplaysStop, TypeOK,
         WorkMatchesProgress, Spent, Presents, Succeeded, Row, Tokens, Steps,
         Replies, Issues
    <2>3. (OldSessionsAreGone /\ DeactivationHolds /\ LoginsStop)'
      BY <1>0, <1>14 DEF Expire, OldSessionsAreGone, DeactivationHolds,
         LoginsStop, TypeOK, WorkMatchesProgress, Succeeded, Asks, Reactivated,
         Row, Tokens, Steps, Replies, Issues
    <2>4. SessionsLast'
      BY <1>0, <1>14 DEF Expire, SessionsLast, TypeOK, Succeeded, Issues,
         RowsWithToken, Presents, Asks, Subject, Row, Tokens, Steps, Replies
    <2>5. QED
      BY <1>a, <2>1, <2>2, <2>3, <2>4 DEF Inv
  <1>15. CASE Cleanup
    <2>1. (TypeOK /\ WorkMatchesProgress /\ HistoryIsPast
           /\ RowsMatchProgress)'
      BY <1>0, <1>15 DEF Cleanup, TypeOK, WorkMatchesProgress, HistoryIsPast,
         RowsMatchProgress, Row, Tokens, Steps, Replies, Issues, Presents,
         Subject
    <2>2. (SpentTokensAreGone /\ ReplaysStop)'
      BY <1>0, <1>15 DEF Cleanup, SpentTokensAreGone, ReplaysStop, TypeOK,
         WorkMatchesProgress, Spent, Presents, Succeeded, Row, Tokens, Steps,
         Replies, Issues
    <2>3. (OldSessionsAreGone /\ DeactivationHolds /\ LoginsStop)'
      BY <1>0, <1>15 DEF Cleanup, OldSessionsAreGone, DeactivationHolds,
         LoginsStop, TypeOK, WorkMatchesProgress, Succeeded, Asks, Reactivated,
         Row, Tokens, Steps, Replies, Issues
    <2>4. SessionsLast'
      BY <1>0, <1>15 DEF Cleanup, SessionsLast, TypeOK, Succeeded, Issues,
         RowsWithToken, Presents, Asks, Subject, Row, Tokens, Steps, Replies
    <2>5. QED
      BY <1>a, <2>1, <2>2, <2>3, <2>4 DEF Inv
  <1>16. CASE Crash
    <2>1. (TypeOK /\ WorkMatchesProgress /\ HistoryIsPast
           /\ RowsMatchProgress)'
      BY <1>0, <1>16 DEF Crash, TypeOK, WorkMatchesProgress, HistoryIsPast,
         RowsMatchProgress, InFlight, Row, Tokens, Steps, Replies, Issues,
         Presents, Subject
    <2>2. (SpentTokensAreGone /\ ReplaysStop)'
      BY <1>0, <1>16 DEF Crash, SpentTokensAreGone, ReplaysStop, TypeOK,
         WorkMatchesProgress, InFlight, Spent, Presents, Succeeded, Row,
         Tokens, Steps, Replies, Issues
    <2>3. (OldSessionsAreGone /\ DeactivationHolds /\ LoginsStop)'
      BY <1>0, <1>16 DEF Crash, OldSessionsAreGone, DeactivationHolds,
         LoginsStop, TypeOK, WorkMatchesProgress, InFlight, Succeeded, Asks,
         Reactivated, Row, Tokens, Steps, Replies, Issues
    <2>4. SessionsLast'
      BY <1>0, <1>16 DEF Crash, SessionsLast, TypeOK, InFlight, Succeeded,
         Issues, RowsWithToken, Presents, Asks, Subject, Row, Tokens, Steps,
         Replies
    <2>5. QED
      BY <1>a, <2>1, <2>2, <2>3, <2>4 DEF Inv
  <1>17. CASE UNCHANGED vars
    BY <1>0, <1>a, <1>17 DEF vars, Inv, TypeOK, WorkMatchesProgress, HistoryIsPast,
       RowsMatchProgress, SpentTokensAreGone, ReplaysStop, OldSessionsAreGone,
       DeactivationHolds, LoginsStop, SessionsLast, Row, Tokens, Steps, Replies, Issues,
       Presents, Subject, Spent, Succeeded, Asks, Reactivated, RowsWithToken
  <1>18. QED
    BY <1>1, <1>2, <1>3, <1>4, <1>5, <1>6, <1>7, <1>8, <1>9, <1>10, <1>11,
       <1>12, <1>13, <1>14, <1>15, <1>16, <1>17 DEF Next, Step

(***************************************************************************)
(* The invariant holds in every state of every behaviour.                  *)
(***************************************************************************)
THEOREM AlwaysInv == Spec => []Inv
  BY InitInv, NextInv, PTL DEF Spec

(***************************************************************************)
(* Every reachable state is well typed, and a token is in the table once   *)
(* (refresh_tokens.token_hash).                                            *)
(***************************************************************************)
THEOREM TypeCorrect == Spec => []TypeOK
  <1>1. Inv => TypeOK
    BY DEF Inv
  <1>2. QED
    BY AlwaysInv, <1>1, PTL

(***************************************************************************)
(* A token rotated or logged out is refused to every refresh received      *)
(* after the answer (RefreshTokenUseCase.execute).                         *)
(***************************************************************************)
THEOREM ReplaysAreRefused == Spec => []ReplayIsRefused
  <1>1. Inv => ReplayIsRefused
    BY DEF Inv, ReplaysStop, ReplayIsRefused
  <1>2. QED
    BY AlwaysInv, <1>1, PTL

(***************************************************************************)
(* An answered deactivation has ended every session handed out before it   *)
(* was received, and no later refresh revives one                          *)
(* (DeactivateAccountUseCase.execute, RefreshTokenUseCase.execute).        *)
(***************************************************************************)
THEOREM DeactivationsEndSessions == Spec => []DeactivationEndsSessions
  <1>1. Inv => DeactivationEndsSessions
    BY DEF Inv, OldSessionsAreGone, OldRefreshesStop, DeactivationEndsSessions
  <1>2. QED
    BY AlwaysInv, <1>1, PTL

(***************************************************************************)
(* After an answered deactivation nobody logs in without a reactivation    *)
(* (LoginUseCase.execute).                                                 *)
(***************************************************************************)
THEOREM DeactivatedUsersCannotLogin == Spec => []DeactivatedCannotLogin
  <1>1. Inv => DeactivatedCannotLogin
    BY DEF Inv, LoginsStop, Reactivated, DeactivatedCannotLogin
  <1>2. QED
    BY AlwaysInv, <1>1, PTL

(***************************************************************************)
(* A session that was handed out ends by expiry, presentation or           *)
(* deactivation only (RefreshTokenRepository).                             *)
(***************************************************************************)
THEOREM SessionsDoLast == Spec => []SessionsLast
  <1>1. Inv => SessionsLast
    BY DEF Inv
  <1>2. QED
    BY AlwaysInv, <1>1, PTL
=============================================================================
