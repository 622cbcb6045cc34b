--------------------------- MODULE PublisherProofs ---------------------------
(***************************************************************************)
(* Safety of Publisher for any number of calls, and its refinement of      *)
(* Outbox.  That a notice is queued at most once needs that it has one copy*)
(* at most once it is sent (CopiesMatchProgress); that a warm process      *)
(* opens no channel needs that a channel a call of it has got is cached    *)
(* (CacheMatchesUse).                                                      *)
(***************************************************************************)
EXTENDS Publisher, TLAPS

(***************************************************************************)
(* Before the first call the invariant holds.                              *)
(***************************************************************************)
THEOREM InitInv == Init => Inv
  BY NoneAssumption DEF Init, Inv, TypeOK, Points, CopiesMatchProgress,
     CacheMatchesUse, LossHasCause, Dropped, OneChannelOnceWarm

(***************************************************************************)
(* Each await of a call, an arrival, a closed channel and a death preserve *)
(* the invariant.                                                          *)
(***************************************************************************)
THEOREM NextInv == Inv /\ [Next]_vars => Inv'
  <1>. SUFFICES ASSUME Inv, [Next]_vars PROVE Inv'
    OBVIOUS
  <1>. USE NoneAssumption
  <1>1. ASSUME NEW n \in Notices, Publish(n) PROVE Inv'
    <2>1. TypeOK'
      BY <1>1 DEF Publish, Goto, Inv, TypeOK, Points
    <2>2. CopiesMatchProgress' /\ LossHasCause'
      BY <1>1 DEF Publish, Goto, Inv, TypeOK, Points, CopiesMatchProgress,
         LossHasCause, Dropped
    <2>3. CacheMatchesUse' /\ OneChannelOnceWarm'
      BY <1>1 DEF Publish, Goto, Inv, TypeOK, Points, CacheMatchesUse,
         OneChannelOnceWarm
    <2>4. QED
      BY <2>1, <2>2, <2>3 DEF Inv
  <1>2. ASSUME NEW n \in Notices, Connect(n) PROVE Inv'
    BY <1>2 DEF Connect, Goto, Inv, TypeOK, Points, CopiesMatchProgress,
       CacheMatchesUse, LossHasCause, Dropped, OneChannelOnceWarm
  <1>3. ASSUME NEW n \in Notices, Create(n) PROVE Inv'
    <2>1. TypeOK'
      BY <1>3 DEF Create, Goto, Inv, TypeOK, Points
    <2>2. CopiesMatchProgress'
      BY <1>3 DEF Create, Goto, Inv, TypeOK, Points, CopiesMatchProgress
    <2>3. LossHasCause'
      BY <1>3 DEF Create, Goto, Inv, TypeOK, Points, CopiesMatchProgress,
         LossHasCause, Dropped
    <2>4. CacheMatchesUse' /\ OneChannelOnceWarm'
      BY <1>3 DEF Create, Goto, Inv, TypeOK, Points, CacheMatchesUse,
         OneChannelOnceWarm
    <2>5. QED
      BY <2>1, <2>2, <2>3, <2>4 DEF Inv
  <1>4. ASSUME NEW n \in Notices, AssertQueue(n) PROVE Inv'
    BY <1>4 DEF AssertQueue, Goto, Inv, TypeOK, Points, CopiesMatchProgress,
       CacheMatchesUse, LossHasCause, Dropped, OneChannelOnceWarm
  <1>5. ASSUME NEW n \in Notices, Send(n) PROVE Inv'
    <2>1. TypeOK'
      BY <1>5 DEF Send, Goto, Inv, TypeOK, Points
    <2>2. CopiesMatchProgress'
      BY <1>5 DEF Send, Goto, Inv, TypeOK, Points, CopiesMatchProgress
    <2>3. LossHasCause'
      BY <1>5 DEF Send, Goto, Inv, TypeOK, Points, CopiesMatchProgress,
         LossHasCause, Dropped
    <2>4. CacheMatchesUse' /\ OneChannelOnceWarm'
      BY <1>5 DEF Send, Goto, Inv, TypeOK, Points, CacheMatchesUse,
         OneChannelOnceWarm
    <2>5. QED
      BY <2>1, <2>2, <2>3, <2>4 DEF Inv
  <1>6. ASSUME NEW n \in Notices, Arrive(n) PROVE Inv'
    BY <1>6 DEF Arrive, Inv, TypeOK, CopiesMatchProgress,
       CacheMatchesUse, LossHasCause, Dropped, OneChannelOnceWarm
  <1>7. ASSUME NEW c \in Notices, Break(c) PROVE Inv'
    BY <1>7 DEF Break, Inv, TypeOK, CopiesMatchProgress,
       CacheMatchesUse, LossHasCause, Dropped, OneChannelOnceWarm
  <1>8. CASE Crash
    BY <1>8 DEF Crash, Running, Inv, TypeOK, Points, CopiesMatchProgress,
       CacheMatchesUse, LossHasCause, Dropped, OneChannelOnceWarm
  <1>9. CASE UNCHANGED vars
    BY <1>9 DEF vars, Inv, TypeOK, CopiesMatchProgress,
       CacheMatchesUse, LossHasCause, Dropped, OneChannelOnceWarm
  <1>10. QED
    BY <1>1, <1>2, <1>3, <1>4, <1>5, <1>6, <1>7, <1>8, <1>9 DEF Next

(***************************************************************************)
(* The invariant holds in every reachable state.                           *)
(***************************************************************************)
THEOREM AlwaysInv == Spec => []Inv
  BY InitInv, NextInv, PTL DEF Spec

(***************************************************************************)
(* A notice is lost only if its connection was refused, its channel closed *)
(* by the broker, or its process has died (RabbitMQPublisher.ts:14-43).    *)
(***************************************************************************)
THEOREM LossesHaveCauses == Spec => []LossHasCause
  <1>1. Inv => LossHasCause
    BY DEF Inv
  <1>2. QED
    BY <1>1, AlwaysInv, PTL

(***************************************************************************)
(* Once a call has got a channel no later call of the process opens one    *)
(* (RabbitMQPublisher.ts:14-21).                                           *)
(***************************************************************************)
THEOREM WarmProcessesOpenNothing == Spec => []OneChannelOnceWarm
  <1>1. Inv => OneChannelOnceWarm
    BY DEF Inv
  <1>2. QED
    BY <1>1, AlwaysInv, PTL

-----------------------------------------------------------------------------
(***************************************************************************)
(* The statements of publish implement the outbox: a first await hands the *)
(* notice over, an arrival queues it, a refusal, a thrown error, a closed  *)
(* channel or a death drops it, all else stutters.                         *)
(***************************************************************************)
THEOREM PublisherImplementsOutbox == Spec => ImplementsOutbox
  <1>1. Init => O!Init
    BY DEF Init, O!Init, Fate
  <1>2. Inv /\ [Next]_vars => [O!Next]_<<[n \in Notices |-> Fate(n)], queue>>
    <2>. SUFFICES ASSUME Inv, [Next]_vars
                  PROVE  [O!Next]_<<[n \in Notices |-> Fate(n)], queue>>
      OBVIOUS
    <2>. DEFINE fates == [n \in Notices |-> Fate(n)]
    <2>0. /\ TypeOK /\ CopiesMatchProgress
          /\ \A n \in Notices : wire[n] \in Nat /\ queue[n] \in Nat
      BY DEF Inv, TypeOK
    <2>1. ASSUME NEW n \in Notices, Publish(n) PROVE O!Hand(n)
      <3>1. Fate(n) = "none" /\ Fate(n)' = "handed"
        BY <2>0, <2>1 DEF Publish, Goto, Fate, Dropped, TypeOK, CopiesMatchProgress
      <3>2. \A m \in Notices \ {n} : Fate(m)' = Fate(m)
        BY <2>0, <2>1 DEF Publish, Goto, Fate, Dropped, TypeOK
      <3>3. fates' = [fates EXCEPT ![n] = "handed"] /\ queue' = queue
        BY <2>1, <3>1, <3>2 DEF Publish
      <3>4. QED
        BY <3>1, <3>3 DEF O!Hand
    <2>2. ASSUME NEW n \in Notices, Connect(n) \/ Create(n) \/ AssertQueue(n) \/ Send(n)
          PROVE  O!Drop({n}) \/ UNCHANGED <<fates, queue>>
      <3>1. Fate(n) = "handed" /\ Fate(n)' \in {"handed", "dropped"}
        BY <2>0, <2>2 DEF Connect, Create, AssertQueue, Send, Goto, Fate, Dropped, TypeOK,
           CopiesMatchProgress
      <3>2. \A m \in Notices \ {n} : Fate(m)' = Fate(m)
        BY <2>0, <2>2 DEF Connect, Create, AssertQueue, Send, Goto, Fate, Dropped, TypeOK
      <3>3. queue' = queue
        BY <2>2 DEF Connect, Create, AssertQueue, Send
      <3>4. CASE Fate(n)' = "handed"
        BY <3>1, <3>2, <3>3, <3>4
      <3>5. CASE Fate(n)' = "dropped"
        BY <3>1, <3>2, <3>3, <3>5 DEF O!Drop
      <3>6. QED
        BY <3>1, <3>4, <3>5
    <2>3. ASSUME NEW n \in Notices, Arrive(n) PROVE O!Queue(n)
      <3>1. Fate(n) = "handed" /\ Fate(n)' = "queued"
        BY <2>0, <2>3 DEF Arrive, Fate, Dropped, TypeOK, CopiesMatchProgress
      <3>2. \A m \in Notices \ {n} : Fate(m)' = Fate(m)
        BY <2>0, <2>3 DEF Arrive, Fate, Dropped, TypeOK
      <3>3. /\ fates' = [fates EXCEPT ![n] = "queued"]
            /\ queue' = [queue EXCEPT ![n] = @ + 1]
        BY <2>3, <3>1, <3>2 DEF Arrive
      <3>4. QED
        BY <3>1, <3>3 DEF O!Queue
    <2>4. ASSUME \A n \in Notices :
                   Fate(n)' = Fate(n) \/ (Fate(n) = "handed" /\ Fate(n)' = "dropped"),
                 queue' = queue
          PROVE  O!Next
      <3>. DEFINE S == {n \in Notices : Fate(n) = "handed" /\ Fate(n)' = "dropped"}
      <3>1. O!Drop(S)
        BY <2>4 DEF O!Drop
      <3>2. QED
        BY <3>1 DEF O!Next
    <2>5. ASSUME NEW c \in Notices, Break(c) PROVE O!Next
      <3>1. \A n \in Notices :
              Fate(n)' = Fate(n) \/ (Fate(n) = "handed" /\ Fate(n)' = "dropped")
        BY <2>0, <2>5 DEF Break, Fate, Dropped, TypeOK, CopiesMatchProgress
      <3>2. QED
        BY <2>4, <2>5, <3>1 DEF Break
    <2>6. CASE Crash
      <3>1. \A n \in Notices :
              Fate(n)' = Fate(n) \/ (Fate(n) = "handed" /\ Fate(n)' = "dropped")
        BY <2>0, <2>6 DEF Crash, Running, Fate, Dropped, TypeOK, CopiesMatchProgress
      <3>2. QED
        BY <2>4, <2>6, <3>1 DEF Crash
    <2>7. CASE UNCHANGED vars
      BY <2>7 DEF vars, Fate, Dropped
    <2>8. QED
      BY <2>1, <2>2, <2>3, <2>5, <2>6, <2>7 DEF Next, O!Next
  <1>3. QED
    BY <1>1, <1>2, AlwaysInv, PTL DEF Spec, ImplementsOutbox, O!Spec
=============================================================================
