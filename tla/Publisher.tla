------------------------------ MODULE Publisher ------------------------------
(***************************************************************************)
(* RabbitMQPublisher: one channel, opened by the first publish that needs  *)
(* it and cached for the life of the process.  No use case awaits publish, *)
(* so any number of calls overlap; each await ends an action.              *)
(*                                                                         *)
(* Channels are named after the call that opened them.  The broker may     *)
(* refuse a connection and close a channel, and the process may die: a     *)
(* lost socket makes amqplib emit "error", for which nobody listens.       *)
(***************************************************************************)
EXTENDS Naturals, FiniteSets

CONSTANTS Notices,  \* calls of publish
          None      \* no channel

ASSUME NoneAssumption == None \notin Notices

VARIABLES
  at,        \* where each call is
  channel,   \* this.channel
  use,       \* the channel a call has got from getChannel
  wire,      \* copies of a notice sent and not yet received
  queue,     \* copies of a notice in notifications_email
  closed,    \* channels the broker has closed
  alive,     \* the calls of the running process
  before     \* the calls of its process that had a channel when a call came

vars == <<at, channel, use, wire, queue, closed, alive, before>>

Points == {"idle", "connect", "create", "assert", "send", "sent", "refused",
           "failed", "dead"}
Running == {"connect", "create", "assert", "send"}

Init ==
  /\ at = [n \in Notices |-> "idle"]
  /\ channel = None
  /\ use = [n \in Notices |-> None]
  /\ wire = [n \in Notices |-> 0]
  /\ queue = [n \in Notices |-> 0]
  /\ closed = {}
  /\ alive = {}
  /\ before = [n \in Notices |-> {}]

Goto(n, point) == at' = [at EXCEPT ![n] = point]

\* getChannel looks at the cache before its first await.
Publish(n) ==
  /\ at[n] = "idle"
  /\ Goto(n, IF channel = None THEN "connect" ELSE "assert")
  /\ use' = [use EXCEPT ![n] = channel]
  /\ alive' = alive \cup {n}
  /\ before' = [before EXCEPT ![n] = {m \in alive : use[m] # None}]
  /\ UNCHANGED <<channel, wire, queue, closed>>

\* amqplib.connect
Connect(n) ==
  /\ at[n] = "connect"
  /\ \/ Goto(n, "create")
     \/ Goto(n, "refused")
  /\ UNCHANGED <<channel, use, wire, queue, closed, alive, before>>

\* Mutant: the new channel is not kept.
CreateUncached(n) ==
  /\ at[n] = "create"
  /\ Goto(n, "assert")
  /\ use' = [use EXCEPT ![n] = n]
  /\ UNCHANGED <<channel, wire, queue, closed, alive, before>>

\* Mutant: the channel that is replaced is closed first.
CreateReplacing(n) ==
  /\ at[n] = "create"
  /\ Goto(n, "assert")
  /\ channel' = n
  /\ use' = [use EXCEPT ![n] = n]
  /\ wire' = [m \in Notices |-> IF use[m] = channel THEN 0 ELSE wire[m]]
  /\ UNCHANGED <<queue, closed, alive, before>>

\* Mutant: the new channel is kept and not returned.
CreateUnreturned(n) ==
  /\ at[n] = "create"
  /\ Goto(n, "assert")
  /\ channel' = n
  /\ UNCHANGED <<use, wire, queue, closed, alive, before>>

\* The last of several calls that found no channel leaves its own behind.
Create(n) ==
  /\ at[n] = "create"
  /\ \/ /\ Goto(n, "assert")
        /\ channel' = n
        /\ use' = [use EXCEPT ![n] = n]
     \/ /\ Goto(n, "refused")
        /\ UNCHANGED <<channel, use>>
  /\ UNCHANGED <<wire, queue, closed, alive, before>>

\* The cached channel may have been closed long ago: amqplib then throws,
\* the error is logged, and the channel stays cached.
AssertQueue(n) ==
  /\ at[n] = "assert"
  /\ Goto(n, IF use[n] \in closed THEN "failed" ELSE "send")
  /\ UNCHANGED <<channel, use, wire, queue, closed, alive, before>>

\* Mutant: the message is sent again, just in case.
SendTwice(n) ==
  /\ at[n] = "send"
  /\ Goto(n, "sent")
  /\ wire' = [wire EXCEPT ![n] = @ + 2]
  /\ UNCHANGED <<channel, use, queue, closed, alive, before>>

Send(n) ==
  /\ at[n] = "send"
  /\ \/ /\ use[n] \in closed
        /\ Goto(n, "failed")
        /\ UNCHANGED wire
     \/ /\ use[n] \notin closed
        /\ Goto(n, "sent")
        /\ wire' = [wire EXCEPT ![n] = @ + 1]
  /\ UNCHANGED <<channel, use, queue, closed, alive, before>>

-----------------------------------------------------------------------------
(* Environment *)

Arrive(n) ==
  /\ wire[n] > 0
  /\ wire' = [wire EXCEPT ![n] = @ - 1]
  /\ queue' = [queue EXCEPT ![n] = @ + 1]
  /\ UNCHANGED <<at, channel, use, closed, alive, before>>

\* The broker closes a channel that is in use, with what is on its wire.
Break(c) ==
  /\ use[c] = c
  /\ c \notin closed
  /\ closed' = closed \cup {c}
  /\ wire' = [n \in Notices |-> IF use[n] = c THEN 0 ELSE wire[n]]
  /\ UNCHANGED <<at, channel, use, queue, alive, before>>

\* What Node.js has not written to its sockets dies with the process, as on
\* shutdown, which closes neither channel nor connection.
Crash ==
  /\ alive # {}
  /\ at' = [n \in Notices |-> IF at[n] \in Running THEN "dead" ELSE at[n]]
  /\ channel' = None
  /\ alive' = {}
  /\ \E unwritten \in SUBSET {n \in Notices : wire[n] > 0} :
       wire' = [n \in Notices |-> IF n \in unwritten THEN 0 ELSE wire[n]]
  /\ UNCHANGED <<use, queue, closed, before>>

Next ==
  \/ \E n \in Notices :
       \/ Publish(n) \/ Connect(n) \/ Create(n) \/ AssertQueue(n) \/ Send(n)
       \/ Arrive(n) \/ Break(n)
  \/ Crash

Spec == Init /\ [][Next]_vars

-----------------------------------------------------------------------------
(* Properties *)

\* Types.  The part that is not about the shape of the model: a call is past
\* getChannel only with a channel.
TypeOK ==
  /\ at \in [Notices -> Points]
  /\ channel \in Notices \cup {None}
  /\ use \in [Notices -> Notices \cup {None}]
  /\ wire \in [Notices -> Nat]
  /\ queue \in [Notices -> Nat]
  /\ closed \subseteq Notices
  /\ alive \subseteq Notices
  /\ before \in [Notices -> SUBSET Notices]
  /\ \A n \in Notices : at[n] \in {"assert", "send", "sent", "failed"} => use[n] # None

Dropped(n) ==
  /\ queue[n] = 0
  /\ wire[n] = 0
  /\ at[n] \in {"sent", "refused", "failed", "dead"}

(***************************************************************************)
(* A notice is lost for three reasons only: the broker refused the call its*)
(* connection, it closed the channel the call was using, or the process    *)
(* has died.  Calls that overlap, each with a channel of its own, never    *)
(* cost one another a notice (RabbitMQPublisher.ts:14-43).                 *)
(***************************************************************************)
LossHasCause ==
  \A n \in Notices : Dropped(n) =>
    at[n] = "refused" \/ use[n] \in closed \/ n \notin alive

(***************************************************************************)
(* Only calls that overlap before the first channel exists open one each:  *)
(* a call that comes once any call of its process has got a channel opens  *)
(* none, so the connections that are never closed stay as few as the calls *)
(* of that first moment (RabbitMQPublisher.ts:14-21).                      *)
(***************************************************************************)
OneChannelOnceWarm ==
  \A n \in Notices : use[n] = n => before[n] = {}

Fate(n) == IF at[n] = "idle" THEN "none"
           ELSE IF queue[n] > 0 THEN "queued"
           ELSE IF Dropped(n) THEN "dropped" ELSE "handed"

O == INSTANCE Outbox WITH fate <- [n \in Notices |-> Fate(n)]

\* publish, with channels, overlap, broken connections and deaths, implements
\* the outbox: at most once, and never after it has been given up.
ImplementsOutbox == O!Spec

-----------------------------------------------------------------------------
(* The inductive invariant of PublisherProofs *)

\* A notice has one copy at most, on the wire or in the queue, once sent.
CopiesMatchProgress ==
  \A n \in Notices :
    /\ wire[n] + queue[n] <= 1
    /\ at[n] # "sent" => wire[n] + queue[n] = 0

\* Calls of the running process have a channel only if one is cached, and
\* those about to open one came before anybody had any.
CacheMatchesUse ==
  \A n \in Notices :
    /\ at[n] = "idle" => use[n] = None
    /\ (n \in alive /\ use[n] # None) => channel # None
    /\ at[n] \in {"connect", "create"} => before[n] = {} /\ n \in alive
    /\ channel # None => use[channel] = channel

Inv ==
  /\ TypeOK
  /\ CopiesMatchProgress
  /\ CacheMatchesUse
  /\ LossHasCause
  /\ OneChannelOnceWarm
=============================================================================
