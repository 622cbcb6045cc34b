------------------------------- MODULE Outbox -------------------------------
(***************************************************************************)
(* What publish promises about a notice (one call of it): it is queued for *)
(* the mail worker at most once or dropped, never both, and nothing is     *)
(* queued that no use case has handed over.  Publisher implements this.    *)
(***************************************************************************)
EXTENDS Naturals

CONSTANT Notices

VARIABLES fate,    \* none, handed, queued or dropped
          queue    \* copies of each notice the broker has queued

Init ==
  /\ fate = [n \in Notices |-> "none"]
  /\ queue = [n \in Notices |-> 0]

Hand(n) ==
  /\ fate[n] = "none"
  /\ fate' = [fate EXCEPT ![n] = "handed"]
  /\ UNCHANGED queue

Queue(n) ==
  /\ fate[n] = "handed"
  /\ fate' = [fate EXCEPT ![n] = "queued"]
  /\ queue' = [queue EXCEPT ![n] = @ + 1]

\* A closed channel or a dead process takes several with it.
Drop(S) ==
  /\ \A n \in S : fate[n] = "handed"
  /\ fate' = [n \in Notices |-> IF n \in S THEN "dropped" ELSE fate[n]]
  /\ UNCHANGED queue

Next ==
  \/ \E n \in Notices : Hand(n) \/ Queue(n)
  \/ \E S \in SUBSET Notices : Drop(S)

Spec == Init /\ [][Next]_<<fate, queue>>
=============================================================================
