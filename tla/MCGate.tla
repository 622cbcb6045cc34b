------------------------------- MODULE MCGate -------------------------------
(***************************************************************************)
(* One user behind one address, and four requests: two logins, the logout  *)
(* of one or of the access token of one and the refresh token of the other,*)
(* and a call; two logouts of one session; and as many logins or calls as  *)
(* use up a budget.  Tokens live for one second and windows for one.       *)
(***************************************************************************)
EXTENDS Gate, TLC

CONSTANTS r1, r2, r3, r4, u1, c1

MCRequests == {r1, r2, r3, r4}
MCUsers    == {u1}
MCClients  == {c1}
MCJobs     == Job
MCLimit    == [global |-> 2, auth |-> 2, login |-> 2]
MCSteps    == {500}

Number(op) == Cardinality({r \in Requests : job[r].op = op})
Mixes == {<<2, 1, 1>>, <<1, 2, 1>>, <<1, 0, 3>>, <<3, 0, 1>>}

MCInit == Init /\ <<Number("login"), Number("logout"), Number("call")>> \in Mixes
MCSpec == MCInit /\ [][Next]_vars

Symmetry == Permutations(MCRequests)
=============================================================================
