----------------------------- MODULE MCPublisher -----------------------------
(***************************************************************************)
(* Four notices: two that overlap without a channel, one that comes when   *)
(* there is one, and one for the next process.                             *)
(***************************************************************************)
EXTENDS Publisher, TLC

CONSTANTS n1, n2, n3, n4

MCNotices == {n1, n2, n3, n4}
Symmetry  == Permutations(MCNotices)
=============================================================================
