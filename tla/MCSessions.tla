----------------------------- MODULE MCSessions -----------------------------
(***************************************************************************)
(* Three requests of any kind and two users, one session already open:     *)
(* enough for a token to be issued, rotated and replayed, and for a        *)
(* deactivation, a reactivation and a login to overlap in every order.     *)
(***************************************************************************)
EXTENDS Sessions, TLC

CONSTANTS r1, r2, r3, u1, u2, t1

MCRequests == {r1, r2, r3}
MCUsers    == {u1, u2}
MCSeeds    == {t1}
Symmetry   == Permutations(MCRequests) \cup Permutations(MCUsers)
=============================================================================
