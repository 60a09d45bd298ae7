----------------------------- MODULE MCLeaderless -----------------------------
(* Small instances of the leaderless store for TLC. *)
EXTENDS Leaderless, TLC

CONSTANTS n1, n2, n3, w1, w2, w3

ThreeNodes == <<n1, n2, n3>>

\* Two PUTs at one node and one at another, whose clock is ahead.
Coordinators == (w1 :> n1) @@ (w2 :> n1) @@ (w3 :> n3)
ClockAhead == (n1 :> 0) @@ (n2 :> 0) @@ (n3 :> 1)
=============================================================================
