-------------------------- MODULE MCLeaderFollower --------------------------
(* Small instances of the leader-follower store for TLC. *)
EXTENDS LeaderFollower

CONSTANTS n1, n2, n3, n4, n5,   \* the nodes of compose.yaml
          k1, k2,
          w1, w2, w3, g1

FiveNodes == <<n1, n2, n3, n4, n5>>

\* Writes and a read of one key.
OneKey == [c \in {w1, w2, w3, g1} |-> k1]

\* The read goes to the last follower.
AtFollower == [g \in {g1} |-> AllNodes[N]]
=============================================================================
