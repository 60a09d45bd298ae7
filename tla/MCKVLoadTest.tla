----------------------------- MODULE MCKVLoadTest -----------------------------
(* Small instances of the load test for TLC. *)
EXTENDS KVLoadTest

CONSTANTS n1, n2, n3, k1, w1, w2, g1

ThreeNodes == <<n1, n2, n3>>
\* All writes are of one key.
OneKey == [c \in {w1, w2, g1} |-> k1]
AtFollower == [g \in {g1} |-> AllNodes[N]]
=============================================================================
