-------------------------- MODULE VersionedRegister --------------------------
(***************************************************************************)
(* What the replicated store promises its clients when its read and write  *)
(* quorums overlap: one regular register per key.  A write is issued with  *)
(* a version of its own and may be acknowledged; a read returns a version  *)
(* that was issued for its key (0: not found) and that is not older than   *)
(* any version whose write had been acknowledged when the read began.      *)
(* Nothing is said of replicas, quorums or messages.                       *)
(***************************************************************************)
EXTENDS Naturals

CONSTANTS Keys, Reads

VARIABLES
    issued,   \* issued[k]: the versions taken by writes of k
    acked,    \* acked[k]: those whose client was told of success
    reads     \* reads[r]: the progress of one read

vars == <<issued, acked, reads>>

Idle == [status |-> "idle"]

Init ==
    /\ issued = [k \in Keys |-> {}]
    /\ acked = [k \in Keys |-> {}]
    /\ reads = [r \in Reads |-> Idle]

Issue(k, v) ==
    /\ \A j \in Keys : \A u \in issued[j] : u < v
    /\ issued' = [issued EXCEPT ![k] = @ \cup {v}]
    /\ UNCHANGED <<acked, reads>>

Acknowledge(k, v) ==
    /\ v \in issued[k]
    /\ acked' = [acked EXCEPT ![k] = @ \cup {v}]
    /\ UNCHANGED <<issued, reads>>

Begin(r, k) ==
    /\ reads[r] = Idle
    /\ reads' = [reads EXCEPT ![r] =
                    [status |-> "reading", key |-> k, floor |-> acked[k]]]
    /\ UNCHANGED <<issued, acked>>

Return(r, v) ==
    /\ reads[r].status = "reading"
    /\ v \in issued[reads[r].key] \cup {0}
    /\ \A u \in reads[r].floor : u <= v
    /\ reads' = [reads EXCEPT ![r] =
                    [status |-> "done", key |-> reads[r].key, version |-> v]]
    /\ UNCHANGED <<issued, acked>>

\* The versions a step issues are unbounded: the implementation chooses them.
Next ==
    \/ \E k \in Keys : \E v \in issued'[k] \ issued[k] : Issue(k, v)
    \/ \E k \in Keys : \E v \in issued[k] : Acknowledge(k, v)
    \/ \E r \in Reads : \E k \in Keys :
          \/ Begin(r, k)
          \/ \E v \in issued[k] \cup {0} : Return(r, v)

Spec == Init /\ [][Next]_vars
=============================================================================
