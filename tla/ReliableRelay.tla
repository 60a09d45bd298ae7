---------------------------- MODULE ReliableRelay ----------------------------
(***************************************************************************)
(* What the outbox is there for: an accepted event is relayed some time    *)
(* later, and nothing is relayed that was not accepted.  Copies, batches,  *)
(* rows and replicas are not visible at this level.                        *)
(***************************************************************************)
CONSTANT Events

VARIABLES accepted, relayed

vars == <<accepted, relayed>>

Init == accepted = {} /\ relayed = {}

Accept(e) ==
    /\ e \notin accepted
    /\ accepted' = accepted \cup {e}
    /\ UNCHANGED relayed

RelayEvent(e) ==
    /\ e \in accepted \ relayed
    /\ relayed' = relayed \cup {e}
    /\ UNCHANGED accepted

Next == \E e \in Events : Accept(e) \/ RelayEvent(e)

Spec == Init /\ [][Next]_vars

FairSpec == Spec /\ \A e \in Events : WF_vars(RelayEvent(e))
=============================================================================
