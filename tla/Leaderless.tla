------------------------------ MODULE Leaderless ------------------------------
(***************************************************************************)
(* The leaderless mode of the key-value store: modes/leaderless.go over    *)
(* store/store.go.  Whichever node a client's PUT reaches coordinates it:  *)
(* it takes a timestamp as the version, writes its own copy and then calls *)
(* the other nodes one after the other.  A GET reads the node it reaches.  *)
(*                                                                         *)
(* Keys do not interact in this mode, so there is one.                     *)
(***************************************************************************)
EXTENDS Integers, Sequences

CONSTANTS
    AllNodes,        \* NODES, a sequence
    Sets,            \* PUTs of the key, one value each
    CoordinatorOf,   \* CoordinatorOf[w]: the node that PUT w reaches
    Skew,            \* Skew[n]: how far the clock of n is ahead
    MaxFaults,       \* bound on failing internal calls
    NoValue

N == Len(AllNodes)
Nodes == {AllNodes[i] : i \in 1 .. N}

ASSUME LeaderlessAssumption ==
    /\ AllNodes \in Seq(Nodes) /\ N > 1
    /\ \A i, j \in 1 .. N : AllNodes[i] = AllNodes[j] => i = j
    /\ CoordinatorOf \in [Sets -> Nodes]
    /\ Skew \in [Nodes -> Nat]
    /\ MaxFaults \in Nat
    /\ NoValue \notin Sets

VARIABLES
    store,     \* store[n]: the record of the key at n
    now,       \* real time, in steps that clocks can tell apart
    pc,        \* pc[w]: "idle", "versioned", "stored"
    version,   \* version[w]: the version its coordinator took
    peer,      \* peer[w]: which of its peers the coordinator is at
    call,      \* call[w][i]: "none", "sent", "applied", "lost": the call to peer i
    setBack,   \* history: nodes whose own Put replaced a newer record
    faults

serviceVars == <<pc, version, peer, call>>
vars == <<store, now, serviceVars, setBack, faults>>

PeerIndex == 1 .. N - 1

\* peerURLs: all nodes but the coordinator, in their order.
Coordinator(w) == CHOOSE i \in 1 .. N : AllNodes[i] = CoordinatorOf[w]
Peer(w, i) == AllNodes[IF i < Coordinator(w) THEN i ELSE i + 1]

Record == [value : Sets \cup {NoValue}, version : Nat]
Stored(w) == [value |-> w, version |-> version[w]]

Init ==
    /\ store = [n \in Nodes |-> [value |-> NoValue, version |-> 0]]
    /\ now = 1
    /\ pc = [w \in Sets |-> "idle"]
    /\ version = [w \in Sets |-> 0]
    /\ peer = [w \in Sets |-> 1]
    /\ call = [w \in Sets |-> [i \in PeerIndex |-> "none"]]
    /\ setBack = {}
    /\ faults = 0

-----------------------------------------------------------------------------
\* time.Now().UnixNano(): clocks need not agree, nor tell two PUTs apart.
TakeVersion(w) ==
    /\ pc[w] = "idle"
    /\ pc' = [pc EXCEPT ![w] = "versioned"]
    /\ now' \in {now, now + 1}
    /\ version' = [version EXCEPT ![w] = now' + Skew[CoordinatorOf[w]]]
    /\ UNCHANGED <<store, peer, call, setBack, faults>>

\* s.store.Put(key, record), whatever is there by now.
PutLocally(w) ==
    /\ pc[w] = "versioned"
    /\ pc' = [pc EXCEPT ![w] = "stored"]
    /\ LET n == CoordinatorOf[w] IN
          /\ store' = [store EXCEPT ![n] = Stored(w)]
          /\ setBack' = IF store[n].version > version[w] THEN setBack \cup {n} ELSE setBack
    /\ UNCHANGED <<now, version, peer, call, faults>>

\* replicateToPeer sends the record ...
SendToPeer(w) ==
    /\ pc[w] = "stored" /\ peer[w] \in PeerIndex /\ call[w][peer[w]] = "none"
    /\ call' = [call EXCEPT ![w][peer[w]] = "sent"]
    /\ UNCHANGED <<store, now, pc, version, peer, setBack, faults>>

\* Fault: the peer takes any record.
PutIfNewer_Always(current, incoming) == incoming

PutIfNewer(current, incoming) ==
    IF incoming.version >= current.version THEN incoming ELSE current

\* ... InternalReplicate at the peer applies it, after a delay and even if the
\* coordinator no longer waits ...
ApplyAtPeer(w, i) ==
    /\ call[w][i] = "sent"
    /\ call' = [call EXCEPT ![w][i] = "applied"]
    /\ store' = [store EXCEPT ![Peer(w, i)] = PutIfNewer(@, Stored(w))]
    /\ UNCHANGED <<now, pc, version, peer, setBack, faults>>

\* Fault: a peer is passed over.
GetAnswer_SkipsOne(w) ==
    /\ peer[w] \in PeerIndex /\ call[w][peer[w]] = "applied"
    /\ peer' = [peer EXCEPT ![w] = @ + 2]
    /\ UNCHANGED <<store, now, pc, version, call, setBack, faults>>

\* ... and the next peer's turn comes with the answer,
GetAnswer(w) ==
    /\ peer[w] \in PeerIndex /\ call[w][peer[w]] = "applied"
    /\ peer' = [peer EXCEPT ![w] = @ + 1]
    /\ UNCHANGED <<store, now, pc, version, call, setBack, faults>>

\* or with an error, which ClientSet ignores: the call did not get there, or
\* its answer did not get back in time.
CallFails(w) ==
    /\ faults < MaxFaults /\ faults' = faults + 1
    /\ peer[w] \in PeerIndex /\ call[w][peer[w]] = "sent"
    /\ call' \in {call, [call EXCEPT ![w][peer[w]] = "lost"]}
    /\ peer' = [peer EXCEPT ![w] = @ + 1]
    /\ UNCHANGED <<store, now, pc, version, setBack>>

Next ==
    \E w \in Sets :
        \/ TakeVersion(w) \/ PutLocally(w)
        \/ SendToPeer(w) \/ GetAnswer(w) \/ CallFails(w)
        \/ \E i \in PeerIndex : ApplyAtPeer(w, i)

Spec == Init /\ [][Next]_vars

-----------------------------------------------------------------------------
(* Properties                                                              *)

TypeOK ==
    /\ store \in [Nodes -> Record]
    /\ now \in Nat
    /\ pc \in [Sets -> {"idle", "versioned", "stored"}]
    /\ version \in [Sets -> Nat]
    /\ peer \in [Sets -> 1 .. N]
    /\ call \in [Sets -> [PeerIndex -> {"none", "sent", "applied", "lost"}]]
    /\ setBack \subseteq Nodes
    /\ faults \in 0 .. MaxFaults

\* ClientSet returned: the client has its 201.
Acked(w) == peer[w] = N

\* An acknowledged PUT, or a newer one, is at every node, so a GET anywhere
\* sees it (consistency_test.go expects that of another node), unless a call
\* failed, or the node's own Put of an older version came later.
AckedIsEverywhere ==
    faults = 0 =>
        \A w \in Sets : Acked(w) =>
            \A n \in Nodes \ setBack : store[n].version >= version[w]

\* Replication never takes a node back: only the unconditional Put of a PUT
\* that the node coordinates itself does.
OnlyOwnPutGoesBack ==
    [][\A n \in Nodes :
          store'[n].version < store[n].version =>
              \E w \in Sets : CoordinatorOf[w] = n /\ pc[w] = "versioned" /\ store'[n] = Stored(w)]_vars
=============================================================================
