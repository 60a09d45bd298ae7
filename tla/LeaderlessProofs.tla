--------------------------- MODULE LeaderlessProofs ---------------------------
(***************************************************************************)
(* Theorems about the leaderless store, for every cluster, every set of    *)
(* PUTs, however their coordinators' clocks differ, and every bound on     *)
(* failing calls.                                                          *)
(***************************************************************************)
EXTENDS Leaderless, TLAPS

-----------------------------------------------------------------------------
(* The node list.                                                          *)

\* A coordinator is somewhere in the configured list.
LEMMA CoordinatorPosition ==
    /\ N \in Nat /\ N > 1
    /\ \A w \in Sets : Coordinator(w) \in 1 .. N /\ AllNodes[Coordinator(w)] = CoordinatorOf[w]
<1>1. N \in Nat /\ N > 1
  BY LeaderlessAssumption DEF LeaderlessAssumption, N
<1>2. ASSUME NEW w \in Sets
      PROVE  Coordinator(w) \in 1 .. N /\ AllNodes[Coordinator(w)] = CoordinatorOf[w]
  <2>1. CoordinatorOf[w] \in Nodes
    BY LeaderlessAssumption DEF LeaderlessAssumption
  <2>2. \E i \in 1 .. N : AllNodes[i] = CoordinatorOf[w]
    BY <2>1 DEF Nodes
  <2> QED BY <2>2 DEF Coordinator
<1> QED BY <1>1, <1>2

\* peerURLs leaves out the coordinator ...
LEMMA PeersAreOthers ==
    ASSUME NEW w \in Sets, NEW i \in PeerIndex
    PROVE  Peer(w, i) \in Nodes \ {CoordinatorOf[w]}
<1> DEFINE pos == IF i < Coordinator(w) THEN i ELSE i + 1
<1>1. pos \in 1 .. N /\ pos # Coordinator(w)
  BY CoordinatorPosition DEF PeerIndex
<1>2. AllNodes[pos] # AllNodes[Coordinator(w)]
  BY <1>1, CoordinatorPosition, LeaderlessAssumption DEF LeaderlessAssumption
<1>3. AllNodes[pos] \in Nodes
  BY <1>1 DEF Nodes
<1> QED BY <1>2, <1>3, CoordinatorPosition DEF Peer

\* ... and nobody else.
LEMMA OthersArePeers ==
    ASSUME NEW w \in Sets, NEW n \in Nodes, n # CoordinatorOf[w]
    PROVE  \E i \in PeerIndex : Peer(w, i) = n
<1>1. PICK k \in 1 .. N : AllNodes[k] = n
  BY DEF Nodes
<1>2. k # Coordinator(w)
  BY <1>1, CoordinatorPosition
<1>3. CASE k < Coordinator(w)
  <2>1. k \in PeerIndex
    BY <1>3, CoordinatorPosition DEF PeerIndex
  <2> QED BY <1>1, <1>3, <2>1 DEF Peer
<1>4. CASE k > Coordinator(w)
  <2>1. k - 1 \in PeerIndex /\ ~(k - 1 < Coordinator(w)) /\ (k - 1) + 1 = k
    BY <1>4, CoordinatorPosition DEF PeerIndex
  <2>2. Peer(w, k - 1) = n
    BY <1>1, <2>1 DEF Peer
  <2> QED BY <2>1, <2>2
<1> QED BY <1>2, <1>3, <1>4, CoordinatorPosition

-----------------------------------------------------------------------------
(* Type correctness.                                                       *)

LEMMA PutIfNewerFacts ==
    ASSUME NEW current \in Record, NEW incoming \in Record
    PROVE  /\ PutIfNewer(current, incoming) \in Record
           /\ PutIfNewer(current, incoming).version >= current.version
           /\ PutIfNewer(current, incoming).version >= incoming.version
BY DEF PutIfNewer, Record

LEMMA StoredFacts ==
    ASSUME TypeOK, NEW w \in Sets
    PROVE  Stored(w) \in Record /\ Stored(w).version = version[w]
BY DEF TypeOK, Stored, Record

LEMMA TypeInit == Init => TypeOK
<1> SUFFICES ASSUME Init PROVE TypeOK
  OBVIOUS
<1>1. [value |-> NoValue, version |-> 0] \in Record
  BY DEF Record
<1> QED BY <1>1, CoordinatorPosition, LeaderlessAssumption DEF LeaderlessAssumption, Init, TypeOK

LEMMA TypeStep == TypeOK /\ [Next]_vars => TypeOK'
<1> SUFFICES ASSUME TypeOK, [Next]_vars PROVE TypeOK'
  OBVIOUS
<1> USE CoordinatorPosition, LeaderlessAssumption DEF LeaderlessAssumption, TypeOK
<1>1. ASSUME NEW w \in Sets, TakeVersion(w) PROVE TypeOK'
  <2>1. now' \in Nat /\ now' + Skew[CoordinatorOf[w]] \in Nat
    BY <1>1 DEF TakeVersion
  <2> QED BY <1>1, <2>1 DEF TakeVersion
<1>2. ASSUME NEW w \in Sets, PutLocally(w) PROVE TypeOK'
  BY <1>2, StoredFacts DEF PutLocally
<1>3. ASSUME NEW w \in Sets, SendToPeer(w) PROVE TypeOK'
  BY <1>3 DEF SendToPeer
<1>4. ASSUME NEW w \in Sets, GetAnswer(w) PROVE TypeOK'
  BY <1>4 DEF GetAnswer, PeerIndex
<1>5. ASSUME NEW w \in Sets, CallFails(w) PROVE TypeOK'
  <2>1. faults' \in 0 .. MaxFaults /\ peer[w] + 1 \in 1 .. N
    BY <1>5 DEF CallFails, PeerIndex
  <2>2. call' \in [Sets -> [PeerIndex -> {"none", "sent", "applied", "lost"}]]
    <3>1. call' = call \/ call' = [call EXCEPT ![w][peer[w]] = "lost"]
      BY <1>5 DEF CallFails
    <3>2. peer[w] \in PeerIndex /\ call[w] \in [PeerIndex -> {"none", "sent", "applied", "lost"}]
      BY <1>5 DEF CallFails
    <3>3. [call[w] EXCEPT ![peer[w]] = "lost"] \in [PeerIndex -> {"none", "sent", "applied", "lost"}]
      BY <3>2
    <3> QED BY <3>1, <3>3
  <2>3. peer' = [peer EXCEPT ![w] = peer[w] + 1]
    BY <1>5 DEF CallFails
  <2>4. peer' \in [Sets -> 1 .. N]
    BY <2>1, <2>3
  <2>5. UNCHANGED <<store, now, pc, version, setBack>>
    BY <1>5 DEF CallFails
  <2> QED BY <2>1, <2>2, <2>4, <2>5
<1>6. ASSUME NEW w \in Sets, NEW i \in PeerIndex, ApplyAtPeer(w, i) PROVE TypeOK'
  <2>1. Peer(w, i) \in Nodes
    BY PeersAreOthers
  <2>2. PutIfNewer(store[Peer(w, i)], Stored(w)) \in Record
    BY <2>1, PutIfNewerFacts, StoredFacts
  <2> QED BY <1>6, <2>1, <2>2 DEF ApplyAtPeer
<1>7. CASE UNCHANGED vars
  BY <1>7 DEF vars, serviceVars
<1> QED BY <1>1, <1>2, <1>3, <1>4, <1>5, <1>6, <1>7 DEF Next

\* Every reachable state is well typed; in particular no coordinator runs past
\* the list of its peers.
THEOREM TypeCorrect == Spec => []TypeOK
BY TypeInit, TypeStep, PTL DEF Spec

-----------------------------------------------------------------------------
(* Replication never takes a node back.                                    *)

\* Only the unconditional Put of the node's own PUT lowers what it stores.
LEMMA BackStep ==
    ASSUME TypeOK, [Next]_vars, NEW n \in Nodes, store'[n].version < store[n].version
    PROVE  \E w \in Sets :
               /\ CoordinatorOf[w] = n /\ pc[w] = "versioned" /\ store'[n] = Stored(w)
               /\ n \in setBack'
<1>0. store[n].version \in Nat
  BY DEF TypeOK, Record
<1>1. ASSUME NEW w \in Sets, NEW i \in PeerIndex, ApplyAtPeer(w, i) PROVE FALSE
  <2>1. CASE n = Peer(w, i)
    <3>1. store'[n] = PutIfNewer(store[n], Stored(w))
      BY <1>1, <2>1 DEF ApplyAtPeer, TypeOK
    <3> QED BY <3>1, <1>0, PutIfNewerFacts, StoredFacts DEF TypeOK, Record
  <2>2. CASE n # Peer(w, i)
    BY <1>0, <1>1, <2>2 DEF ApplyAtPeer, TypeOK
  <2> QED BY <2>1, <2>2
<1>2. ASSUME NEW w \in Sets, PutLocally(w)
      PROVE  /\ CoordinatorOf[w] = n /\ pc[w] = "versioned" /\ store'[n] = Stored(w)
             /\ n \in setBack'
  <2>1. n = CoordinatorOf[w]
    BY <1>0, <1>2 DEF PutLocally, TypeOK
  <2>2. store'[n] = Stored(w)
    BY <1>2, <2>1 DEF PutLocally, TypeOK
  <2>3. store[n].version > version[w]
    BY <2>2, StoredFacts DEF TypeOK, Record
  <2> QED BY <1>2, <2>1, <2>2, <2>3 DEF PutLocally
<1>3. \/ store' = store
      \/ \E w \in Sets : PutLocally(w) \/ \E i \in PeerIndex : ApplyAtPeer(w, i)
  BY DEF Next, TakeVersion, SendToPeer, GetAnswer, CallFails, vars
<1>4. store' # store
  BY <1>0
<1> QED BY <1>1, <1>2, <1>3, <1>4

\* A replicated record never replaces a newer one, whatever the clocks and
\* however late the calls arrive.
THEOREM ReplicationNeverGoesBack == Spec => OnlyOwnPutGoesBack
<1>1. TypeOK /\ [Next]_vars =>
        [\A n \in Nodes :
            store'[n].version < store[n].version =>
                \E w \in Sets : CoordinatorOf[w] = n /\ pc[w] = "versioned" /\ store'[n] = Stored(w)]_vars
  BY BackStep
<1> QED BY <1>1, TypeCorrect, PTL DEF Spec, OnlyOwnPutGoesBack

-----------------------------------------------------------------------------
(* An acknowledged PUT is everywhere.                                      *)

\* The coordinator calls nobody before it has stored the record itself.
CallsFollowPut ==
    \A w \in Sets : pc[w] # "stored" =>
        peer[w] = 1 /\ \A i \in PeerIndex : call[w][i] = "none"

\* As long as no call failed, the peers it has left behind have applied it.
NobodySkipped ==
    faults = 0 => \A w \in Sets : \A i \in PeerIndex : i < peer[w] => call[w][i] = "applied"

\* A node that has taken a record keeps that record or a newer one, unless its
\* own Put sets it back.
Has(n, w) == n \in setBack \/ store[n].version >= version[w]

TakenIsKept ==
    \A w \in Sets :
        /\ pc[w] = "stored" => Has(CoordinatorOf[w], w)
        /\ \A i \in PeerIndex : call[w][i] = "applied" => Has(Peer(w, i), w)

Inv == TypeOK /\ CallsFollowPut /\ NobodySkipped /\ TakenIsKept

LEMMA CallsStep == TypeOK /\ CallsFollowPut /\ [Next]_vars => CallsFollowPut'
<1> SUFFICES ASSUME TypeOK, CallsFollowPut, [Next]_vars PROVE CallsFollowPut'
  OBVIOUS
<1> USE DEF TypeOK, CallsFollowPut
<1>1. ASSUME NEW w \in Sets, TakeVersion(w) PROVE CallsFollowPut'
  BY <1>1 DEF TakeVersion
<1>2. ASSUME NEW w \in Sets, PutLocally(w) PROVE CallsFollowPut'
  BY <1>2 DEF PutLocally
<1>3. ASSUME NEW w \in Sets, SendToPeer(w) PROVE CallsFollowPut'
  BY <1>3 DEF SendToPeer
<1>4. ASSUME NEW w \in Sets, GetAnswer(w) PROVE CallsFollowPut'
  BY <1>4 DEF GetAnswer
<1>5. ASSUME NEW w \in Sets, CallFails(w) PROVE CallsFollowPut'
  BY <1>5 DEF CallFails
<1>6. ASSUME NEW w \in Sets, NEW i \in PeerIndex, ApplyAtPeer(w, i) PROVE CallsFollowPut'
  BY <1>6 DEF ApplyAtPeer
<1>7. CASE UNCHANGED vars
  BY <1>7 DEF vars, serviceVars
<1> QED BY <1>1, <1>2, <1>3, <1>4, <1>5, <1>6, <1>7 DEF Next

LEMMA SkipStep == TypeOK /\ NobodySkipped /\ [Next]_vars => NobodySkipped'
<1> SUFFICES ASSUME TypeOK, NobodySkipped, [Next]_vars PROVE NobodySkipped'
  OBVIOUS
<1> USE DEF TypeOK, NobodySkipped
<1>1. ASSUME NEW w \in Sets, TakeVersion(w) PROVE NobodySkipped'
  BY <1>1 DEF TakeVersion
<1>2. ASSUME NEW w \in Sets, PutLocally(w) PROVE NobodySkipped'
  BY <1>2 DEF PutLocally
<1>3. ASSUME NEW w \in Sets, SendToPeer(w) PROVE NobodySkipped'
  BY <1>3 DEF SendToPeer
<1>4. ASSUME NEW w \in Sets, GetAnswer(w) PROVE NobodySkipped'
  BY <1>4 DEF GetAnswer, PeerIndex
<1>5. ASSUME NEW w \in Sets, CallFails(w) PROVE NobodySkipped'
  <2>1. faults' # 0
    BY <1>5, LeaderlessAssumption DEF CallFails, LeaderlessAssumption
  <2> QED BY <2>1
<1>6. ASSUME NEW w \in Sets, NEW i \in PeerIndex, ApplyAtPeer(w, i) PROVE NobodySkipped'
  BY <1>6 DEF ApplyAtPeer
<1>7. CASE UNCHANGED vars
  BY <1>7 DEF vars, serviceVars
<1> QED BY <1>1, <1>2, <1>3, <1>4, <1>5, <1>6, <1>7 DEF Next

\* What a node has it still has after a step, unless the PUT it has was only
\* then given its version.
LEMMA HasStep ==
    ASSUME TypeOK, [Next]_vars, NEW n \in Nodes, NEW w \in Sets, Has(n, w), version'[w] = version[w]
    PROVE  Has(n, w)'
<1>1. setBack \subseteq setBack'
  BY DEF Next, TakeVersion, PutLocally, SendToPeer, GetAnswer, CallFails, ApplyAtPeer, vars
<1>2. TypeOK'
  BY TypeStep
<1>3. store[n].version \in Nat /\ store'[n].version \in Nat /\ version[w] \in Nat
  BY <1>2 DEF TypeOK, Record
<1>4. CASE store'[n].version < store[n].version
  BY <1>4, BackStep DEF Has
<1>5. CASE store'[n].version >= store[n].version
  BY <1>1, <1>3, <1>5 DEF Has
<1> QED BY <1>3, <1>4, <1>5

LEMMA KeptStep == Inv /\ [Next]_vars => TakenIsKept'
<1> SUFFICES ASSUME Inv, [Next]_vars, NEW v \in Sets
             PROVE  /\ pc'[v] = "stored" => Has(CoordinatorOf[v], v)'
                    /\ \A i \in PeerIndex : call'[v][i] = "applied" => Has(Peer(v, i), v)'
  BY DEF TakenIsKept, Peer, Coordinator
<1>0. CoordinatorOf[v] \in Nodes /\ TypeOK /\ TypeOK'
  BY LeaderlessAssumption, TypeStep DEF LeaderlessAssumption, Inv
<1>1. ASSUME version'[v] # version[v]
      PROVE  pc'[v] # "stored" /\ \A i \in PeerIndex : call'[v][i] = "none"
  <2>1. PICK w \in Sets : TakeVersion(w)
    BY <1>1 DEF Next, PutLocally, SendToPeer, GetAnswer, CallFails, ApplyAtPeer, vars, serviceVars
  <2>2. v = w
    BY <1>0, <1>1, <2>1 DEF TakeVersion, TypeOK
  <2> QED BY <1>0, <2>1, <2>2 DEF TakeVersion, TypeOK, Inv, CallsFollowPut
<1>2. ASSUME version'[v] = version[v], pc[v] # "stored", pc'[v] = "stored"
      PROVE  Has(CoordinatorOf[v], v)'
  <2>0. ASSUME NEW w \in Sets, TakeVersion(w) PROVE FALSE
    BY <1>0, <1>2, <2>0 DEF TakeVersion, TypeOK
  <2>1. PICK w \in Sets : PutLocally(w)
    BY <1>2, <2>0 DEF Next, SendToPeer, GetAnswer, CallFails, ApplyAtPeer, vars, serviceVars
  <2>2. v = w
    BY <1>0, <1>2, <2>1 DEF PutLocally, TypeOK
  <2>3. store'[CoordinatorOf[v]].version = version[v]
    BY <1>0, <2>1, <2>2, StoredFacts DEF PutLocally, TypeOK
  <2> QED BY <1>0, <1>2, <2>3 DEF Has, TypeOK
<1>3. ASSUME version'[v] = version[v], NEW i \in PeerIndex, call[v][i] # "applied", call'[v][i] = "applied"
      PROVE  Has(Peer(v, i), v)'
  <2>a. ASSUME NEW w \in Sets, SendToPeer(w) PROVE FALSE
    BY <1>0, <1>3, <2>a DEF SendToPeer, TypeOK
  <2>b. ASSUME NEW w \in Sets, CallFails(w) PROVE FALSE
    <3>1. CASE call' = call
      BY <1>3, <3>1
    <3>2. CASE call' = [call EXCEPT ![w][peer[w]] = "lost"]
      BY <1>0, <1>3, <3>2 DEF TypeOK
    <3> QED BY <2>b, <3>1, <3>2 DEF CallFails
  <2>1. PICK w \in Sets, j \in PeerIndex : ApplyAtPeer(w, j)
    BY <1>3, <2>a, <2>b DEF Next, TakeVersion, PutLocally, GetAnswer, vars, serviceVars
  <2>2. v = w /\ i = j
    BY <1>0, <1>3, <2>1 DEF ApplyAtPeer, TypeOK
  <2>3. Peer(v, i) \in Nodes
    BY PeersAreOthers
  <2>4. store'[Peer(v, i)].version >= version[v]
    BY <1>0, <2>1, <2>2, <2>3, StoredFacts, PutIfNewerFacts DEF ApplyAtPeer, TypeOK
  <2> QED BY <1>3, <2>4 DEF Has, Peer, Coordinator
<1>4. ASSUME version'[v] = version[v], pc[v] = "stored" PROVE Has(CoordinatorOf[v], v)'
  BY <1>0, <1>4, HasStep DEF Inv, TakenIsKept
<1>5. ASSUME version'[v] = version[v], NEW i \in PeerIndex, call[v][i] = "applied"
      PROVE  Has(Peer(v, i), v)'
  <2>1. Peer(v, i) \in Nodes /\ Has(Peer(v, i), v)
    BY <1>5, PeersAreOthers DEF Inv, TakenIsKept
  <2> QED BY <1>0, <1>5, <2>1, HasStep DEF Has, Peer, Coordinator
<1> QED BY <1>1, <1>2, <1>3, <1>4, <1>5

LEMMA InvInit == Init => Inv
BY TypeInit, CoordinatorPosition DEF Init, Inv, CallsFollowPut, NobodySkipped, TakenIsKept, PeerIndex

LEMMA InvCorrect == Spec => []Inv
<1>1. Inv /\ [Next]_vars => Inv'
  BY TypeStep, CallsStep, SkipStep, KeptStep DEF Inv
<1> QED BY <1>1, InvInit, PTL DEF Spec

\* A PUT acknowledged without a failed call is at every node, or a newer one
\* is, but for the nodes whose own Put of an older version came later.
THEOREM AckedReachesAll == Spec => []AckedIsEverywhere
<1>1. Inv => AckedIsEverywhere
  <2> SUFFICES ASSUME Inv, faults = 0, NEW w \in Sets, Acked(w), NEW n \in Nodes \ setBack
               PROVE  store[n].version >= version[w]
    BY DEF AckedIsEverywhere
  <2>1. peer[w] = N /\ pc[w] = "stored"
    BY CoordinatorPosition DEF Acked, Inv, CallsFollowPut
  <2>2. CASE n = CoordinatorOf[w]
    BY <2>1, <2>2 DEF Inv, TakenIsKept, Has
  <2>3. CASE n # CoordinatorOf[w]
    <3>1. PICK i \in PeerIndex : Peer(w, i) = n
      BY <2>3, OthersArePeers
    <3>2. call[w][i] = "applied"
      BY <2>1, CoordinatorPosition DEF Inv, NobodySkipped, PeerIndex
    <3> QED BY <3>1, <3>2 DEF Inv, TakenIsKept, Has
  <2> QED BY <2>2, <2>3
<1> QED BY <1>1, InvCorrect, PTL
=============================================================================
