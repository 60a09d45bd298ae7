------------------------ MODULE LeaderFollowerProofs ------------------------
(***************************************************************************)
(* Theorems about the leader-follower store, for every cluster, every set  *)
(* of calls and every W, R and bound on faults, and, from them, about the  *)
(* load test that runs against it (the last part).                         *)
(***************************************************************************)
EXTENDS KVLoadTest, FiniteSetTheorems, TLAPS

USE DEF FollowerIndex

-----------------------------------------------------------------------------
(* The node lists.                                                         *)

\* The leader is somewhere in the configured list, at LeaderIndex.
LEMMA LeaderPosition ==
    /\ N \in Nat
    /\ LeaderIndex \in 1 .. N
    /\ AllNodes[LeaderIndex] = Leader
<1>1. N \in Nat
  BY ClusterAssumption DEF ClusterAssumption, N
<1>2. \E i \in 1 .. N : AllNodes[i] = Leader
  BY ClusterAssumption DEF ClusterAssumption, Nodes
<1> QED BY <1>1, <1>2 DEF LeaderIndex

\* followerURLs leaves out the leader and nothing twice.
LEMMA FollowerFacts ==
    /\ \A i \in FollowerIndex : Followers[i] \in Nodes \ {Leader}
    /\ \A i, j \in FollowerIndex : Followers[i] = Followers[j] => i = j
<1> DEFINE pos(i) == IF i < LeaderIndex THEN i ELSE i + 1
<1>1. \A i \in FollowerIndex : pos(i) \in 1 .. N /\ pos(i) # LeaderIndex
  BY LeaderPosition
<1>2. \A i \in FollowerIndex : Followers[i] = AllNodes[pos(i)]
  BY DEF Followers
<1>3. \A i, j \in FollowerIndex : pos(i) = pos(j) => i = j
  BY LeaderPosition
<1> HIDE DEF pos
<1> QED
  BY <1>1, <1>2, <1>3, LeaderPosition, ClusterAssumption DEF ClusterAssumption, Nodes

\* What a read goes through: nodes of the cluster, no more than there are.
LEMMA CandidateFacts ==
    /\ Len(Candidates) \in 0 .. N
    /\ \A i \in 1 .. Len(Candidates) : Candidates[i] \in Nodes
<1>1. CASE R = 1
  BY <1>1, LeaderPosition, ClusterAssumption DEF Candidates, ClusterAssumption
<1>2. CASE R # 1
  BY <1>2, LeaderPosition DEF Candidates, N, Nodes
<1> QED BY <1>1, <1>2

-----------------------------------------------------------------------------
(* Type correctness.                                                       *)

\* A loop has no more answers than nodes it has been through.
Counters ==
    /\ \A w \in Sets : ackCount[w] <= nextIndex[w]
    /\ \A g \in Gets : successCount[g] < readIndex[g]

TypeInv == TypeOK /\ Counters

LEMMA RecordFacts ==
    /\ Absent \in Record
    /\ TypeOK => \A w \in Sets : RecordOf(w) \in Record
BY DEF Absent, Record, RecordOf, TypeOK

LEMMA TypeInit == Init => TypeInv
BY ParameterAssumption, LeaderPosition, RecordFacts DEF Init, TypeInv, TypeOK, Counters

LEMMA TypeStep == TypeInv /\ [Next]_vars => TypeInv'
<1> SUFFICES ASSUME TypeInv, [Next]_vars PROVE TypeInv'
  OBVIOUS
<1> USE RequestAssumption, ParameterAssumption, LeaderPosition, ClusterAssumption
    DEF ClusterAssumption, TypeInv, TypeOK, Counters, setVars, getVars
<1>1. ASSUME NEW w \in Sets, ClientSet(w) PROVE TypeInv'
  BY <1>1 DEF ClientSet
<1>2. ASSUME NEW w \in Sets, Put(w) PROVE TypeInv'
  BY <1>2, RecordFacts DEF Put
<1>3. ASSUME NEW w \in Sets, SendReplica(w) PROVE TypeInv'
  BY <1>3 DEF SendReplica
<1>4. ASSUME NEW w \in Sets, NEW i \in FollowerIndex, InternalReplicate(w, i) PROVE TypeInv'
  <2>1. Followers[i] \in Nodes
    BY FollowerFacts
  <2>2. store' \in [Nodes -> [Keys -> Record]]
    BY <1>4, <2>1, RecordFacts, SMTT(30) DEF InternalReplicate, PutIfNewer
  <2> QED BY <1>4, <2>2 DEF InternalReplicate
<1>5. ASSUME NEW w \in Sets, ReplicaAnswers(w) PROVE TypeInv'
  <2>1. nextIndex[w] \in 1 .. N - 1 /\ nextIndex' = [nextIndex EXCEPT ![w] = nextIndex[w] + 1]
    BY <1>5 DEF ReplicaAnswers
  <2>2. CASE ackCount' = ackCount
    <3>1. nextIndex' \in [Sets -> 1 .. N]
      BY <2>1, SMTT(30)
    <3>2. \A v \in Sets : ackCount'[v] <= nextIndex'[v]
      BY <2>1, <2>2
    <3> QED BY <1>5, <2>2, <3>1, <3>2, SMTT(30) DEF ReplicaAnswers
  <2>3. CASE ackCount' = [ackCount EXCEPT ![w] = ackCount[w] + 1]
    <3>1. ackCount[w] + 1 \in 1 .. N
      BY <2>1, SMTT(30)
    <3>2. ackCount' \in [Sets -> 1 .. N] /\ nextIndex' \in [Sets -> 1 .. N]
      BY <2>1, <2>3, <3>1, SMTT(30)
    <3>3. \A v \in Sets : ackCount'[v] <= nextIndex'[v]
      BY <2>1, <2>3
    <3> QED BY <1>5, <3>2, <3>3 DEF ReplicaAnswers
  <2> QED BY <1>5, <2>2, <2>3 DEF ReplicaAnswers
<1>6. ASSUME NEW w \in Sets, ReplicaFails(w) PROVE TypeInv'
  <2>1. nextIndex[w] \in 1 .. N - 1 /\ nextIndex' = [nextIndex EXCEPT ![w] = nextIndex[w] + 1]
    BY <1>6 DEF ReplicaFails
  <2>2. nextIndex' \in [Sets -> 1 .. N] /\ \A v \in Sets : ackCount[v] <= nextIndex'[v]
    BY <2>1
  <2>3. faults' \in 0 .. MaxFaults
    BY <1>6 DEF ReplicaFails
  <2> QED BY <1>6, <2>2, <2>3 DEF ReplicaFails
<1>7. ASSUME NEW g \in Gets, ClientGet(g) PROVE TypeInv'
  BY <1>7 DEF ClientGet, AckedSets
<1>8. ASSUME NEW g \in Gets, ReadOne(g) PROVE TypeInv'
  <2>1. store[Candidates[readIndex[g]]][KeyOf[g]] \in Record
    BY <1>8, CandidateFacts DEF ReadOne, Reading
  <2>2. newest' \in [Gets -> Record]
    BY <1>8, <2>1 DEF ReadOne
  <2>3. readIndex[g] \in 1 .. N /\ successCount[g] + 1 \in 0 .. N
    BY <1>8, CandidateFacts, SMTT(30) DEF ReadOne, Reading
  <2>4. readIndex' \in [Gets -> 1 .. N + 1] /\ successCount' \in [Gets -> 0 .. N]
    BY <1>8, <2>3 DEF ReadOne
  <2>5. \A h \in Gets : successCount'[h] < readIndex'[h]
    BY <1>8, <2>3 DEF ReadOne
  <2> QED BY <1>8, <2>2, <2>4, <2>5 DEF ReadOne
<1>9. ASSUME NEW g \in Gets, ReadFails(g) PROVE TypeInv'
  <2>1. readIndex[g] \in 1 .. N /\ faults + 1 \in 0 .. MaxFaults
    BY <1>9, CandidateFacts, SMTT(30) DEF ReadFails, Reading, ParameterAssumption
  <2>2. readIndex' = [readIndex EXCEPT ![g] = readIndex[g] + 1]
    BY <1>9 DEF ReadFails
  <2> QED BY <1>9, <2>1, <2>2 DEF ReadFails
<1>10. CASE UNCHANGED vars
  BY <1>10 DEF vars
<1> QED BY <1>1, <1>2, <1>3, <1>4, <1>5, <1>6, <1>7, <1>8, <1>9, <1>10 DEF Next

\* Every reachable state is well typed; in particular no loop runs past the
\* list it walks and no call collects more acknowledgements than nodes asked.
THEOREM TypeCorrect == Spec => []TypeOK
<1>1. TypeInv /\ [Next]_vars => TypeInv'
  BY TypeStep
<1>2. TypeInv => TypeOK
  BY DEF TypeInv
<1> QED BY <1>1, <1>2, TypeInit, PTL DEF Spec

-----------------------------------------------------------------------------
(* What no step undoes.                                                    *)

\* A call keeps its version, and an answer given to a client stays given.
LEMMA Settled ==
    ASSUME TypeInv, [Next]_vars, NEW w \in Sets
    PROVE  /\ pc[w] # "idle" => pc'[w] # "idle" /\ version'[w] = version[w]
           /\ pc[w] = "stored" => pc'[w] = "stored"
           /\ Acked(w) => Acked(w)'
           /\ Failed(w) => Failed(w)'
<1> DEFINE Goal == /\ pc[w] # "idle" => pc'[w] # "idle" /\ version'[w] = version[w]
                   /\ pc[w] = "stored" => pc'[w] = "stored"
                   /\ Acked(w) => Acked(w)'
                   /\ Failed(w) => Failed(w)'
<1> USE LeaderPosition DEF TypeInv, TypeOK, Acked, Failed, setVars, getVars
<1>1. ASSUME NEW v \in Sets, ClientSet(v) PROVE Goal
  BY <1>1 DEF ClientSet
<1>2. ASSUME NEW v \in Sets, Put(v) PROVE Goal
  BY <1>2 DEF Put
<1>3. ASSUME NEW v \in Sets, SendReplica(v) PROVE Goal
  BY <1>3 DEF SendReplica
<1>4. ASSUME NEW v \in Sets, NEW i \in FollowerIndex, InternalReplicate(v, i) PROVE Goal
  BY <1>4 DEF InternalReplicate
<1>5. ASSUME NEW v \in Sets, ReplicaAnswers(v) PROVE Goal
  BY <1>5 DEF ReplicaAnswers
<1>6. ASSUME NEW v \in Sets, ReplicaFails(v) PROVE Goal
  BY <1>6 DEF ReplicaFails
<1>7. ASSUME NEW g \in Gets, ClientGet(g) \/ ReadOne(g) \/ ReadFails(g) PROVE Goal
  BY <1>7 DEF ClientGet, ReadOne, ReadFails
<1>8. CASE UNCHANGED vars
  BY <1>8 DEF vars
<1> QED BY <1>1, <1>2, <1>3, <1>4, <1>5, <1>6, <1>7, <1>8 DEF Next

\* Only two actions write a store: the leader's Put and a follower's PutIfNewer.
LEMMA StoreSteps ==
    ASSUME TypeInv, [Next]_vars
    PROVE  \/ store' = store
           \/ \E w \in Sets : Put(w)
           \/ \E w \in Sets, i \in FollowerIndex : InternalReplicate(w, i)
BY DEF Next, vars, setVars, getVars, ClientSet, SendReplica, ReplicaAnswers, ReplicaFails,
       ClientGet, ReadOne, ReadFails

\* A follower's version of a key never decreases.
LEMMA FollowerStep ==
    ASSUME TypeInv, [Next]_vars, NEW i \in FollowerIndex, NEW k \in Keys
    PROVE  store'[Followers[i]][k].version >= store[Followers[i]][k].version
<1> DEFINE Goal == store'[Followers[i]][k].version >= store[Followers[i]][k].version
<1>1. Followers[i] \in Nodes /\ Followers[i] # Leader
  BY FollowerFacts
<1>2. store[Followers[i]][k] \in Record
  BY <1>1 DEF TypeInv, TypeOK
<1>3. CASE store' = store
  BY <1>2, <1>3 DEF Record
<1>4. ASSUME NEW w \in Sets, Put(w) PROVE Goal
  <2>1. store'[Followers[i]][k] = store[Followers[i]][k]
    BY <1>1, <1>4 DEF Put, TypeInv, TypeOK
  <2> QED BY <1>2, <2>1 DEF Record
<1>5. ASSUME NEW w \in Sets, NEW j \in FollowerIndex, InternalReplicate(w, j) PROVE Goal
  <2>1. CASE store'[Followers[i]][k] = store[Followers[i]][k]
    BY <1>2, <2>1 DEF Record
  <2>2. CASE store'[Followers[i]][k] = PutIfNewer(store[Followers[i]][k], RecordOf(w))
    BY <1>2, <2>2 DEF PutIfNewer, Record, RecordOf, Absent, TypeInv, TypeOK
  <2>3. /\ Followers[j] \in Nodes
        /\ KeyOf[w] \in Keys
    BY FollowerFacts, RequestAssumption DEF RequestAssumption
  <2> QED BY <1>1, <1>5, <2>1, <2>2, <2>3 DEF InternalReplicate, TypeInv, TypeOK
<1> QED BY <1>3, <1>4, <1>5, StoreSteps

\* Replication in any order, late or ignored, only moves a follower forward.
THEOREM FollowersMonotone == Spec => FollowersNeverGoBack
<1>1. TypeInv /\ [Next]_vars => TypeInv'
  BY TypeStep
<1>2. TypeInv /\ [Next]_vars =>
         [\A i \in FollowerIndex, k \in Keys :
             store'[Followers[i]][k].version >= store[Followers[i]][k].version]_vars
  BY FollowerStep
<1> QED BY <1>1, <1>2, TypeInit, PTL DEF Spec, FollowersNeverGoBack

-----------------------------------------------------------------------------
(* Versions identify writes.                                               *)

VersionInv ==
    /\ \A w \in Sets : IF pc[w] = "idle" THEN version[w] = 0
                                         ELSE version[w] \in 1 .. nextVersion
    /\ \A v, w \in Sets : pc[v] # "idle" /\ version[v] = version[w] => v = w

\* A replica holds nothing, or the record of a set that has stored it.
StoreInv ==
    \A n \in Nodes, k \in Keys :
        \/ store[n][k] = Absent
        \/ \E w \in Sets : pc[w] = "stored" /\ store[n][k] = RecordOf(w)

\* Requests are sent after the leader's own write.
CallInv == \A w \in Sets, i \in FollowerIndex : call[w][i] # "none" => pc[w] = "stored"

LEMMA VersionInit == Init => VersionInv /\ StoreInv /\ CallInv
BY DEF Init, VersionInv, StoreInv, CallInv

LEMMA VersionStep == TypeInv /\ VersionInv /\ [Next]_vars => VersionInv'
<1> SUFFICES ASSUME TypeInv, VersionInv, [Next]_vars PROVE VersionInv'
  OBVIOUS
<1> USE DEF TypeInv, TypeOK, VersionInv, setVars, getVars
<1>1. ASSUME NEW w \in Sets, ClientSet(w) PROVE VersionInv'
  BY <1>1, SMTT(30) DEF ClientSet
<1>2. ASSUME NEW w \in Sets, Put(w) PROVE VersionInv'
  BY <1>2 DEF Put
<1>3. CASE UNCHANGED <<pc, version, nextVersion>>
  BY <1>3
<1> QED
  BY <1>1, <1>2, <1>3 DEF Next, vars, SendReplica, InternalReplicate, ReplicaAnswers,
      ReplicaFails, ClientGet, ReadOne, ReadFails

LEMMA CallStep == TypeInv /\ CallInv /\ [Next]_vars => CallInv'
<1> SUFFICES ASSUME TypeInv, CallInv, [Next]_vars PROVE CallInv'
  OBVIOUS
<1> USE DEF TypeInv, TypeOK, CallInv, setVars, getVars
<1>1. ASSUME NEW w \in Sets, ClientSet(w) \/ Put(w) PROVE CallInv'
  BY <1>1 DEF ClientSet, Put
<1>2. ASSUME NEW w \in Sets, SendReplica(w) PROVE CallInv'
  BY <1>2 DEF SendReplica
<1>3. ASSUME NEW w \in Sets, NEW i \in FollowerIndex, InternalReplicate(w, i) PROVE CallInv'
  BY <1>3 DEF InternalReplicate
<1>4. CASE UNCHANGED <<pc, call>>
  BY <1>4
<1> QED
  BY <1>1, <1>2, <1>3, <1>4 DEF Next, vars, ReplicaAnswers, ReplicaFails, ClientGet, ReadOne, ReadFails

LEMMA StoreStep == TypeInv /\ CallInv /\ StoreInv /\ [Next]_vars => StoreInv'
<1> SUFFICES ASSUME TypeInv, CallInv, StoreInv, [Next]_vars,
                    NEW n \in Nodes, NEW k \in Keys
             PROVE  \/ store'[n][k] = Absent
                    \/ \E w \in Sets : pc'[w] = "stored" /\ store'[n][k] = RecordOf(w)'
  BY DEF StoreInv
<1>1. \A w \in Sets : pc[w] = "stored" => pc'[w] = "stored" /\ RecordOf(w)' = RecordOf(w)
  BY Settled DEF RecordOf
<1>2. CASE store'[n][k] = store[n][k]
  BY <1>1, <1>2 DEF StoreInv
<1>3. ASSUME NEW w \in Sets, Put(w) PROVE store'[n][k] \in {store[n][k], RecordOf(w)}
  BY <1>3, RequestAssumption, ClusterAssumption DEF Put, TypeInv, TypeOK, RequestAssumption, ClusterAssumption
<1>4. ASSUME NEW w \in Sets, Put(w) PROVE pc'[w] = "stored" /\ RecordOf(w)' = RecordOf(w)
  BY <1>4 DEF Put, RecordOf, TypeInv, TypeOK
<1>5. ASSUME NEW w \in Sets, NEW i \in FollowerIndex, InternalReplicate(w, i)
      PROVE  pc[w] = "stored" /\ store'[n][k] \in {store[n][k], RecordOf(w)}
  BY <1>5, RequestAssumption, FollowerFacts
     DEF InternalReplicate, PutIfNewer, CallInv, TypeInv, TypeOK, RequestAssumption
<1> QED BY <1>1, <1>2, <1>3, <1>4, <1>5, StoreSteps

\* The leader's counter never gives a version twice, and a record travels with
\* the version it was given: equal versions are equal records at all replicas.
THEOREM VersionsIdentifyValues == Spec => []SameVersionSameValue
<1> DEFINE Inv == TypeInv /\ VersionInv /\ CallInv /\ StoreInv
<1>1. Init => Inv
  BY TypeInit, VersionInit
<1>2. Inv /\ [Next]_vars => Inv'
  BY TypeStep, VersionStep, CallStep, StoreStep
<1>3. Inv => SameVersionSameValue
  <2> SUFFICES ASSUME Inv, NEW m \in Nodes, NEW n \in Nodes, NEW k \in Keys,
                      store[m][k].version = store[n][k].version
               PROVE  store[m][k] = store[n][k]
    BY DEF SameVersionSameValue
  <2>1. \A w \in Sets : pc[w] = "stored" => version[w] > 0
    <3>1. ASSUME NEW w \in Sets, pc[w] = "stored" PROVE version[w] \in 1 .. nextVersion
      BY <3>1 DEF VersionInv
    <3> QED BY <3>1 DEF TypeInv, TypeOK
  <2>2. \A v, w \in Sets : pc[v] = "stored" /\ version[v] = version[w] => v = w
    BY DEF VersionInv
  <2>3. /\ Absent.version = 0
        /\ \A w \in Sets : RecordOf(w).version = version[w]
    BY DEF Absent, RecordOf
  <2> QED BY <2>1, <2>2, <2>3 DEF StoreInv
<1> QED BY <1>1, <1>2, <1>3, PTL DEF Spec

-----------------------------------------------------------------------------
(* An acknowledgement stands for W-1 followers.                            *)

\* The holders of set w among the followers its loop has been through.
Heard(w) == {i \in Holders(w) : i < nextIndex[w]}

AckInv ==
    /\ \A w \in Sets, i \in FollowerIndex : call[w][i] = "answered" => i \in Holders(w)
    /\ \A w \in Sets : pc[w] # "stored" => ackCount[w] = 1 /\ nextIndex[w] = 1
    /\ \A w \in Sets : ackCount[w] - 1 <= Cardinality(Heard(w))

LEMMA FiniteIndexSets ==
    ASSUME NEW S \in SUBSET FollowerIndex
    PROVE  IsFiniteSet(S) /\ Cardinality(S) \in Nat
<1>1. IsFiniteSet(FollowerIndex)
  BY LeaderPosition, FS_Interval
<1> QED BY <1>1, FS_Subset, FS_CardinalityType

\* Holders are not lost: a follower that moved past a version stays past it.
LEMMA HoldersGrow ==
    ASSUME TypeInv, [Next]_vars, NEW w \in Sets, pc[w] # "idle"
    PROVE  Holders(w) \subseteq Holders(w)'
<1>1. version'[w] = version[w] /\ version[w] \in Nat
  BY Settled DEF TypeInv, TypeOK
<1>2. KeyOf[w] \in Keys
  BY RequestAssumption DEF RequestAssumption
<1>3. \A i \in FollowerIndex : /\ store[Followers[i]][KeyOf[w]] \in Record
                               /\ store'[Followers[i]][KeyOf[w]] \in Record
  <2>1. TypeInv'
    BY TypeStep
  <2>2. store \in [Nodes -> [Keys -> Record]] /\ store' \in [Nodes -> [Keys -> Record]]
    BY <2>1 DEF TypeInv, TypeOK
  <2> QED BY <1>2, <2>2, FollowerFacts
<1>4. \A i \in FollowerIndex :
         store'[Followers[i]][KeyOf[w]].version >= store[Followers[i]][KeyOf[w]].version
  BY <1>2, FollowerStep
<1> QED BY <1>1, <1>3, <1>4 DEF Holders, Record

\* Which steps move a set's loop, and which answers its requests.
LEMMA LoopSteps ==
    ASSUME TypeInv, [Next]_vars, NEW w \in Sets
    PROVE  /\ \/ nextIndex'[w] = nextIndex[w] /\ ackCount'[w] = ackCount[w]
              \/ ReplicaAnswers(w)
              \/ ReplicaFails(w)
           /\ \A i \in FollowerIndex :
                 call'[w][i] = "answered" =>
                    call[w][i] = "answered" \/ InternalReplicate(w, i)
<1> DEFINE Goal ==
       /\ \/ nextIndex'[w] = nextIndex[w] /\ ackCount'[w] = ackCount[w]
          \/ ReplicaAnswers(w)
          \/ ReplicaFails(w)
       /\ \A i \in FollowerIndex :
             call'[w][i] = "answered" =>
                call[w][i] = "answered" \/ InternalReplicate(w, i)
<1> USE DEF TypeInv, TypeOK, setVars, getVars
<1>1. ASSUME NEW v \in Sets, ClientSet(v) \/ Put(v) PROVE Goal
  BY <1>1 DEF ClientSet, Put
<1>2. ASSUME NEW v \in Sets, SendReplica(v) PROVE Goal
  BY <1>2 DEF SendReplica
<1>3. ASSUME NEW v \in Sets, NEW j \in FollowerIndex, InternalReplicate(v, j) PROVE Goal
  <2>1. \A i \in FollowerIndex : call'[w][i] # call[w][i] => v = w /\ i = j
    BY <1>3 DEF InternalReplicate
  <2>2. nextIndex' = nextIndex /\ ackCount' = ackCount
    BY <1>3 DEF InternalReplicate
  <2> QED BY <1>3, <2>1, <2>2
<1>4. ASSUME NEW v \in Sets, ReplicaAnswers(v) PROVE Goal
  <2>1. call' = call /\ (v # w => nextIndex'[w] = nextIndex[w] /\ ackCount'[w] = ackCount[w])
    BY <1>4 DEF ReplicaAnswers
  <2> QED BY <1>4, <2>1
<1>5. ASSUME NEW v \in Sets, ReplicaFails(v) PROVE Goal
  <2>1. call' = call /\ (v # w => nextIndex'[w] = nextIndex[w] /\ ackCount'[w] = ackCount[w])
    BY <1>5 DEF ReplicaFails
  <2> QED BY <1>5, <2>1
<1>6. ASSUME NEW g \in Gets, ClientGet(g) \/ ReadOne(g) \/ ReadFails(g) PROVE Goal
  BY <1>6 DEF ClientGet, ReadOne, ReadFails
<1>7. CASE UNCHANGED vars
  BY <1>7 DEF vars
<1> QED BY <1>1, <1>2, <1>3, <1>4, <1>5, <1>6, <1>7 DEF Next

LEMMA AckInit == Init => AckInv
<1> SUFFICES ASSUME Init PROVE AckInv
  OBVIOUS
<1>1. \A w \in Sets : Heard(w) \in SUBSET FollowerIndex
  BY DEF Heard, Holders
<1>2. \A w \in Sets : Cardinality(Heard(w)) \in Nat
  BY <1>1, FiniteIndexSets
<1> QED BY <1>2 DEF Init, AckInv

LEMMA AckStep == TypeInv /\ CallInv /\ AckInv /\ [Next]_vars => AckInv'
<1> SUFFICES ASSUME TypeInv, CallInv, AckInv, [Next]_vars PROVE AckInv'
  OBVIOUS
<1> USE DEF setVars, getVars
<1>1. TypeInv'
  BY TypeStep
<1>2. ASSUME NEW w \in Sets, NEW i \in FollowerIndex, call'[w][i] = "answered"
      PROVE  i \in Holders(w)'
  <2>1. CASE call[w][i] = "answered"
    BY <2>1, HoldersGrow DEF AckInv, CallInv
  <2>2. CASE call[w][i] # "answered"
    <3>1. InternalReplicate(w, i)
      BY <1>2, <2>2, LoopSteps
    <3>2. /\ Followers[i] \in Nodes /\ KeyOf[w] \in Keys
          /\ store[Followers[i]][KeyOf[w]] \in Record
      BY FollowerFacts, RequestAssumption DEF RequestAssumption, TypeInv, TypeOK
    <3>3. store'[Followers[i]][KeyOf[w]] =
             PutIfNewer(store[Followers[i]][KeyOf[w]], RecordOf(w))
      BY <3>1, <3>2 DEF InternalReplicate, TypeInv, TypeOK
    <3>4. store'[Followers[i]][KeyOf[w]].version >= version[w]
      BY <3>2, <3>3 DEF PutIfNewer, RecordOf, Record, TypeInv, TypeOK
    <3> QED BY <3>1, <3>4 DEF Holders, InternalReplicate
  <2> QED BY <2>1, <2>2
<1>3. ASSUME NEW w \in Sets, pc'[w] # "stored"
      PROVE  ackCount'[w] = 1 /\ nextIndex'[w] = 1
  BY <1>3, ZenonT(30) DEF AckInv, CallInv, Next, vars, ClientSet, Put, SendReplica, InternalReplicate,
     ReplicaAnswers, ReplicaFails, ClientGet, ReadOne, ReadFails, TypeInv, TypeOK
<1>4. ASSUME NEW w \in Sets PROVE ackCount'[w] - 1 <= Cardinality(Heard(w)')
  <2>1. /\ Heard(w) \in SUBSET FollowerIndex
        /\ Heard(w)' \in SUBSET FollowerIndex
    BY DEF Heard, Holders
  <2>2. /\ IsFiniteSet(Heard(w)) /\ Cardinality(Heard(w)) \in Nat
        /\ IsFiniteSet(Heard(w)') /\ Cardinality(Heard(w)') \in Nat
    BY <2>1, FiniteIndexSets
  <2>3. CASE pc'[w] # "stored"
    BY <1>3, <2>2, <2>3
  <2>4. CASE pc'[w] = "stored" /\ pc[w] # "stored"
    <3>1. ackCount'[w] = 1
      BY <2>4 DEF AckInv, Next, vars, ClientSet, Put, SendReplica, InternalReplicate,
         ReplicaAnswers, ReplicaFails, ClientGet, ReadOne, ReadFails, TypeInv, TypeOK
    <3> QED BY <2>2, <3>1
  <2>5. CASE pc[w] = "stored"
    <3>1. Holders(w) \subseteq Holders(w)'
      BY <2>5, HoldersGrow
    <3>2. CASE nextIndex'[w] = nextIndex[w] /\ ackCount'[w] = ackCount[w]
      <4>1. Heard(w) \in SUBSET Heard(w)'
        BY <3>1, <3>2 DEF Heard
      <4>2. Cardinality(Heard(w)) <= Cardinality(Heard(w)')
        BY <2>2, <4>1, FS_Subset
      <4> QED BY <2>2, <3>2, <4>2 DEF AckInv, TypeInv, TypeOK
    <3>3. CASE ReplicaFails(w)
      <4>1. /\ nextIndex'[w] = nextIndex[w] + 1 /\ ackCount'[w] = ackCount[w]
            /\ nextIndex[w] \in Int
        BY <3>3, LeaderPosition DEF ReplicaFails, TypeInv, TypeOK
      <4>2. Heard(w) \in SUBSET Heard(w)'
        BY <3>1, <4>1, LeaderPosition DEF Heard, Holders
      <4>3. Cardinality(Heard(w)) <= Cardinality(Heard(w)')
        BY <2>2, <4>2, FS_Subset
      <4> QED BY <2>2, <4>1, <4>3 DEF AckInv, TypeInv, TypeOK
    <3>4. CASE ReplicaAnswers(w)
      <4> DEFINE i == nextIndex[w]
      <4>1. /\ i \in FollowerIndex /\ i \in Int
            /\ nextIndex'[w] = i + 1
            /\ ackCount'[w] \in {ackCount[w], ackCount[w] + 1}
            /\ ackCount[w] \in Int
        BY <3>4, LeaderPosition DEF ReplicaAnswers, TypeInv, TypeOK
      <4>2. i \in Holders(w)
        BY <3>4 DEF ReplicaAnswers, AckInv
      <4>3. i \notin Heard(w)
        BY <4>1 DEF Heard
      <4>4. Heard(w) \cup {i} \in SUBSET Heard(w)'
        BY <3>1, <4>1, <4>2, LeaderPosition DEF Heard, Holders
      <4>5. Cardinality(Heard(w) \cup {i}) = Cardinality(Heard(w)) + 1
        BY <2>2, <4>3, FS_AddElement
      <4>6. Cardinality(Heard(w)) + 1 <= Cardinality(Heard(w)')
        BY <2>2, <4>4, <4>5, FS_Subset
      <4>7. ackCount[w] - 1 <= Cardinality(Heard(w))
        BY DEF AckInv
      <4> HIDE DEF i
      <4> QED BY <2>2, <4>1, <4>6, <4>7
    <3> QED BY <3>2, <3>3, <3>4, LoopSteps
  <2> QED BY <2>3, <2>4, <2>5, <1>1 DEF TypeInv, TypeOK
<1> QED BY <1>2, <1>3, <1>4 DEF AckInv

\* From the counting argument: of the acknowledgements all but the leader's own
\* are distinct followers that hold the version.
LEMMA AckedHolders ==
    ASSUME TypeInv, AckInv, NEW w \in Sets, Acked(w)
    PROVE  Cardinality(Holders(w)) >= W - 1
<1>1. Holders(w) \in SUBSET FollowerIndex /\ Heard(w) \in SUBSET Holders(w)
  BY DEF Heard, Holders
<1>2. /\ Cardinality(Heard(w)) <= Cardinality(Holders(w))
      /\ Cardinality(Heard(w)) \in Nat /\ Cardinality(Holders(w)) \in Nat
  BY <1>1, FiniteIndexSets, FS_Subset
<1>3. ackCount[w] - 1 <= Cardinality(Heard(w)) /\ ackCount[w] \in Int
  BY LeaderPosition DEF AckInv, TypeInv, TypeOK
<1>4. ackCount[w] >= W
  BY DEF Acked
<1> QED BY <1>2, <1>3, <1>4, ParameterAssumption DEF ParameterAssumption

\* An acknowledged write is held, or superseded, at W-1 followers for good, for
\* every cluster size, write concern, fault pattern and concurrency.
THEOREM AckedReplication == Spec => []AckedIsReplicated
<1> DEFINE Inv == TypeInv /\ CallInv /\ AckInv
<1>1. Init => Inv
  BY TypeInit, VersionInit, AckInit
<1>2. Inv /\ [Next]_vars => Inv'
  BY TypeStep, CallStep, AckStep
<1>3. Inv => AckedIsReplicated
  BY AckedHolders DEF AckedIsReplicated
<1> QED BY <1>1, <1>2, <1>3, PTL DEF Spec

-----------------------------------------------------------------------------
(* The leader's copy, when clients write one after the other.              *)

Serial == MaxConcurrentSets <= 1

\* Without serial writers the last conjunct is false: a set that took the lower
\* version may reach Put second.
LeaderInv ==
    Serial => /\ \A v, w \in Sets : Pending(v) /\ Pending(w) => v = w
              /\ \A w \in Sets : pc[w] = "versioned" => version[w] = nextVersion
              /\ \A w \in Sets : pc[w] = "stored" =>
                    store[Leader][KeyOf[w]].version >= version[w]

LEMMA LeaderInit == Init => LeaderInv
BY DEF Init, LeaderInv, Pending

LEMMA PcSteps ==
    ASSUME TypeInv, [Next]_vars, NEW w \in Sets
    PROVE  /\ \/ pc'[w] = pc[w]
              \/ ClientSet(w) /\ pc'[w] = "versioned"
              \/ Put(w) /\ pc[w] = "versioned" /\ pc'[w] = "stored"
           /\ nextVersion' = nextVersion \/ \E v \in Sets : ClientSet(v)
<1> USE DEF TypeInv, TypeOK, setVars, getVars
<1>1. ASSUME NEW v \in Sets, ClientSet(v) PROVE pc'[w] = pc[w] \/ (v = w /\ pc'[w] = "versioned")
  BY <1>1 DEF ClientSet
<1>2. ASSUME NEW v \in Sets, Put(v)
      PROVE  /\ pc'[w] = pc[w] \/ (v = w /\ pc[w] = "versioned" /\ pc'[w] = "stored")
             /\ nextVersion' = nextVersion
  BY <1>2 DEF Put
<1>3. CASE UNCHANGED <<pc, nextVersion>>
  BY <1>3
<1> QED
  BY <1>1, <1>2, <1>3 DEF Next, vars, SendReplica, InternalReplicate, ReplicaAnswers,
     ReplicaFails, ClientGet, ReadOne, ReadFails

LEMMA LeaderStep ==
    TypeInv /\ VersionInv /\ LeaderInv /\ [Next]_vars => LeaderInv'
<1> SUFFICES ASSUME TypeInv, VersionInv, LeaderInv, [Next]_vars, Serial PROVE LeaderInv'
  BY DEF LeaderInv, Serial
<1>1. TypeInv' /\ VersionInv'
  BY TypeStep, VersionStep
<1>2. \A v \in Sets : Pending(v)' => Pending(v) \/ ClientSet(v)
  <2> SUFFICES ASSUME NEW v \in Sets, Pending(v)' PROVE Pending(v) \/ ClientSet(v)
    OBVIOUS
  <2>1. CASE pc[v] = "idle"
    BY <2>1, PcSteps DEF Pending
  <2>2. CASE pc[v] # "idle"
    BY <2>2, Settled DEF Pending
  <2> QED BY <2>1, <2>2
<1>3. ASSUME NEW w \in Sets, ClientSet(w)
      PROVE  /\ \A v \in Sets : ~Pending(v)
             /\ \A v \in Sets : v # w => ~ClientSet(v)
  <2>1. {v \in Sets : Pending(v)} = {}
    <3>1. IsFiniteSet({v \in Sets : Pending(v)})
      BY RequestAssumption, FS_Subset DEF RequestAssumption
    <3>2. Cardinality({v \in Sets : Pending(v)}) < 1
      BY <1>3, <3>1, FS_CardinalityType, ParameterAssumption
         DEF ClientSet, Serial, ParameterAssumption
    <3> QED BY <3>1, <3>2, FS_CardinalityType, FS_EmptySet
  <2>2. \A v \in Sets : v # w => ~ClientSet(v)
    BY <1>3 DEF ClientSet, TypeInv, TypeOK
  <2> QED BY <2>1, <2>2
<1>4. \A v, w \in Sets : Pending(v)' /\ Pending(w)' => v = w
  BY <1>2, <1>3 DEF LeaderInv
<1>5. ASSUME NEW w \in Sets, pc'[w] = "versioned" PROVE version'[w] = nextVersion'
  <2>1. CASE ClientSet(w)
    BY <2>1 DEF ClientSet, TypeInv, TypeOK
  <2>2. CASE pc[w] = "versioned"
    <3>1. Pending(w)
      BY <2>2 DEF Pending, Acked, Failed
    <3>2. nextVersion' = nextVersion
      BY <1>3, <3>1, PcSteps
    <3> QED BY <2>2, <3>2, Settled DEF LeaderInv
  <2> QED BY <1>5, <2>1, <2>2, PcSteps
<1>6. ASSUME NEW w \in Sets, pc'[w] = "stored"
      PROVE  store'[Leader][KeyOf[w]].version >= version'[w]
  <2>1. /\ Leader \in Nodes /\ KeyOf[w] \in Keys
        /\ store[Leader][KeyOf[w]] \in Record
    BY ClusterAssumption, RequestAssumption
       DEF ClusterAssumption, RequestAssumption, TypeInv, TypeOK
  <2>2. version'[w] \in Nat
    BY <1>1 DEF TypeInv, TypeOK
  <2>3. CASE Put(w)
    <3>1. store'[Leader][KeyOf[w]] = RecordOf(w) /\ version'[w] = version[w]
      BY <2>1, <2>3 DEF Put, TypeInv, TypeOK
    <3> QED BY <2>2, <3>1 DEF RecordOf
  <2>4. CASE pc[w] = "stored"
    <3>1. /\ version'[w] = version[w]
          /\ store[Leader][KeyOf[w]].version >= version[w]
          /\ version[w] <= nextVersion
      BY <2>4, Settled DEF LeaderInv, VersionInv, TypeInv, TypeOK
    <3>2. CASE store'[Leader][KeyOf[w]] = store[Leader][KeyOf[w]]
      BY <3>1, <3>2
    <3>3. ASSUME NEW v \in Sets, Put(v),
                 store'[Leader][KeyOf[w]] # store[Leader][KeyOf[w]]
          PROVE  store'[Leader][KeyOf[w]].version = nextVersion
      <4>1. store'[Leader][KeyOf[w]] = RecordOf(v)
        BY <2>1, <3>3 DEF Put, TypeInv, TypeOK
      <4>2. version[v] = nextVersion
        BY <3>3 DEF Put, LeaderInv
      <4> QED BY <4>1, <4>2 DEF RecordOf
    <3>4. ASSUME NEW v \in Sets, NEW i \in FollowerIndex, InternalReplicate(v, i)
          PROVE  store'[Leader][KeyOf[w]] = store[Leader][KeyOf[w]]
      BY <2>1, <3>4, FollowerFacts DEF InternalReplicate, TypeInv, TypeOK
    <3> QED BY <3>1, <3>2, <3>3, <3>4, StoreSteps
  <2> QED BY <1>6, <2>3, <2>4, PcSteps
<1> QED BY <1>4, <1>5, <1>6 DEF LeaderInv

-----------------------------------------------------------------------------
(* Reads.                                                                  *)

\* The positions of the list whose node holds set w for good: followers, and
\* the leader when clients write one after the other.
Keepers(w) == {q \in 1 .. N : /\ AllNodes[q] # Leader \/ Serial
                              /\ store[AllNodes[q]][KeyOf[w]].version >= version[w]}

Overlap == FollowerQuorumsOverlap \/ SerialQuorumsOverlap

\* The positions outside Q that read g has been through.
Outside(g, Q) == IF R = 1 THEN {} ELSE {i \in 1 .. readIndex[g] - 1 : i \notin Q}

\* Read g has seen set w, or each of its answers so far came from outside some
\* quorum Q of keepers of w: and there are fewer than R positions outside Q.
Covered(g, w) ==
    \/ newest[g].version >= version[w]
    \/ \E Q \in SUBSET Keepers(w) : /\ Cardinality(Q) + R > N
                                    /\ successCount[g] <= Cardinality(Outside(g, Q))

ReadInv ==
    /\ \A g \in Gets \ begun : successCount[g] = 0
    /\ \A g \in begun : \A w \in after[g] : /\ Acked(w) /\ KeyOf[w] = KeyOf[g]
                                            /\ Overlap => Covered(g, w)

LEMMA FinitePositions ==
    ASSUME NEW S \in SUBSET (1 .. N)
    PROVE  /\ IsFiniteSet(S) /\ Cardinality(S) \in 0 .. N
           /\ Cardinality(S) = N => S = 1 .. N
<1>1. IsFiniteSet(1 .. N) /\ Cardinality(1 .. N) = N
  BY LeaderPosition, FS_Interval
<1>2. IsFiniteSet(S) /\ Cardinality(S) <= N /\ (Cardinality(S) = N => S = 1 .. N)
  BY <1>1, FS_Subset
<1> QED BY <1>2, FS_CardinalityType, LeaderPosition

LEMMA OutsideFacts ==
    ASSUME TypeInv, NEW g \in Gets, NEW Q
    PROVE  /\ Outside(g, Q) \in SUBSET (1 .. N)
           /\ IsFiniteSet(Outside(g, Q))
           /\ Cardinality(Outside(g, Q)) \in 0 .. N
<1>1. readIndex[g] \in 1 .. N + 1
  BY DEF TypeInv, TypeOK
<1>2. Outside(g, Q) \in SUBSET (1 .. N)
  BY <1>1, LeaderPosition DEF Outside
<1> QED BY <1>2, FinitePositions

LEMMA OutsideNextFacts ==
    ASSUME TypeInv', NEW g \in Gets, NEW Q
    PROVE  IsFiniteSet(Outside(g, Q)') /\ Cardinality(Outside(g, Q)') \in Nat
<1>1. readIndex'[g] \in 1 .. N + 1
  BY DEF TypeInv, TypeOK
<1>2. Outside(g, Q)' \in SUBSET (1 .. N)
  BY <1>1, LeaderPosition DEF Outside
<1> QED BY <1>2, FinitePositions, LeaderPosition

\* Every position but the leader's is a follower's.
LEMMA FollowerPositions ==
    ASSUME NEW q \in 1 .. N, AllNodes[q] # Leader
    PROVE  \E i \in FollowerIndex : Followers[i] = AllNodes[q]
<1>1. CASE q < LeaderIndex
  <2>1. q \in FollowerIndex /\ Followers[q] = AllNodes[q]
    BY <1>1, LeaderPosition DEF Followers
  <2> QED BY <2>1
<1>2. CASE q > LeaderIndex
  <2>1. q - 1 \in FollowerIndex /\ Followers[q - 1] = AllNodes[q]
    BY <1>2, LeaderPosition DEF Followers
  <2> QED BY <2>1
<1> QED BY <1>1, <1>2, LeaderPosition

LEMMA KeepersGrow ==
    ASSUME TypeInv, VersionInv, LeaderInv, [Next]_vars, NEW w \in Sets, pc[w] = "stored"
    PROVE  Keepers(w) \subseteq Keepers(w)'
<1>1. TypeInv' /\ LeaderInv'
  BY TypeStep, LeaderStep
<1>2. pc'[w] = "stored" /\ version'[w] = version[w] /\ version[w] \in Nat
  BY Settled DEF TypeInv, TypeOK
<1>3. KeyOf[w] \in Keys
  BY RequestAssumption DEF RequestAssumption
<1> SUFFICES ASSUME NEW q \in Keepers(w) PROVE q \in Keepers(w)'
  OBVIOUS
<1>4. q \in 1 .. N /\ (AllNodes[q] # Leader \/ Serial)
  BY DEF Keepers
<1>5. CASE AllNodes[q] = Leader
  BY <1>1, <1>2, <1>4, <1>5 DEF Keepers, LeaderInv
<1>6. CASE AllNodes[q] # Leader
  <2>1. PICK i \in FollowerIndex : Followers[i] = AllNodes[q]
    BY <1>4, <1>6, FollowerPositions
  <2>2. AllNodes[q] \in Nodes
    BY <1>4 DEF Nodes
  <2>3. store'[AllNodes[q]][KeyOf[w]].version >= store[AllNodes[q]][KeyOf[w]].version
    BY <1>3, <2>1, FollowerStep
  <2>4. store[AllNodes[q]][KeyOf[w]] \in Record /\ store'[AllNodes[q]][KeyOf[w]] \in Record
    BY <1>1, <1>3, <2>2 DEF TypeInv, TypeOK
  <2>5. store[AllNodes[q]][KeyOf[w]].version >= version[w]
    BY DEF Keepers
  <2> QED BY <1>2, <1>4, <2>3, <2>4, <2>5 DEF Keepers, Record
<1> QED BY <1>5, <1>6

\* The keepers of an acknowledged set and any R positions have one in common.
LEMMA AckedQuorum ==
    ASSUME TypeInv, AckInv, LeaderInv, Overlap, NEW w \in Sets, Acked(w)
    PROVE  Cardinality(Keepers(w)) + R > N
<1> DEFINE pos == [i \in Holders(w) |-> IF i < LeaderIndex THEN i ELSE i + 1]
           K == Keepers(w) \ {LeaderIndex}
<1>1. Holders(w) \in SUBSET FollowerIndex /\ Keepers(w) \in SUBSET (1 .. N) /\ K \in SUBSET (1 .. N)
  BY DEF Holders, Keepers
<1>2. \A i \in Holders(w) : pos[i] \in K
  <2> SUFFICES ASSUME NEW i \in Holders(w) PROVE pos[i] \in K
    OBVIOUS
  <2>1. i \in FollowerIndex /\ pos[i] \in 1 .. N /\ pos[i] # LeaderIndex
    BY <1>1, LeaderPosition
  <2>2. Followers[i] = AllNodes[pos[i]] /\ Followers[i] # Leader
    BY <2>1, FollowerFacts DEF Followers
  <2>3. store[Followers[i]][KeyOf[w]].version >= version[w]
    BY DEF Holders
  <2> HIDE DEF pos
  <2> QED BY <2>1, <2>2, <2>3 DEF Keepers
<1>3. pos \in Injection(Holders(w), K)
  <2>1. pos \in [Holders(w) -> K]
    BY <1>2
  <2>2. \A i, j \in Holders(w) : pos[i] = pos[j] => i = j
    BY <1>1, LeaderPosition
  <2> HIDE DEF pos, K
  <2> QED BY <2>1, <2>2 DEF Injection, IsInjective
<1>4. IsFiniteSet(K) /\ IsFiniteSet(Keepers(w))
  BY <1>1, FinitePositions
<1>5. Cardinality(Holders(w)) <= Cardinality(K)
  <2> HIDE DEF pos, K
  <2> QED BY <1>3, <1>4, FS_Injection
<1>6. Cardinality(Holders(w)) \in Nat /\ Cardinality(K) \in Nat /\ Cardinality(Keepers(w)) \in Nat
  BY <1>1, <1>4, FiniteIndexSets, FS_CardinalityType
<1>7. Cardinality(Holders(w)) >= W - 1
  BY AckedHolders
<1>8. CASE FollowerQuorumsOverlap
  <2>1. Cardinality(K) <= Cardinality(Keepers(w))
    BY <1>4, FS_Subset
  <2> HIDE DEF K
  <2> QED BY <1>5, <1>6, <1>7, <1>8, <2>1, LeaderPosition, ParameterAssumption
          DEF FollowerQuorumsOverlap, ParameterAssumption
<1>9. CASE SerialQuorumsOverlap
  <2>1. LeaderIndex \in Keepers(w)
    BY <1>9, LeaderPosition DEF SerialQuorumsOverlap, Serial, LeaderInv, Acked, Keepers
  <2>2. Cardinality(K) = Cardinality(Keepers(w)) - 1
    BY <1>4, <2>1, FS_RemoveElement
  <2> HIDE DEF K
  <2> QED BY <1>5, <1>6, <1>7, <1>9, <2>2, LeaderPosition, ParameterAssumption
          DEF SerialQuorumsOverlap, ParameterAssumption
<1> QED BY <1>8, <1>9 DEF Overlap

\* Which steps move a read's loop.
LEMMA GetSteps ==
    ASSUME TypeInv, [Next]_vars, NEW g \in Gets
    PROVE  \/ /\ g \in begun' <=> g \in begun
              /\ readIndex'[g] = readIndex[g] /\ successCount'[g] = successCount[g]
              /\ newest'[g] = newest[g] /\ after'[g] = after[g]
           \/ ClientGet(g) \/ ReadOne(g) \/ ReadFails(g)
<1> DEFINE Goal == \/ /\ g \in begun' <=> g \in begun
                      /\ readIndex'[g] = readIndex[g] /\ successCount'[g] = successCount[g]
                      /\ newest'[g] = newest[g] /\ after'[g] = after[g]
                   \/ ClientGet(g) \/ ReadOne(g) \/ ReadFails(g)
<1> USE DEF TypeInv, TypeOK, setVars, getVars
<1>1. ASSUME NEW h \in Gets, ClientGet(h) PROVE Goal
  <2>1. CASE h = g
    BY <1>1, <2>1
  <2>2. CASE h # g
    BY <1>1, <2>2 DEF ClientGet
  <2> QED BY <2>1, <2>2
<1>2. ASSUME NEW h \in Gets, ReadOne(h) PROVE Goal
  <2>1. CASE h = g
    BY <1>2, <2>1
  <2>2. CASE h # g
    BY <1>2, <2>2 DEF ReadOne
  <2> QED BY <2>1, <2>2
<1>3. ASSUME NEW h \in Gets, ReadFails(h) PROVE Goal
  <2>1. CASE h = g
    BY <1>3, <2>1
  <2>2. CASE h # g
    BY <1>3, <2>2 DEF ReadFails
  <2> QED BY <2>1, <2>2
<1>4. CASE UNCHANGED getVars
  BY <1>4
<1> QED
  BY <1>1, <1>2, <1>3, <1>4 DEF Next, vars, ClientSet, Put, SendReplica, InternalReplicate,
     ReplicaAnswers, ReplicaFails

LEMMA ReadInit == Init => ReadInv
BY DEF Init, ReadInv

\* One answer more: it is at least as new as the set, or from outside Q.
LEMMA CoveredByReadOne ==
    ASSUME TypeInv, TypeInv', NEW g \in Gets, NEW w \in Sets, KeyOf[w] = KeyOf[g],
           ReadOne(g), version'[w] = version[w], Keepers(w) \subseteq Keepers(w)',
           Covered(g, w)
    PROVE  Covered(g, w)'
<1> DEFINE q == readIndex[g]
           rec == store[Candidates[q]][KeyOf[g]]
<1>1. /\ q \in 1 .. Len(Candidates) /\ q \in 1 .. N
      /\ readIndex'[g] = q + 1
      /\ successCount'[g] = successCount[g] + 1
      /\ newest'[g] = IF rec.version > newest[g].version THEN rec ELSE newest[g]
      /\ successCount[g] \in 0 .. N
  BY CandidateFacts, LeaderPosition DEF ReadOne, Reading, TypeInv, TypeOK
<1>2. rec \in Record /\ newest[g] \in Record /\ version[w] \in Nat
  BY <1>1, CandidateFacts, RequestAssumption, SMTT(30) DEF RequestAssumption, TypeInv, TypeOK
<1> HIDE DEF q, rec
<1>3. CASE newest[g].version >= version[w] \/ rec.version >= version[w]
  <2>1. newest'[g].version >= version[w]
    BY <1>1, <1>2, <1>3 DEF Record
  <2> QED BY <2>1 DEF Covered
<1>4. ASSUME NEW Q \in SUBSET Keepers(w), Cardinality(Q) + R > N,
             successCount[g] <= Cardinality(Outside(g, Q)), ~(rec.version >= version[w])
      PROVE  Covered(g, w)'
  <2>1. Q \in SUBSET (1 .. N)
    BY DEF Keepers
  <2>2. \A i \in Q : store[AllNodes[i]][KeyOf[w]].version >= version[w]
    BY DEF Keepers
  <2>3. R # 1
    <3>1. CASE R = 1
      <4>1. Cardinality(Q) = N
        BY <1>4, <2>1, <3>1, FinitePositions, LeaderPosition
      <4>2. LeaderIndex \in Q
        BY <2>1, <4>1, FinitePositions, LeaderPosition
      <4>3. q = 1 /\ Candidates[q] = Leader
        BY <1>1, <3>1 DEF Candidates
      <4> QED BY <1>4, <2>2, <4>2, <4>3, LeaderPosition DEF rec
    <3> QED BY <3>1
  <2>4. q \notin Q
    BY <1>4, <2>2, <2>3 DEF Candidates, rec
  <2>5. Outside(g, Q)' = Outside(g, Q) \cup {q} /\ q \notin Outside(g, Q)
    BY <1>1, <2>3, <2>4, LeaderPosition DEF Outside, q
  <2>6. Cardinality(Outside(g, Q)') = Cardinality(Outside(g, Q)) + 1
    BY <2>5, OutsideFacts, FS_AddElement
  <2>7. successCount'[g] <= Cardinality(Outside(g, Q)')
    BY <1>1, <1>4, <2>6, OutsideFacts
  <2>8. Q \in SUBSET Keepers(w)'
    OBVIOUS
  <2> QED BY <1>4, <2>7, <2>8 DEF Covered
<1> QED BY <1>3, <1>4 DEF Covered

LEMMA ReadStep ==
    TypeInv /\ VersionInv /\ AckInv /\ LeaderInv /\ ReadInv /\ [Next]_vars => ReadInv'
<1> SUFFICES ASSUME TypeInv, VersionInv, AckInv, LeaderInv, ReadInv, [Next]_vars
             PROVE  ReadInv'
  OBVIOUS
<1>1. TypeInv'
  BY TypeStep
<1>2. ASSUME NEW g \in Gets, g \notin begun' PROVE successCount'[g] = 0
  BY <1>2, GetSteps DEF ReadInv, ClientGet, ReadOne, ReadFails, Reading
<1>3. ASSUME NEW g \in Gets, g \in begun', NEW w \in after'[g]
      PROVE  (Acked(w) /\ KeyOf[w] = KeyOf[g] /\ (Overlap => Covered(g, w)))'
  <2>0. w \in Sets
    BY <1>1, <1>3 DEF TypeInv, TypeOK
  <2>1. CASE ClientGet(g)
    <3>1. /\ g \notin begun
          /\ w \in AckedSets(KeyOf[g])
          /\ successCount'[g] = 0
      BY <2>1, <1>3 DEF ClientGet, ReadInv, TypeInv, TypeOK
    <3>2. Acked(w) /\ Acked(w)' /\ KeyOf[w] = KeyOf[g]
      BY <2>0, <3>1, Settled DEF AckedSets
    <3>3. ASSUME Overlap PROVE Covered(g, w)'
      <4>1. PICK Q : Q = Keepers(w)
        OBVIOUS
      <4>2. Cardinality(Q) + R > N
        BY <2>0, <3>2, <3>3, <4>1, AckedQuorum
      <4>3. Q \in SUBSET Keepers(w)'
        BY <2>0, <3>2, <4>1, KeepersGrow DEF Acked
      <4>4. Cardinality(Outside(g, Q)') \in Nat
        BY <1>1, OutsideNextFacts
      <4> QED BY <3>1, <4>2, <4>3, <4>4 DEF Covered
    <3> QED BY <3>2, <3>3 DEF Overlap, FollowerQuorumsOverlap, SerialQuorumsOverlap
  <2>2. CASE g \in begun
    <3>1. after'[g] = after[g]
      BY <2>2, GetSteps DEF ClientGet, ReadOne, ReadFails
    <3>2. Acked(w) /\ Acked(w)' /\ KeyOf[w] = KeyOf[g] /\ version'[w] = version[w]
      BY <1>3, <2>0, <2>2, <3>1, Settled DEF ReadInv, Acked
    <3>3. Keepers(w) \subseteq Keepers(w)'
      BY <2>0, <3>2, KeepersGrow DEF Acked
    <3>4. ASSUME Overlap PROVE Covered(g, w)'
      <4>1. Covered(g, w)
        BY <1>3, <2>2, <3>1, <3>4 DEF ReadInv
      <4>2. CASE ReadOne(g)
        BY <1>1, <2>0, <3>2, <3>3, <4>1, <4>2, CoveredByReadOne
      <4>3. CASE /\ readIndex'[g] \in {readIndex[g], readIndex[g] + 1}
                 /\ successCount'[g] = successCount[g] /\ newest'[g] = newest[g]
        <5>1. ASSUME NEW Q \in SUBSET Keepers(w)
              PROVE  Cardinality(Outside(g, Q)) <= Cardinality(Outside(g, Q)')
          <6>1. Outside(g, Q) \in SUBSET Outside(g, Q)'
            BY <4>3 DEF Outside, TypeInv, TypeOK
          <6>2. IsFiniteSet(Outside(g, Q)')
            BY <1>1, OutsideNextFacts
          <6> QED BY <6>1, <6>2, FS_Subset
        <5>2. CASE newest[g].version >= version[w]
          BY <3>2, <4>3, <5>2 DEF Covered
        <5>3. ASSUME NEW Q \in SUBSET Keepers(w), Cardinality(Q) + R > N,
                     successCount[g] <= Cardinality(Outside(g, Q))
              PROVE  Covered(g, w)'
          <6>1. Cardinality(Outside(g, Q)) <= Cardinality(Outside(g, Q)')
            BY <5>1
          <6>2. /\ Cardinality(Outside(g, Q)) \in Nat /\ Cardinality(Outside(g, Q)') \in Nat
                /\ successCount[g] \in Nat
            <7>1. Cardinality(Outside(g, Q)) \in Nat
              BY OutsideFacts, LeaderPosition
            <7>2. Cardinality(Outside(g, Q)') \in Nat
              BY <1>1, OutsideNextFacts
            <7>3. successCount[g] \in Nat
              BY LeaderPosition DEF TypeInv, TypeOK
            <7> QED BY <7>1, <7>2, <7>3
          <6>3. successCount'[g] <= Cardinality(Outside(g, Q)')
            BY <4>3, <5>3, <6>1, <6>2
          <6>4. Q \in SUBSET Keepers(w)'
            BY <3>3
          <6> QED BY <5>3, <6>3, <6>4 DEF Covered
        <5> QED BY <4>1, <5>2, <5>3 DEF Covered
      <4>4. CASE ReadFails(g)
        BY <4>3, <4>4 DEF ReadFails, TypeInv, TypeOK
      <4>5. CASE ~ReadOne(g) /\ ~ReadFails(g)
        BY <2>2, <4>3, <4>5, GetSteps DEF ClientGet
      <4> QED BY <4>2, <4>4, <4>5
    <3> QED BY <3>2, <3>4 DEF Overlap, FollowerQuorumsOverlap, SerialQuorumsOverlap
  <2> QED BY <1>3, <2>1, <2>2, GetSteps DEF ReadOne, ReadFails, Reading
<1> QED BY <1>1, <1>2, <1>3 DEF ReadInv, TypeInv, TypeOK

Inv == /\ TypeInv /\ VersionInv /\ CallInv /\ StoreInv
       /\ AckInv /\ LeaderInv /\ ReadInv

LEMMA Invariance == Spec => []Inv
<1>1. Init => Inv
  BY TypeInit, VersionInit, AckInit, LeaderInit, ReadInit DEF Inv
<1>2. Inv /\ [Next]_vars => Inv'
  BY TypeStep, VersionStep, CallStep, StoreStep, AckStep, LeaderStep, ReadStep DEF Inv
<1> QED BY <1>1, <1>2, PTL DEF Spec

\* R answers cannot all come from outside the keepers of an acknowledged set.
LEMMA CoveredAnswer ==
    ASSUME TypeInv, NEW g \in Gets, NEW w \in Sets, Answered(g), Covered(g, w)
    PROVE  newest[g].version >= version[w]
<1>1. successCount[g] >= R /\ R > 0 /\ successCount[g] \in Nat /\ R \in Nat
  BY LeaderPosition, ParameterAssumption
     DEF Answered, SupportedConcerns, TypeInv, TypeOK, ParameterAssumption
<1>2. ASSUME NEW Q \in SUBSET Keepers(w), Cardinality(Q) + R > N,
             successCount[g] <= Cardinality(Outside(g, Q))
      PROVE  FALSE
  <2>1. Q \in SUBSET (1 .. N) /\ Outside(g, Q) \in SUBSET (1 .. N)
    BY OutsideFacts DEF Keepers
  <2>2. Q \cap Outside(g, Q) = {}
    BY DEF Outside
  <2>3. /\ IsFiniteSet(Q) /\ IsFiniteSet(Outside(g, Q))
        /\ Cardinality(Q) \in 0 .. N /\ Cardinality(Outside(g, Q)) \in 0 .. N
    BY <2>1, FinitePositions
  <2>4. Cardinality(Q \cup Outside(g, Q)) = Cardinality(Q) + Cardinality(Outside(g, Q))
    <3>1. Cardinality(Q \cap Outside(g, Q)) = 0
      BY <2>2, FS_EmptySet
    <3>2. Cardinality(Q \cup Outside(g, Q)) =
             Cardinality(Q) + Cardinality(Outside(g, Q)) - Cardinality(Q \cap Outside(g, Q))
      BY <2>3, FS_Union
    <3> QED BY <2>3, <3>1, <3>2
  <2>5. Cardinality(Q \cup Outside(g, Q)) <= N
    BY <2>1, FinitePositions
  <2> QED BY <1>1, <1>2, <2>3, <2>4, <2>5, LeaderPosition
<1> QED BY <1>2 DEF Covered

\* With overlapping quorums no read is stale, for every cluster size, order of
\* messages, lost or late answer and number of concurrent clients.
THEOREM ReadsAreFresh == Spec => []FreshReads
<1>1. Inv => FreshReads
  <2> SUFFICES ASSUME Inv, Overlap, NEW g \in Gets, Answered(g), NEW w \in after[g]
               PROVE  newest[g].version >= version[w]
    BY DEF FreshReads, ReadsSeeAckedWrites, Overlap
  <2>1. w \in Sets /\ Covered(g, w)
    BY DEF Inv, ReadInv, Answered, TypeInv, TypeOK
  <2> QED BY <2>1, CoveredAnswer DEF Inv
<1> QED BY <1>1, Invariance, PTL

-----------------------------------------------------------------------------
(* The register clients see.                                               *)

\* A replica's record for a key, and a read's newest, is of a set of that key
\* that the leader has stored.
Genuine(rec, k) == rec = Absent \/ \E w \in Sets : pc[w] = "stored" /\ KeyOf[w] = k /\ rec = RecordOf(w)

GenuineInv ==
    /\ \A n \in Nodes, k \in Keys : Genuine(store[n][k], k)
    /\ \A g \in Gets : Genuine(newest[g], KeyOf[g])

LEMMA GenuineInit == Init => GenuineInv
BY DEF Init, GenuineInv, Genuine

LEMMA GenuineStays ==
    ASSUME TypeInv, [Next]_vars, NEW rec, NEW k, Genuine(rec, k)
    PROVE  rec = Absent \/ \E w \in Sets : pc'[w] = "stored" /\ KeyOf[w] = k /\ rec = RecordOf(w)'
<1>1. \A w \in Sets : pc[w] = "stored" => pc'[w] = "stored" /\ RecordOf(w)' = RecordOf(w)
  BY Settled DEF RecordOf
<1> QED BY <1>1 DEF Genuine

LEMMA GenuineStep == TypeInv /\ CallInv /\ GenuineInv /\ [Next]_vars => GenuineInv'
<1> SUFFICES ASSUME TypeInv, CallInv, GenuineInv, [Next]_vars PROVE GenuineInv'
  OBVIOUS
<1> DEFINE Later(rec, k) ==
       rec = Absent \/ \E w \in Sets : pc'[w] = "stored" /\ KeyOf[w] = k /\ rec = RecordOf(w)'
<1>1. ASSUME NEW n \in Nodes, NEW k \in Keys PROVE Later(store'[n][k], k)
  <2>1. CASE store'[n][k] = store[n][k]
    BY <2>1, GenuineStays DEF GenuineInv
  <2>2. ASSUME NEW w \in Sets, Put(w), store'[n][k] # store[n][k] PROVE Later(store'[n][k], k)
    <3>1. k = KeyOf[w] /\ store'[n][k] = RecordOf(w)
      BY <2>2, RequestAssumption, ClusterAssumption
         DEF Put, TypeInv, TypeOK, RequestAssumption, ClusterAssumption
    <3>2. pc'[w] = "stored" /\ RecordOf(w)' = RecordOf(w)
      BY <2>2 DEF Put, RecordOf, TypeInv, TypeOK
    <3> QED BY <3>1, <3>2
  <2>3. ASSUME NEW w \in Sets, NEW i \in FollowerIndex, InternalReplicate(w, i),
               store'[n][k] # store[n][k]
        PROVE  Later(store'[n][k], k)
    <3>1. k = KeyOf[w] /\ store'[n][k] = RecordOf(w)
      BY <2>3, RequestAssumption, FollowerFacts
         DEF InternalReplicate, PutIfNewer, TypeInv, TypeOK, RequestAssumption
    <3>2. Genuine(store'[n][k], k)
      BY <2>3, <3>1 DEF InternalReplicate, CallInv, Genuine
    <3> QED BY <3>2, GenuineStays
  <2> QED BY <2>1, <2>2, <2>3, StoreSteps
<1>2. ASSUME NEW g \in Gets PROVE Later(newest'[g], KeyOf[g])
  <2>1. CASE newest'[g] = newest[g]
    BY <2>1, GenuineStays DEF GenuineInv
  <2>2. CASE ReadOne(g) /\ newest'[g] # newest[g]
    <3>1. /\ newest'[g] = store[Candidates[readIndex[g]]][KeyOf[g]]
          /\ Candidates[readIndex[g]] \in Nodes /\ KeyOf[g] \in Keys
      BY <2>2, CandidateFacts, RequestAssumption
         DEF ReadOne, Reading, TypeInv, TypeOK, RequestAssumption
    <3> QED BY <3>1, GenuineStays DEF GenuineInv
  <2> QED BY <2>1, <2>2, GetSteps DEF ClientGet, ReadFails
<1> HIDE DEF Later
<1>3. GenuineInv' <=> /\ \A n \in Nodes, k \in Keys : Later(store'[n][k], k)
                      /\ \A g \in Gets : Later(newest'[g], KeyOf[g])
  BY DEF GenuineInv, Genuine, Later, Absent
<1> QED BY <1>1, <1>2, <1>3

\* What the register consists of.
Issued == [k \in Keys |-> Versions({w \in Sets : KeyOf[w] = k /\ pc[w] # "idle"})]
Acknowledged == [k \in Keys |-> Versions(AckedSets(k))]
Progress == [g \in Gets |-> AbstractRead(g)]

\* It only changes when a set takes its version, ...
LEMMA IssuedKept ==
    ASSUME TypeInv, [Next]_vars, \A w \in Sets : pc'[w] = "idle" <=> pc[w] = "idle"
    PROVE  Issued' = Issued
<1>1. \A w \in Sets : pc[w] # "idle" => version'[w] = version[w]
  BY Settled
<1>2. ASSUME NEW k \in Keys
      PROVE  /\ {w \in Sets : KeyOf[w] = k /\ pc'[w] # "idle"}
                  = {w \in Sets : KeyOf[w] = k /\ pc[w] # "idle"}
             /\ \A w \in {v \in Sets : KeyOf[v] = k /\ pc[v] # "idle"} : version'[w] = version[w]
  BY <1>1
<1> QED BY <1>2 DEF Issued, Versions

\* ... when a set is acknowledged, ...
LEMMA AcknowledgedKept ==
    ASSUME TypeInv, [Next]_vars, \A w \in Sets : Acked(w)' => Acked(w)
    PROVE  Acknowledged' = Acknowledged
<1>1. \A w \in Sets : (Acked(w)' <=> Acked(w)) /\ (Acked(w) => version'[w] = version[w])
  BY Settled DEF Acked
<1>2. ASSUME NEW k \in Keys
      PROVE  /\ AckedSets(k)' = AckedSets(k)
             /\ \A w \in AckedSets(k) : version'[w] = version[w]
  BY <1>1 DEF AckedSets
<1> QED BY <1>2 DEF Acknowledged, Versions

\* ... and when a read begins or has its last answer.
LEMMA ProgressKept ==
    ASSUME TypeInv, ReadInv, [Next]_vars, NEW g \in Gets,
           g \in begun' <=> g \in begun, after'[g] = after[g],
           Answered(g)' <=> Answered(g), Answered(g) => newest'[g] = newest[g]
    PROVE  AbstractRead(g)' = AbstractRead(g)
<1>1. g \in begun => \A w \in after[g] : version'[w] = version[w]
  BY Settled DEF ReadInv, Acked, TypeInv, TypeOK
<1>2. g \in begun => Versions(after[g])' = Versions(after[g])
  BY <1>1 DEF Versions
<1> QED BY <1>2 DEF AbstractRead

LEMMA RegisterVars ==
    Register!vars = <<Issued, Acknowledged, Progress>>
BY DEF Register!vars, Issued, Acknowledged, Progress

LEMMA IssueStep ==
    ASSUME Inv, [Next]_vars, NEW w \in Sets, ClientSet(w)
    PROVE  \E k \in Keys : \E v \in Issued'[k] \ Issued[k] : Register!Issue(k, v)
<1> DEFINE k == KeyOf[w]
           v == nextVersion + 1
<1> USE DEF Inv, TypeInv, TypeOK, setVars, getVars
<1>1. k \in Keys
  BY RequestAssumption DEF RequestAssumption
<1>2. /\ pc[w] = "idle" /\ pc' = [pc EXCEPT ![w] = "versioned"]
      /\ version' = [version EXCEPT ![w] = v]
      /\ UNCHANGED <<ackCount, nextIndex, getVars>>
  BY DEF ClientSet
<1>3. \A u \in Sets : pc[u] # "idle" => version[u] < v
  BY DEF VersionInv
<1>4. \A j \in Keys : \A u \in Issued[j] : u < v
  BY <1>3 DEF Issued, Versions
<1>5. Issued' = [Issued EXCEPT ![k] = Issued[k] \cup {v}]
  <2>1. ASSUME NEW j \in Keys
        PROVE  {u \in Sets : KeyOf[u] = j /\ pc'[u] # "idle"}
                  = {u \in Sets : KeyOf[u] = j /\ pc[u] # "idle"} \cup (IF j = k THEN {w} ELSE {})
    BY <1>2
  <2>2. \A u \in Sets : pc[u] # "idle" => version'[u] = version[u]
    BY <1>2
  <2>3. version'[w] = v
    BY <1>2
  <2> HIDE DEF v, k
  <2>4. \A j \in Keys : Issued'[j] = Issued[j] \cup (IF j = k THEN {v} ELSE {})
    BY <2>1, <2>2, <2>3 DEF Issued, Versions
  <2> QED BY <1>1, <2>4 DEF Issued
<1>6. v \in Issued'[k] \ Issued[k]
  <2>1. v \in Nat /\ ~(v < v)
    OBVIOUS
  <2>2. v \in Issued'[k]
    BY <1>1, <1>5 DEF Issued
  <2> HIDE DEF v, k
  <2> QED BY <1>1, <1>4, <2>1, <2>2
<1>7. Acknowledged' = Acknowledged
  <2>1. \A u \in Sets : Acked(u)' => Acked(u)
    BY <1>2 DEF Acked
  <2> QED BY <2>1, AcknowledgedKept
<1>8. Progress' = Progress
  <2>1. ASSUME NEW g \in Gets PROVE AbstractRead(g)' = AbstractRead(g)
    <3>1. Answered(g)' <=> Answered(g)
      BY <1>2 DEF Answered
    <3> QED BY <1>2, <3>1, ProgressKept
  <2> QED BY <2>1 DEF Progress
<1> HIDE DEF k, v
<1>9. Register!Issue(k, v)
  BY <1>4, <1>5, <1>7, <1>8 DEF Register!Issue, Issued, Acknowledged, Progress
<1> QED BY <1>1, <1>6, <1>9

LEMMA AcknowledgeStep ==
    ASSUME Inv, [Next]_vars, NEW w \in Sets, Put(w) \/ ReplicaAnswers(w)
    PROVE  \/ \E k \in Keys : \E v \in Issued[k] : Register!Acknowledge(k, v)
           \/ UNCHANGED <<Issued, Acknowledged, Progress>>
<1> USE DEF Inv, TypeInv, TypeOK, setVars, getVars
<1>1. /\ pc[w] # "idle" /\ version' = version
      /\ \A u \in Sets : pc'[u] = "idle" <=> pc[u] = "idle"
      /\ \A u \in Sets : u # w /\ Acked(u)' => Acked(u)
      /\ UNCHANGED getVars
  <2>1. CASE Put(w)
    BY <2>1 DEF Put, Acked
  <2>2. CASE ReplicaAnswers(w)
    BY <2>2 DEF ReplicaAnswers, Acked, CallInv
  <2> QED BY <2>1, <2>2
<1>2. Issued' = Issued
  BY <1>1, IssuedKept
<1>3. Progress' = Progress
  <2>1. ASSUME NEW g \in Gets PROVE AbstractRead(g)' = AbstractRead(g)
    <3>1. Answered(g)' <=> Answered(g)
      BY <1>1 DEF Answered
    <3> QED BY <1>1, <3>1, ProgressKept
  <2> QED BY <2>1 DEF Progress
<1>4. CASE Acked(w)' => Acked(w)
  BY <1>1, <1>2, <1>3, <1>4, AcknowledgedKept
<1>5. CASE Acked(w)'
  <2>1. KeyOf[w] \in Keys
    BY RequestAssumption DEF RequestAssumption
  <2>2. version[w] \in Issued[KeyOf[w]]
    BY <1>1, <2>1 DEF Issued, Versions
  <2>3. \A u \in Sets : Acked(u)' <=> Acked(u) \/ u = w
    BY <1>1, <1>5, Settled
  <2>4. ASSUME NEW k \in Keys
        PROVE  AckedSets(k)' = AckedSets(k) \cup (IF k = KeyOf[w] THEN {w} ELSE {})
    BY <2>3 DEF AckedSets
  <2>5. Acknowledged' = [Acknowledged EXCEPT ![KeyOf[w]] = Acknowledged[KeyOf[w]] \cup {version[w]}]
    <3>1. \A k \in Keys :
             Acknowledged'[k] = IF k = KeyOf[w] THEN Acknowledged[k] \cup {version[w]}
                                                ELSE Acknowledged[k]
      BY <1>1, <2>4 DEF Acknowledged, Versions
    <3>2. Acknowledged' = [k \in Keys |-> IF k = KeyOf[w] THEN Acknowledged[k] \cup {version[w]}
                                                          ELSE Acknowledged[k]]
      BY <3>1 DEF Acknowledged
    <3>3. Acknowledged = [k \in Keys |-> Acknowledged[k]]
      BY DEF Acknowledged
    <3> QED BY <3>2, <3>3, Zenon
  <2>6. Register!Acknowledge(KeyOf[w], version[w])
    BY <1>2, <1>3, <2>2, <2>5 DEF Register!Acknowledge, Issued, Acknowledged, Progress
  <2> QED BY <2>1, <2>2, <2>6
<1> QED BY <1>4, <1>5

LEMMA BeginStep ==
    ASSUME Inv, [Next]_vars, NEW g \in Gets, ClientGet(g)
    PROVE  Register!Begin(g, KeyOf[g])
<1> USE DEF Inv, TypeInv, TypeOK, setVars, getVars
<1>1. /\ g \notin begun /\ begun' = begun \cup {g}
      /\ after' = [after EXCEPT ![g] = AckedSets(KeyOf[g])]
      /\ UNCHANGED <<store, nextVersion, setVars, readIndex, successCount, newest, faults>>
  BY DEF ClientGet
<1>2. Issued' = Issued
  BY <1>1, IssuedKept
<1>3. Acknowledged' = Acknowledged
  <2>1. \A u \in Sets : Acked(u)' => Acked(u)
    BY <1>1 DEF Acked
  <2> QED BY <2>1, AcknowledgedKept
<1>4. ASSUME NEW h \in Gets, h # g PROVE AbstractRead(h)' = AbstractRead(h)
  <2>1. (h \in begun' <=> h \in begun) /\ after'[h] = after[h] /\ (Answered(h)' <=> Answered(h))
    BY <1>1, <1>4 DEF Answered
  <2> QED BY <1>1, <2>1, ProgressKept
<1>5. AbstractRead(g) = [status |-> "idle"]
  BY <1>1 DEF AbstractRead
<1>6. AbstractRead(g)' = [status |-> "reading", key |-> KeyOf[g], floor |-> Acknowledged[KeyOf[g]]]
  <2>1. ~Answered(g)'
    BY <1>1, ParameterAssumption
       DEF Answered, ReadInv, SupportedConcerns, ParameterAssumption
  <2>2. Versions(after[g])' = Versions(AckedSets(KeyOf[g]))
    BY <1>1 DEF Versions
  <2>3. KeyOf[g] \in Keys
    BY RequestAssumption DEF RequestAssumption
  <2> QED BY <1>1, <2>1, <2>2, <2>3 DEF AbstractRead, Acknowledged
<1>7. Progress' = [Progress EXCEPT ![g] =
                      [status |-> "reading", key |-> KeyOf[g], floor |-> Acknowledged[KeyOf[g]]]]
  BY <1>4, <1>6 DEF Progress
<1> QED
  BY <1>2, <1>3, <1>5, <1>7
     DEF Register!Begin, Register!Idle, Issued, Acknowledged, Progress

\* The last answer of a read is a return of the register: what it has is
\* genuine, and with overlapping quorums not older than its floor.
LEMMA ReturnStep ==
    ASSUME Inv, Inv', GenuineInv', FreshReads', Overlap, [Next]_vars,
           NEW g \in Gets, ReadOne(g)
    PROVE  \/ \E v \in Issued[KeyOf[g]] \cup {0} : Register!Return(g, v)
           \/ UNCHANGED <<Issued, Acknowledged, Progress>>
<1> USE DEF setVars, getVars
<1>0. TypeInv /\ TypeOK /\ TypeInv' /\ ReadInv
  BY DEF Inv, TypeInv
<1>1. /\ g \in begun /\ ~Answered(g)
      /\ \A h \in Gets : h # g => newest'[h] = newest[h] /\ successCount'[h] = successCount[h]
      /\ UNCHANGED <<store, nextVersion, setVars, begun, after, faults>>
  BY <1>0, LeaderPosition, ParameterAssumption
     DEF ReadOne, Reading, Answered, TypeOK, ParameterAssumption
<1>2. Issued' = Issued
  BY <1>0, <1>1, IssuedKept
<1>3. Acknowledged' = Acknowledged
  <2>1. \A u \in Sets : Acked(u)' => Acked(u)
    BY <1>1 DEF Acked
  <2> QED BY <1>0, <2>1, AcknowledgedKept
<1>4. ASSUME NEW h \in Gets, h # g PROVE AbstractRead(h)' = AbstractRead(h)
  <2>1. (h \in begun' <=> h \in begun) /\ after'[h] = after[h] /\ (Answered(h)' <=> Answered(h))
    BY <1>1, <1>4 DEF Answered
  <2> QED BY <1>0, <1>1, <1>4, <2>1, ProgressKept
<1>5. CASE ~Answered(g)'
  <2>1. AbstractRead(g)' = AbstractRead(g)
    BY <1>0, <1>1, <1>5, ProgressKept
  <2> QED BY <1>2, <1>3, <1>4, <2>1 DEF Progress
<1>6. CASE Answered(g)'
  <2> DEFINE v == newest'[g].version
  <2>1. KeyOf[g] \in Keys
    BY RequestAssumption DEF RequestAssumption
  <2>2. v \in Issued[KeyOf[g]] \cup {0}
    <3>1. \A w \in Sets : pc'[w] = "stored" => RecordOf(w)'.version = version'[w]
      BY DEF RecordOf
    <3>2. \/ newest'[g].version = 0
          \/ \E w \in Sets : pc'[w] = "stored" /\ KeyOf[w] = KeyOf[g] /\ newest'[g].version = version'[w]
      BY <3>1 DEF GenuineInv, Genuine, Absent
    <3>3. v \in Issued'[KeyOf[g]] \cup {0}
      BY <2>1, <3>2 DEF Issued, Versions
    <3> QED BY <1>2, <3>3
  <2>3. \A w \in after[g] : version[w] <= v
    <3> SUFFICES ASSUME NEW w \in after[g] PROVE version[w] <= v
      OBVIOUS
    <3>1. w \in Sets /\ version'[w] = version[w] /\ w \in after'[g]
      BY <1>0, <1>1 DEF TypeOK
    <3>2. ReadsSeeAckedWrites'
      BY DEF FreshReads, Overlap, FollowerQuorumsOverlap, SerialQuorumsOverlap
    <3>4. newest'[g].version >= version'[w]
      BY <1>6, <3>1, <3>2 DEF ReadsSeeAckedWrites
    <3>5. newest'[g] \in Record /\ version[w] \in Nat
      BY <1>0, <3>1 DEF TypeInv, TypeOK
    <3> QED BY <3>1, <3>4, <3>5 DEF Record
  <2>4. AbstractRead(g) = [status |-> "reading", key |-> KeyOf[g], floor |-> Versions(after[g])]
    BY <1>1 DEF AbstractRead
  <2>5. AbstractRead(g)' = [status |-> "done", key |-> KeyOf[g], version |-> v]
    BY <1>1, <1>6 DEF AbstractRead
  <2> HIDE DEF v
  <2>6. Progress' = [Progress EXCEPT ![g] = [status |-> "done", key |-> KeyOf[g], version |-> v]]
    BY <1>4, <2>5 DEF Progress
  <2>7. \A u \in Versions(after[g]) : u <= v
    BY <2>3 DEF Versions
  <2>8. /\ Progress[g].status = "reading" /\ Progress[g].key = KeyOf[g]
        /\ Progress[g].floor = Versions(after[g])
    BY <2>4 DEF Progress
  <2>9. Register!Return(g, v)
    BY <1>2, <1>3, <2>2, <2>6, <2>7, <2>8
       DEF Register!Return, Issued, Acknowledged, Progress
  <2> QED BY <2>2, <2>9
<1> QED BY <1>5, <1>6

LEMMA RegisterStep ==
    ASSUME Inv, Inv', GenuineInv', FreshReads', Overlap, [Next]_vars
    PROVE  [Register!Next]_(Register!vars)
<1>1. ASSUME NEW w \in Sets, ClientSet(w) PROVE Register!Next
  BY <1>1, IssueStep DEF Register!Next, Issued
<1>2. ASSUME NEW w \in Sets, Put(w) \/ ReplicaAnswers(w) PROVE [Register!Next]_(Register!vars)
  BY <1>2, AcknowledgeStep, RegisterVars DEF Register!Next, Register!vars, Issued, Acknowledged, Progress
<1>3. ASSUME NEW g \in Gets, ClientGet(g) PROVE Register!Next
  BY <1>3, BeginStep, RequestAssumption DEF Register!Next, RequestAssumption
<1>4. ASSUME NEW g \in Gets, ReadOne(g) PROVE [Register!Next]_(Register!vars)
  BY <1>4, ReturnStep, RequestAssumption
     DEF Register!Next, Register!vars, RequestAssumption, Issued, Acknowledged, Progress
<1>5. CASE UNCHANGED <<pc, version, ackCount, begun, successCount, newest, after>>
  <2>1. Issued' = Issued
    BY <1>5, IssuedKept DEF Inv
  <2>2. Acknowledged' = Acknowledged
    BY <1>5, AcknowledgedKept DEF Inv, Acked
  <2>3. ASSUME NEW g \in Gets PROVE AbstractRead(g)' = AbstractRead(g)
    BY <1>5, ProgressKept DEF Inv, Answered
  <2> QED BY <2>1, <2>2, <2>3 DEF Register!vars, Issued, Acknowledged, Progress
<1> QED
  BY <1>1, <1>2, <1>3, <1>4, <1>5 DEF Next, vars, setVars, getVars, SendReplica,
     InternalReplicate, ReplicaFails, ReadFails

\* With overlapping quorums the whole cluster is a regular register per key:
\* every answer is one the register could give, for every cluster size,
\* interleaving, lost or late call.
THEOREM RegisterImplemented ==
    ASSUME Overlap
    PROVE  Spec => ImplementsRegister
<1>1. Init => Register!Init /\ GenuineInv
  BY GenuineInit
     DEF Init, Register!Init, Register!Idle, Versions, AckedSets, Acked, AbstractRead
<1>2. Inv /\ GenuineInv /\ [Next]_vars => GenuineInv'
  BY GenuineStep DEF Inv
<1>3. Inv /\ Inv' /\ GenuineInv' /\ FreshReads' /\ [Next]_vars => [Register!Next]_(Register!vars)
  BY RegisterStep
<1> QED
  BY <1>1, <1>2, <1>3, Invariance, ReadsAreFresh, PTL DEF Spec, ImplementsRegister, Register!Spec

-----------------------------------------------------------------------------
(* Convergence.                                                            *)

\* While no call has failed, the followers a set has been to have its record,
\* or a newer one.
NoneLeftOut ==
    faults = 0 => \A w \in Sets, i \in FollowerIndex : i < nextIndex[w] => call[w][i] = "answered"

LEMMA LeftOutStep == TypeInv /\ NoneLeftOut /\ [Next]_vars => NoneLeftOut'
<1> SUFFICES ASSUME TypeInv, NoneLeftOut, [Next]_vars PROVE NoneLeftOut'
  OBVIOUS
<1> USE DEF TypeInv, TypeOK, NoneLeftOut, setVars, getVars
<1>1. ASSUME NEW w \in Sets, SendReplica(w) PROVE NoneLeftOut'
  BY <1>1 DEF SendReplica
<1>2. ASSUME NEW w \in Sets, NEW i \in FollowerIndex, InternalReplicate(w, i) PROVE NoneLeftOut'
  BY <1>2 DEF InternalReplicate
<1>3. ASSUME NEW w \in Sets, ReplicaAnswers(w) PROVE NoneLeftOut'
  BY <1>3, LeaderPosition DEF ReplicaAnswers
<1>4. CASE faults' = faults + 1
  BY <1>4, ParameterAssumption DEF ParameterAssumption
<1>5. CASE UNCHANGED <<nextIndex, call, faults>>
  BY <1>5
<1> QED
  BY <1>1, <1>2, <1>3, <1>4, <1>5 DEF Next, vars, ClientSet, Put, ReplicaFails, ClientGet,
     ReadOne, ReadFails

\* Two records that are both genuine and each at least as new as every stored
\* set of the key are the same.
LEMMA NewestIsOne ==
    ASSUME TypeInv, VersionInv, NEW k \in Keys, NEW r1, NEW r2,
           Genuine(r1, k), Genuine(r2, k),
           \A w \in Sets : pc[w] = "stored" /\ KeyOf[w] = k =>
               r1.version >= version[w] /\ r2.version >= version[w]
    PROVE  r1 = r2
<1>1. \A w \in Sets : RecordOf(w).version = version[w] /\ version[w] \in Nat
  BY DEF RecordOf, TypeInv, TypeOK
<1>2. ASSUME NEW w \in Sets, pc[w] = "stored" PROVE version[w] > 0
  <2>1. version[w] \in 1 .. nextVersion /\ nextVersion \in Nat
    BY <1>2 DEF VersionInv, TypeInv, TypeOK
  <2> QED BY <2>1
<1>3. \A v, w \in Sets : pc[v] = "stored" /\ version[v] = version[w] => v = w
  BY DEF VersionInv
<1> QED BY <1>1, <1>2, <1>3 DEF Genuine, Absent

\* Without failed calls all followers end up with the same records, and the
\* leader too if clients write one after the other, in whatever order the
\* updates of concurrent sets arrive.
THEOREM ReplicasConverge == Spec => []AllReplicasAgree
<1>1. Init => NoneLeftOut /\ GenuineInv
  BY GenuineInit DEF Init, NoneLeftOut
<1>2. Inv /\ NoneLeftOut /\ GenuineInv /\ [Next]_vars => NoneLeftOut' /\ GenuineInv'
  BY LeftOutStep, GenuineStep DEF Inv
<1>3. Inv /\ NoneLeftOut /\ GenuineInv => AllReplicasAgree
  <2> SUFFICES ASSUME Inv, NoneLeftOut, GenuineInv, Quiescent, faults = 0,
                      NEW k \in Keys, NEW i \in FollowerIndex, NEW j \in FollowerIndex
               PROVE  /\ store[Followers[i]][k] = store[Followers[j]][k]
                      /\ MaxConcurrentSets <= 1 => store[Followers[i]][k] = store[Leader][k]
    BY DEF AllReplicasAgree
  <2>1. ASSUME NEW h \in FollowerIndex, NEW w \in Sets, pc[w] = "stored", KeyOf[w] = k
        PROVE  store[Followers[h]][k].version >= version[w]
    <3>1. nextIndex[w] = N
      BY <2>1 DEF Quiescent
    <3>2. call[w][h] = "answered"
      BY <3>1, LeaderPosition DEF NoneLeftOut
    <3> QED BY <2>1, <3>2 DEF Inv, AckInv, Holders
  <2>2. \A h \in FollowerIndex : Genuine(store[Followers[h]][k], k)
    BY FollowerFacts DEF GenuineInv
  <2>3. store[Followers[i]][k] = store[Followers[j]][k]
    BY <2>1, <2>2, NewestIsOne DEF Inv
  <2>4. ASSUME MaxConcurrentSets <= 1 PROVE store[Followers[i]][k] = store[Leader][k]
    <3>1. \A w \in Sets : pc[w] = "stored" /\ KeyOf[w] = k => store[Leader][k].version >= version[w]
      BY <2>4 DEF Inv, LeaderInv, Serial
    <3>2. Genuine(store[Leader][k], k)
      BY ClusterAssumption DEF GenuineInv, ClusterAssumption
    <3> QED BY <2>1, <2>2, <3>1, <3>2, NewestIsOne DEF Inv
  <2> QED BY <2>3, <2>4
<1> QED BY <1>1, <1>2, <1>3, Invariance, PTL DEF Spec

-----------------------------------------------------------------------------
(* The load test.                                                          *)

\* The nodes do under the load test what they may do anyway.
LEMMA LoadStepIsStep == [LoadNext]_<<vars, loadVars>> => [Next]_vars
BY DEF LoadNext, Serve, do_write, do_read, do_read_Checks

LEMMA LoadInitIsInit == LoadInit => Init
BY DEF LoadInit

LEMMA LoadIsStore == LoadSpec => Spec
BY LoadStepIsStep, LoadInitIsInit, PTL DEF LoadSpec, Spec

AckedNow == {w \in Sets : Acked(w)}

\* v is the version of the last acknowledged PUT of k among the first n answers
\* looked at, 0 if there is none.
LastIn(ans, acks, ver, k, n, v) ==
    \/ v = 0 /\ \A i \in 1 .. n : ans[i] \in acks => KeyOf[ans[i]] # k
    \/ \E j \in 1 .. n :
          /\ ans[j] \in acks /\ KeyOf[ans[j]] = k /\ v = ver[ans[j]]
          /\ \A i \in j + 1 .. n : ans[i] \in acks => KeyOf[ans[i]] # k

LoadTypes ==
    /\ answers \in Seq(Sets)
    /\ expected \in [Keys -> Nat] /\ seen \in [Gets -> Nat] /\ known \in [Gets -> Nat]
    /\ begun \subseteq asked /\ asked \subseteq Gets
    /\ finished \subseteq begun /\ IsFiniteSet(finished)
    /\ staleLog \subseteq finished

\* What the test expects of a key, now and when it asked, is what it looked at
\* last; the PUTs it had looked at were acknowledged before the node got the
\* read; and it judged the final answer.
LoadInv ==
    /\ LoadTypes
    /\ \A i \in 1 .. Len(answers) : Acked(answers[i]) \/ Failed(answers[i])
    /\ \A k \in Keys : LastIn(answers, AckedNow, version, k, Len(answers), expected[k])
    /\ \A g \in asked :
        /\ known[g] <= Len(answers)
        /\ LastIn(answers, AckedNow, version, KeyOf[g], known[g], seen[g])
        /\ g \in begun =>
              \A i \in 1 .. known[g] :
                  answers[i] \in AckedNow /\ KeyOf[answers[i]] = KeyOf[g] => answers[i] \in after[g]
    /\ \A g \in finished : ~Reading(g)
    /\ \A g \in staleLog : newest[g].version < seen[g]
    /\ \A g \in finished \ staleLog : Answered(g) => newest[g].version >= seen[g]

\* A prefix that stays as it is has the same last version.
LEMMA LastStays ==
    ASSUME NEW a1, NEW a2, NEW A1, NEW A2, NEW v1, NEW v2, NEW k, NEW n \in Nat, NEW v,
           \A i \in 1 .. n : /\ a2[i] = a1[i] /\ (a1[i] \in A2 <=> a1[i] \in A1)
                             /\ a1[i] \in A1 => v2[a1[i]] = v1[a1[i]],
           LastIn(a1, A1, v1, k, n, v)
    PROVE  LastIn(a2, A2, v2, k, n, v)
<1>1. CASE v = 0 /\ \A i \in 1 .. n : a1[i] \in A1 => KeyOf[a1[i]] # k
  BY <1>1 DEF LastIn
<1>2. ASSUME NEW j \in 1 .. n, a1[j] \in A1, KeyOf[a1[j]] = k, v = v1[a1[j]],
             \A i \in j + 1 .. n : a1[i] \in A1 => KeyOf[a1[i]] # k
      PROVE  LastIn(a2, A2, v2, k, n, v)
  <2>1. \A i \in j + 1 .. n : i \in 1 .. n
    OBVIOUS
  <2> QED BY <1>2, <2>1 DEF LastIn
<1> QED BY <1>1, <1>2 DEF LastIn

\* A PUT of another key, or a failed one, does not change it; a PUT of the key
\* does.
LEMMA LastAppend ==
    ASSUME NEW a1 \in Seq(Sets), NEW w \in Sets, NEW A, NEW ver, NEW k, NEW v,
           LastIn(a1, A, ver, k, Len(a1), v)
    PROVE  LET a2 == Append(a1, w)
           IN  IF w \in A /\ KeyOf[w] = k
               THEN LastIn(a2, A, ver, k, Len(a2), ver[w])
               ELSE LastIn(a2, A, ver, k, Len(a2), v)
<1> DEFINE a2 == Append(a1, w)
<1>1. /\ Len(a1) \in Nat /\ Len(a2) = Len(a1) + 1 /\ a2[Len(a2)] = w
      /\ \A i \in 1 .. Len(a1) : a2[i] = a1[i]
  OBVIOUS
<1> HIDE DEF a2
<1>2. CASE w \in A /\ KeyOf[w] = k
  <2>1. Len(a2) \in 1 .. Len(a2) /\ Len(a2) + 1 .. Len(a2) = {}
    BY <1>1
  <2> QED BY <1>1, <1>2, <2>1 DEF LastIn, a2
<1>3. CASE ~(w \in A /\ KeyOf[w] = k)
  <2>1. CASE v = 0 /\ \A i \in 1 .. Len(a1) : a1[i] \in A => KeyOf[a1[i]] # k
    <3>1. \A i \in 1 .. Len(a2) : a2[i] \in A => KeyOf[a2[i]] # k
      BY <1>1, <1>3, <2>1
    <3> QED BY <1>3, <2>1, <3>1 DEF LastIn, a2
  <2>2. ASSUME NEW j \in 1 .. Len(a1), a1[j] \in A, KeyOf[a1[j]] = k, v = ver[a1[j]],
               \A i \in j + 1 .. Len(a1) : a1[i] \in A => KeyOf[a1[i]] # k
        PROVE  LastIn(a2, A, ver, k, Len(a2), v)
    <3>1. j \in 1 .. Len(a2) /\ a2[j] = a1[j]
      BY <1>1
    <3>2. \A i \in j + 1 .. Len(a2) : a2[i] \in A => KeyOf[a2[i]] # k
      BY <1>1, <1>3, <2>2
    <3> QED BY <2>2, <3>1, <3>2 DEF LastIn
  <2> QED BY <1>3, <2>1, <2>2 DEF LastIn, a2
<1> QED BY <1>2, <1>3

LEMMA LoadInvInit == LoadInit => LoadInv
<1> SUFFICES ASSUME LoadInit PROVE LoadInv
  OBVIOUS
<1>1. IsFiniteSet({})
  BY FS_EmptySet
<1>2. Len(answers) = 0 /\ answers \in Seq(Sets)
  BY DEF LoadInit
<1> QED BY <1>1, <1>2 DEF LoadInit, Init, LoadInv, LoadTypes, LastIn

\* The answer to a PUT stays what it was.
LEMMA JudgedStays ==
    ASSUME TypeInv, [Next]_vars, NEW w \in Sets, Acked(w) \/ Failed(w)
    PROVE  /\ Acked(w)' \/ Failed(w)'
           /\ w \in AckedNow' <=> w \in AckedNow
           /\ version'[w] = version[w]
<1>1. \A v \in Sets : Failed(v) => ~Acked(v)
  BY LeaderPosition, ParameterAssumption DEF Failed, Acked, TypeInv, TypeOK, ParameterAssumption
<1>2. Failed(w)' => ~Acked(w)'
  BY TypeStep, LeaderPosition, ParameterAssumption, SMTT(30)
     DEF Failed, Acked, TypeInv, TypeOK, ParameterAssumption
<1>3. version'[w] = version[w]
  BY Settled DEF Acked, Failed
<1> QED BY <1>1, <1>2, <1>3, Settled DEF AckedNow

\* A read that has begun keeps its floor, and its answer once it has it.
LEMMA ReadStays ==
    ASSUME TypeInv, [Next]_vars, NEW g \in begun, g \in Gets
    PROVE  /\ g \in begun' /\ after'[g] = after[g]
           /\ ~Reading(g) => /\ ~Reading(g)' /\ newest'[g] = newest[g]
                             /\ Answered(g)' <=> Answered(g)
<1>1. g \in begun' /\ after'[g] = after[g]
  BY GetSteps DEF ClientGet, ReadOne, ReadFails
<1>2. ASSUME ~Reading(g)
      PROVE  readIndex'[g] = readIndex[g] /\ successCount'[g] = successCount[g] /\ newest'[g] = newest[g]
  BY <1>2, GetSteps DEF ClientGet, ReadOne, ReadFails
<1> QED BY <1>1, <1>2 DEF Reading, Answered

LEMMA ServeStep == Inv /\ LoadInv /\ Serve => LoadInv'
<1> SUFFICES ASSUME Inv, LoadInv, Serve PROVE LoadInv'
  OBVIOUS
<1> USE DEF loadVars
<1>0. TypeInv /\ TypeInv' /\ [Next]_vars /\ begun' \subseteq asked /\ UNCHANGED loadVars
  BY TypeStep DEF Inv, Serve
<1>1. LoadTypes'
  BY <1>0, ReadStays DEF LoadInv, LoadTypes
<1>2. \A i \in 1 .. Len(answers) : answers[i] \in Sets /\ (Acked(answers[i]) \/ Failed(answers[i]))
  BY DEF LoadInv, LoadTypes
<1>3. \A i \in 1 .. Len(answers) :
         /\ Acked(answers[i])' \/ Failed(answers[i])'
         /\ answers[i] \in AckedNow' <=> answers[i] \in AckedNow
         /\ version'[answers[i]] = version[answers[i]]
  BY <1>0, <1>2, JudgedStays
<1>4. ASSUME NEW k \in Keys
      PROVE  LastIn(answers, AckedNow', version', k, Len(answers), expected[k])
  <2>1. LastIn(answers, AckedNow, version, k, Len(answers), expected[k]) /\ Len(answers) \in Nat
    BY DEF LoadInv, LoadTypes
  <2> QED BY <1>3, <2>1, LastStays
<1>5. ASSUME NEW g \in asked
      PROVE  LastIn(answers, AckedNow', version', KeyOf[g], known[g], seen[g])
  <2>1. /\ LastIn(answers, AckedNow, version, KeyOf[g], known[g], seen[g])
        /\ known[g] \in Nat /\ known[g] <= Len(answers)
    BY DEF LoadInv, LoadTypes
  <2> QED BY <1>3, <2>1, LastStays
<1>6. ASSUME NEW g \in asked, g \in begun', NEW i \in 1 .. known[g],
             answers[i] \in AckedNow', KeyOf[answers[i]] = KeyOf[g]
      PROVE  answers[i] \in after'[g]
  <2>1. g \in Gets /\ i \in 1 .. Len(answers) /\ answers[i] \in AckedNow
    BY <1>3, <1>6 DEF LoadInv, LoadTypes
  <2>2. CASE g \in begun
    BY <1>0, <1>6, <2>1, <2>2, ReadStays DEF LoadInv
  <2>3. CASE g \notin begun
    <3>1. after'[g] = AckedSets(KeyOf[g])
      BY <1>0, <1>6, <2>1, <2>3, GetSteps DEF ClientGet, ReadOne, ReadFails, Reading, TypeInv, TypeOK
    <3> QED BY <1>6, <2>1, <3>1 DEF AckedSets, AckedNow
  <2> QED BY <2>2, <2>3
<1>7. ASSUME NEW g \in finished
      PROVE  ~Reading(g)' /\ newest'[g] = newest[g] /\ (Answered(g)' <=> Answered(g))
  BY <1>0, ReadStays DEF LoadInv, LoadTypes
<1>8. finished' = finished /\ staleLog' = staleLog /\ staleLog \subseteq finished
  BY <1>0 DEF LoadInv, LoadTypes
<1>9. \A g \in staleLog : newest'[g].version < seen[g]
  BY <1>7, <1>8 DEF LoadInv
<1>10. \A g \in finished \ staleLog : Answered(g)' => newest'[g].version >= seen[g]
  BY <1>7 DEF LoadInv
<1> QED BY <1>0, <1>1, <1>3, <1>4, <1>5, <1>6, <1>7, <1>9, <1>10 DEF LoadInv

LEMMA LookAtPutStep ==
    ASSUME Inv, LoadInv, NEW w \in Sets, do_write(w)
    PROVE  LoadInv'
<1> USE DEF loadVars, vars, setVars, getVars
<1>1. /\ UNCHANGED <<vars, asked, seen, known, finished, staleLog>>
      /\ answers' = Append(answers, w) /\ (Acked(w) \/ Failed(w))
      /\ expected' = IF Acked(w) THEN [expected EXCEPT ![KeyOf[w]] = version[w]] ELSE expected
  <2>1. Failed(w) => ~Acked(w)
    BY LeaderPosition, ParameterAssumption
       DEF Failed, Acked, Inv, TypeInv, TypeOK, ParameterAssumption
  <2> QED BY <2>1 DEF do_write, update_expected_version
<1>2. /\ answers \in Seq(Sets) /\ Len(answers) \in Nat /\ answers' \in Seq(Sets)
      /\ Len(answers') = Len(answers) + 1 /\ answers'[Len(answers) + 1] = w
      /\ \A i \in 1 .. Len(answers) : answers'[i] = answers[i]
  BY <1>1 DEF LoadInv, LoadTypes
<1>3. AckedNow' = AckedNow /\ version' = version
      /\ (\A u \in Sets : (Acked(u)' <=> Acked(u)) /\ (Failed(u)' <=> Failed(u)))
      /\ (\A g \in Gets : (Reading(g)' <=> Reading(g)) /\ (Answered(g)' <=> Answered(g)))
  BY <1>1 DEF AckedNow, Acked, Failed, Reading, Answered
<1>4. LoadTypes'
  BY <1>1, <1>2 DEF LoadInv, LoadTypes, Inv, TypeInv, TypeOK
<1>5. \A i \in 1 .. Len(answers') : (Acked(answers'[i]) \/ Failed(answers'[i])) /\ answers'[i] \in Sets
  BY <1>1, <1>2 DEF LoadInv
<1>6. ASSUME NEW k \in Keys
      PROVE  LastIn(answers', AckedNow, version, k, Len(answers'), expected'[k])
  <2>1. LastIn(answers, AckedNow, version, k, Len(answers), expected[k])
    BY DEF LoadInv
  <2>2. expected'[k] = IF w \in AckedNow /\ KeyOf[w] = k THEN version[w] ELSE expected[k]
    BY <1>1 DEF AckedNow, LoadInv, LoadTypes
  <2> QED BY <1>1, <1>2, <2>1, <2>2, LastAppend
<1>7. ASSUME NEW g \in asked
      PROVE  /\ known[g] <= Len(answers')
             /\ LastIn(answers', AckedNow, version, KeyOf[g], known[g], seen[g])
             /\ \A i \in 1 .. known[g] : answers'[i] = answers[i]
  <2>1. /\ LastIn(answers, AckedNow, version, KeyOf[g], known[g], seen[g])
        /\ known[g] \in Nat /\ known[g] <= Len(answers)
    BY DEF LoadInv, LoadTypes
  <2>2. \A i \in 1 .. known[g] : answers'[i] = answers[i]
    BY <1>2, <2>1
  <2> QED BY <1>2, <2>1, <2>2, LastStays
<1>8. UNCHANGED <<asked, seen, known, finished, staleLog, newest, begun, after>> /\ finished \subseteq Gets
  BY <1>1 DEF LoadInv, LoadTypes
<1>9. \A g \in finished : ~Reading(g)'
  BY <1>3, <1>8 DEF LoadInv
<1>10. /\ \A g \in staleLog : newest[g].version < seen[g]
       /\ \A g \in finished \ staleLog : Answered(g)' => newest[g].version >= seen[g]
  BY <1>3, <1>8 DEF LoadInv
<1>11. \A g \in asked : g \in begun =>
          \A i \in 1 .. known[g] :
              answers'[i] \in AckedNow /\ KeyOf[answers'[i]] = KeyOf[g] => answers'[i] \in after[g]
  BY <1>7 DEF LoadInv
<1>12. (\A i \in 1 .. Len(answers) : Acked(answers[i]) \/ Failed(answers[i]))'
  BY <1>1, <1>5 DEF Acked, Failed
<1> QED BY <1>3, <1>4, <1>6, <1>7, <1>8, <1>9, <1>10, <1>11, <1>12 DEF LoadInv

LEMMA AskStep ==
    ASSUME Inv, LoadInv, NEW g \in Gets, do_read(g)
    PROVE  LoadInv'
<1> USE RequestAssumption DEF RequestAssumption, loadVars, vars, setVars, getVars
<1>1. /\ g \notin asked /\ asked' = asked \cup {g}
      /\ seen' = [seen EXCEPT ![g] = expected[KeyOf[g]]]
      /\ known' = [known EXCEPT ![g] = Len(answers)]
      /\ UNCHANGED <<vars, expected, answers, finished, staleLog>>
  BY DEF do_read
<1>2. /\ answers \in Seq(Sets) /\ Len(answers) \in Nat /\ KeyOf[g] \in Keys
      /\ g \notin begun /\ g \notin finished /\ g \notin staleLog
      /\ expected \in [Keys -> Nat] /\ seen \in [Gets -> Nat] /\ known \in [Gets -> Nat]
  BY <1>1 DEF LoadInv, LoadTypes
<1>3. /\ AckedNow' = AckedNow /\ version' = version /\ answers' = answers
      /\ expected' = expected /\ newest' = newest /\ begun' = begun /\ after' = after
      /\ finished' = finished /\ staleLog' = staleLog
      /\ (\A u \in Sets : (Acked(u)' <=> Acked(u)) /\ (Failed(u)' <=> Failed(u)))
      /\ (\A h \in Gets : (Reading(h)' <=> Reading(h)) /\ (Answered(h)' <=> Answered(h)))
  BY <1>1 DEF AckedNow, Acked, Failed, Reading, Answered
<1>4. seen'[g] = expected[KeyOf[g]] /\ known'[g] = Len(answers)
  BY <1>1, <1>2
<1>5. \A h \in Gets : h # g => seen'[h] = seen[h] /\ known'[h] = known[h]
  BY <1>1, <1>2
<1>6. LoadTypes'
  BY <1>1, <1>2 DEF LoadInv, LoadTypes
<1>7. \A h \in asked : h # g /\ h \in Gets
  BY <1>1 DEF LoadInv, LoadTypes
<1>8. (\A i \in 1 .. Len(answers) : Acked(answers[i]) \/ Failed(answers[i]))'
  BY <1>1 DEF Acked, Failed, LoadInv
<1>9. ASSUME NEW h \in asked'
      PROVE  /\ known'[h] <= Len(answers)
             /\ LastIn(answers, AckedNow, version, KeyOf[h], known'[h], seen'[h])
             /\ h \in begun =>
                   \A i \in 1 .. known'[h] :
                       answers[i] \in AckedNow /\ KeyOf[answers[i]] = KeyOf[h] => answers[i] \in after[h]
  <2>1. CASE h = g
    BY <1>2, <1>4, <2>1 DEF LoadInv
  <2>2. CASE h \in asked
    BY <1>5, <1>7, <2>2 DEF LoadInv
  <2> QED BY <1>1, <2>1, <2>2
<1>10. /\ \A h \in finished : ~Reading(h)'
       /\ \A h \in staleLog : newest[h].version < seen'[h]
       /\ \A h \in finished \ staleLog : Answered(h)' => newest[h].version >= seen'[h]
  <2>1. finished \subseteq Gets /\ staleLog \subseteq finished
    BY DEF LoadInv, LoadTypes
  <2> QED BY <1>2, <1>3, <1>5, <2>1 DEF LoadInv
<1>11. \A k \in Keys : LastIn(answers, AckedNow, version, k, Len(answers), expected[k])
  BY DEF LoadInv
<1> HIDE <1>1
<1> QED BY <1>3, <1>6, <1>8, <1>9, <1>10, <1>11 DEF LoadInv

LEMMA CheckStep ==
    ASSUME Inv, LoadInv, NEW g \in Gets, do_read_Checks(g)
    PROVE  LoadInv'
<1> USE DEF loadVars, vars, setVars, getVars
<1>1. /\ g \in begun /\ g \notin finished /\ finished' = finished \cup {g}
      /\ ~Reading(g)
      /\ staleLog' = IF Answered(g) /\ newest[g].version < seen[g] THEN staleLog \cup {g} ELSE staleLog
      /\ UNCHANGED <<vars, expected, answers, asked, seen, known>>
  <2>1. Answered(g) => ~Reading(g)
    BY LeaderPosition, ParameterAssumption
       DEF Answered, Reading, Inv, TypeInv, TypeOK, ParameterAssumption
  <2> QED BY <2>1 DEF do_read_Checks
<1>2. newest[g].version \in Nat /\ seen[g] \in Nat
  BY DEF Inv, TypeInv, TypeOK, Record, LoadInv, LoadTypes
<1>3. IsFiniteSet(finished') /\ LoadTypes'
  <2>1. IsFiniteSet(finished')
    BY <1>1, FS_AddElement DEF LoadInv, LoadTypes
  <2> QED BY <1>1, <2>1 DEF LoadInv, LoadTypes
<1>4. /\ AckedNow' = AckedNow /\ version' = version /\ answers' = answers
      /\ expected' = expected /\ newest' = newest /\ begun' = begun /\ after' = after
      /\ seen' = seen /\ known' = known /\ asked' = asked
      /\ (\A h \in Gets : (Reading(h)' <=> Reading(h)) /\ (Answered(h)' <=> Answered(h)))
  BY <1>1 DEF AckedNow, Acked, Reading, Answered
<1>5. (\A i \in 1 .. Len(answers) : Acked(answers[i]) \/ Failed(answers[i]))'
  BY <1>1 DEF Acked, Failed, LoadInv
<1>6. finished \subseteq Gets /\ staleLog \subseteq finished
  BY DEF LoadInv, LoadTypes
<1>7. \A h \in finished' : ~Reading(h)'
  BY <1>1, <1>4, <1>6 DEF LoadInv
<1>8. \A h \in staleLog' : newest[h].version < seen[h]
  BY <1>1 DEF LoadInv
<1>9. \A h \in finished' \ staleLog' : Answered(h)' => newest[h].version >= seen[h]
  BY <1>1, <1>2, <1>4, <1>6 DEF LoadInv
<1> QED BY <1>3, <1>4, <1>5, <1>7, <1>8, <1>9 DEF LoadInv

LEMMA LoadInvariance == LoadSpec => [](Inv /\ LoadInv)
<1>1. Inv /\ LoadInv /\ [LoadNext]_<<vars, loadVars>> => LoadInv'
  <2> SUFFICES ASSUME Inv, LoadInv, [LoadNext]_<<vars, loadVars>> PROVE LoadInv'
    OBVIOUS
  <2>1. CASE UNCHANGED <<vars, loadVars>>
    <3> USE DEF vars, setVars, getVars, loadVars
    <3>1. /\ AckedNow' = AckedNow
          /\ \A w \in Sets : (Acked(w)' <=> Acked(w)) /\ (Failed(w)' <=> Failed(w))
          /\ \A g \in Gets : (Reading(g)' <=> Reading(g)) /\ (Answered(g)' <=> Answered(g))
      BY <2>1 DEF AckedNow, Acked, Failed, Reading, Answered
    <3>2. LoadTypes'
      BY <2>1 DEF LoadInv, LoadTypes
    <3>3. (\A i \in 1 .. Len(answers) : Acked(answers[i]) \/ Failed(answers[i]))'
      BY <2>1 DEF Acked, Failed, LoadInv
    <3>4. finished \subseteq Gets
      BY DEF LoadInv, LoadTypes
    <3>5. /\ \A g \in finished : ~Reading(g)'
          /\ \A g \in finished \ staleLog : Answered(g)' => newest[g].version >= seen[g]
      BY <3>1, <3>4 DEF LoadInv
    <3> QED BY <2>1, <3>1, <3>2, <3>3, <3>5 DEF LoadInv
  <2> QED BY <2>1, ServeStep, LookAtPutStep, AskStep, CheckStep DEF LoadNext
<1> QED BY <1>1, LoadInvInit, LoadIsStore, Invariance, PTL DEF LoadSpec

\* The stale-read log has no false alarm, although what a read is compared with
\* was looked up before it was sent and other users go on meanwhile.
THEOREM LogIsRight == LoadSpec => []NoFalseAlarms
<1>1. Inv /\ LoadInv => NoFalseAlarms
  <2> SUFFICES ASSUME Inv, LoadInv, NEW g \in staleLog
               PROVE  \E w \in after[g] : newest[g].version < version[w]
    BY DEF NoFalseAlarms
  <2>1. g \in Gets /\ g \in asked /\ g \in begun
    BY DEF LoadInv, LoadTypes
  <2>2. newest[g].version < seen[g] /\ newest[g].version \in Nat
    BY <2>1 DEF LoadInv, Inv, TypeInv, TypeOK, Record
  <2>3. PICK j \in 1 .. known[g] :
           answers[j] \in AckedNow /\ KeyOf[answers[j]] = KeyOf[g] /\ seen[g] = version[answers[j]]
    BY <2>1, <2>2 DEF LoadInv, LastIn
  <2> QED BY <2>1, <2>2, <2>3 DEF LoadInv
<1> QED BY <1>1, LoadInvariance, PTL

\* It has every stale read the test could know of, unless the answers to two
\* PUTs of the key had been looked at against the order of their versions.
THEOREM MissedReadsAreExplained == LoadSpec => []MissedOnlyOutOfOrder
<1>1. Inv /\ LoadInv => MissedOnlyOutOfOrder
  <2> SUFFICES ASSUME Inv, LoadInv, NEW g \in finished \ staleLog, Answered(g),
                      NEW i \in 1 .. known[g], KeyOf[answers[i]] = KeyOf[g], Acked(answers[i]),
                      newest[g].version < version[answers[i]]
               PROVE  OutOfOrder(g)
    BY DEF MissedOnlyOutOfOrder
  <2>1. /\ g \in Gets /\ g \in asked /\ known[g] \in Nat /\ known[g] <= Len(answers)
        /\ answers \in Seq(Sets)
    BY DEF LoadInv, LoadTypes
  <2>2. answers[i] \in Sets /\ answers[i] \in AckedNow
    BY <2>1 DEF AckedNow
  <2>3. newest[g].version \in Nat /\ seen[g] \in Nat /\ version[answers[i]] \in Nat
    BY <2>1, <2>2 DEF LoadInv, LoadTypes, Inv, TypeInv, TypeOK, Record
  <2>4. seen[g] < version[answers[i]]
    BY <2>3 DEF LoadInv
  <2>5. PICK j \in 1 .. known[g] :
           /\ KeyOf[answers[j]] = KeyOf[g] /\ seen[g] = version[answers[j]]
           /\ \A h \in j + 1 .. known[g] : answers[h] \in AckedNow => KeyOf[answers[h]] # KeyOf[g]
    BY <2>1, <2>2 DEF LoadInv, LastIn
  <2>6. i < j
    BY <2>1, <2>2, <2>3, <2>4, <2>5
  <2> QED BY <2>4, <2>5, <2>6 DEF OutOfOrder
<1> QED BY <1>1, LoadInvariance, PTL

\* The summary's stale reads are never more than its reads, and once both kinds
\* of request were counted each is counted as what it is.
THEOREM SummaryIsRight == LoadSpec => []SummaryCountsReads
<1>1. LoadInv => SummaryCountsReads
  <2> SUFFICES ASSUME LoadInv PROVE SummaryCountsReads
    OBVIOUS
  <2>1. /\ Cardinality(finished) \in Nat /\ Cardinality(staleLog) <= Cardinality(finished)
        /\ Cardinality(staleLog) \in Nat
    BY FS_Subset, FS_CardinalityType DEF LoadInv, LoadTypes
  <2>2. Len(answers) \in Nat
    BY DEF LoadInv, LoadTypes
  <2>3. Count["GET"] = Cardinality(finished) /\ Count["PUT"] = Len(answers)
    BY DEF Count
  <2>4. "GET" \in Rows(Count) => get_request_row(Count, "GET") = "GET"
    BY DEF get_request_row
  <2>5. "PUT" \in Rows(Count) => get_request_row(Count, "PUT") = "PUT"
    BY DEF get_request_row
  <2>6. metric_from_row(Count, get_request_row(Count, "GET")) >= Cardinality(staleLog)
    <3>1. CASE "GET" \in Rows(Count)
      BY <2>1, <2>3, <2>4, <3>1 DEF metric_from_row
    <3>2. CASE "GET" \notin Rows(Count)
      <4>1. Cardinality(staleLog) = 0
        BY <2>1, <2>3, <3>2 DEF Rows, Methods
      <4>2. get_request_row(Count, "GET") \in {"GET", "PUT", "none"}
        BY DEF get_request_row, Rows, Methods
      <4> QED BY <2>1, <2>2, <2>3, <4>1, <4>2 DEF metric_from_row
    <3> QED BY <3>1, <3>2
  <2> QED BY <2>3, <2>4, <2>5, <2>6 DEF SummaryCountsReads, build_summary, metric_from_row, Methods
<1> QED BY <1>1, LoadInvariance, PTL
=============================================================================
