--------------------------- MODULE LeaderFollower ---------------------------
(***************************************************************************)
(* The leader-follower mode of the replicated key-value store of src/hw10: *)
(* internal/modes/leader_follower.go over internal/store/store.go, reached *)
(* through the HTTP handlers of internal/api and the HTTP client of        *)
(* internal/cluster.                                                       *)
(*                                                                         *)
(* One ClientSet call is one element of Sets and one ClientGet call one    *)
(* element of Gets: the goroutines that serve them interleave freely.  The *)
(* value a call writes is its own name, so two writes are never confused.  *)
(***************************************************************************)
EXTENDS Integers, Sequences, FiniteSets

CONSTANTS
    AllNodes,           \* cfg.Nodes: the node URLs, in configuration order
    Leader,             \* the node with IS_LEADER=true, and every LEADER_URL
    Keys,
    Sets,               \* ClientSet calls (one per request, never reused)
    Gets,               \* ClientGet calls
    KeyOf,              \* the key a call is about
    NodeOf,             \* the node a ClientGet is sent to
    NoValue,            \* the empty value of a record that does not exist
    W, R,               \* the write and the read concern
    MaxConcurrentSets,  \* clients waiting for a PUT at any one time
    MaxFaults           \* internal HTTP calls that fail in a behaviour

N == Len(AllNodes)
Nodes == {AllNodes[i] : i \in 1 .. N}

ASSUME ClusterAssumption ==
    /\ AllNodes \in Seq(Nodes)
    /\ \A i, j \in 1 .. N : AllNodes[i] = AllNodes[j] => i = j
    /\ Leader \in Nodes

ASSUME RequestAssumption ==
    /\ \A c \in Sets \cup Gets : KeyOf[c] \in Keys
    /\ \A g \in Gets : NodeOf[g] \in Nodes
    /\ IsFiniteSet(Sets) /\ NoValue \notin Sets

ASSUME ParameterAssumption ==
    /\ W \in Nat /\ R \in Nat
    /\ MaxConcurrentSets \in Nat /\ MaxFaults \in Nat

\* followerURLs: every node but this one, in configuration order.
LeaderIndex == CHOOSE i \in 1 .. N : AllNodes[i] = Leader
FollowerIndex == 1 .. N - 1
Followers == [i \in FollowerIndex |-> AllNodes[IF i < LeaderIndex THEN i ELSE i + 1]]

\* The concerns the two switch statements have a case for.
SupportedConcerns == {1, 3, 5}

\* R=1 asks the leader alone; R=3 and R=5 go through all nodes in order.
Candidates == IF R = 1 THEN <<Leader>> ELSE AllNodes

Record == [value : Sets \cup {NoValue}, version : Nat]
Absent == [value |-> NoValue, version |-> 0]

VARIABLES
    store,         \* store[n][k]: the record node n holds for key k
    nextVersion,   \* the leader's atomic counter
    pc,            \* pc[w]: how far ClientSet call w has come
    version,       \* version[w]: the version it took
    nextIndex,     \* nextIndex[w]: the follower its loop has come to
    ackCount,      \* ackCount[w]: acknowledgements counted, its own included
    call,          \* call[w][i]: the Replicate request of w to Followers[i]
    begun,         \* the ClientGet calls that have begun
    readIndex,     \* readIndex[g]: the candidate its loop has come to
    successCount,  \* successCount[g]: the answers it has
    newest,        \* newest[g]: the newest record among them
    after,         \* history: the sets acknowledged when g began
    faults         \* internal calls that have failed so far

setVars == <<pc, version, nextIndex, ackCount, call>>
getVars == <<begun, readIndex, successCount, newest, after>>
vars == <<store, nextVersion, setVars, getVars, faults>>

-----------------------------------------------------------------------------
Init ==
    /\ store = [n \in Nodes |-> [k \in Keys |-> Absent]]
    /\ nextVersion = 0
    /\ pc = [w \in Sets |-> "idle"]
    /\ version = [w \in Sets |-> 0]
    /\ nextIndex = [w \in Sets |-> 1]
    /\ ackCount = [w \in Sets |-> 1]
    /\ call = [w \in Sets |-> [i \in FollowerIndex |-> "none"]]
    /\ begun = {}
    /\ readIndex = [g \in Gets |-> 1]
    /\ successCount = [g \in Gets |-> 0]
    /\ newest = [g \in Gets |-> Absent]
    /\ after = [g \in Gets |-> {}]
    /\ faults = 0

\* The call has its quorum: ClientSet returns the record (HTTP 201), and what
\* is left of the follower list is handed to propagateInBackground.
Acked(w) == pc[w] = "stored" /\ W \in SupportedConcerns /\ ackCount[w] >= W

\* ClientSet returned ErrUnsupportedWriteConcern or ErrNotEnoughWriteAcks.
Failed(w) == /\ pc[w] = "stored"
             /\ W \in SupportedConcerns => ackCount[w] < W /\ nextIndex[w] = N

\* The request is still being served: its client waits.
Pending(w) == pc[w] # "idle" /\ ~Acked(w) /\ ~Failed(w)

\* Fault: a counter whose increments can be lost.
ClientSet_LostIncrement(w) ==
    /\ pc[w] = "idle"
    /\ Cardinality({v \in Sets : Pending(v)}) < MaxConcurrentSets
    /\ nextVersion' \in {nextVersion, nextVersion + 1}
    /\ version' = [version EXCEPT ![w] = nextVersion + 1]
    /\ pc' = [pc EXCEPT ![w] = "versioned"]
    /\ UNCHANGED <<store, nextIndex, ackCount, call, getVars, faults>>

\* ClientSet at the leader takes its version.  A follower answers
\* ErrWriteOnFollower and changes nothing.
ClientSet(w) ==
    /\ pc[w] = "idle"
    /\ Cardinality({v \in Sets : Pending(v)}) < MaxConcurrentSets
    /\ nextVersion' = nextVersion + 1
    /\ version' = [version EXCEPT ![w] = nextVersion + 1]
    /\ pc' = [pc EXCEPT ![w] = "versioned"]
    /\ UNCHANGED <<store, nextIndex, ackCount, call, getVars, faults>>

\* The record of set w.
RecordOf(w) == [value |-> w, version |-> version[w]]

\* The leader's own write: MemoryStore.Put, whatever the store holds.
Put(w) ==
    /\ pc[w] = "versioned"
    /\ store' = [store EXCEPT ![Leader][KeyOf[w]] = RecordOf(w)]
    /\ pc' = [pc EXCEPT ![w] = "stored"]
    /\ UNCHANGED <<nextVersion, version, nextIndex, ackCount, call, getVars, faults>>

\* Fault: no background goroutine for the followers that are left.
SendReplica_StopsAtQuorum(w) ==
    /\ pc[w] = "stored" /\ ~Failed(w) /\ ~Acked(w)
    /\ nextIndex[w] \in FollowerIndex
    /\ call[w][nextIndex[w]] = "none"
    /\ call' = [call EXCEPT ![w][nextIndex[w]] = "sent"]
    /\ UNCHANGED <<store, nextVersion, pc, version, nextIndex, ackCount, getVars, faults>>

\* The replication loop (ClientSet's or propagateInBackground's) sends the
\* record to the next follower and waits for its answer.
SendReplica(w) ==
    /\ pc[w] = "stored" /\ ~Failed(w)
    /\ nextIndex[w] \in FollowerIndex
    /\ call[w][nextIndex[w]] = "none"
    /\ call' = [call EXCEPT ![w][nextIndex[w]] = "sent"]
    /\ UNCHANGED <<store, nextVersion, pc, version, nextIndex, ackCount, getVars, faults>>

\* Faults: a follower that takes every update, or only the first.
PutIfNewer_Always(current, incoming) == incoming
PutIfNewer_IfAbsent(current, incoming) == IF current = Absent THEN incoming ELSE current

\* MemoryStore.PutIfNewer
PutIfNewer(current, incoming) ==
    IF current = Absent \/ incoming.version >= current.version
    THEN incoming ELSE current

\* A follower serves the request, whether or not the leader still waits for
\* it.  An update it ignores as stale is answered 200 like one it applies.
InternalReplicate(w, i) ==
    /\ call[w][i] = "sent"
    /\ store' = [store EXCEPT ![Followers[i]][KeyOf[w]] = PutIfNewer(@, RecordOf(w))]
    /\ call' = [call EXCEPT ![w][i] = "answered"]
    /\ UNCHANGED <<nextVersion, pc, version, nextIndex, ackCount, getVars, faults>>

\* Fault: the index is advanced by the loop and again by its body.
ReplicaAnswers_SkipsOne(w) ==
    /\ nextIndex[w] \in FollowerIndex
    /\ call[w][nextIndex[w]] = "answered"
    /\ nextIndex' = [nextIndex EXCEPT ![w] = @ + 2]
    /\ ackCount' = IF Acked(w) THEN ackCount ELSE [ackCount EXCEPT ![w] = @ + 1]
    /\ UNCHANGED <<store, nextVersion, pc, version, call, getVars, faults>>

\* Replicate returns nil: an acknowledgement while ClientSet still counts.
ReplicaAnswers(w) ==
    /\ nextIndex[w] \in FollowerIndex
    /\ call[w][nextIndex[w]] = "answered"
    /\ nextIndex' = [nextIndex EXCEPT ![w] = @ + 1]
    /\ ackCount' = IF Acked(w) THEN ackCount ELSE [ackCount EXCEPT ![w] = @ + 1]
    /\ UNCHANGED <<store, nextVersion, pc, version, call, getVars, faults>>

\* Fault: the error is not looked at, and counts as an acknowledgement.
ReplicaFails_Counted(w) ==
    /\ faults < MaxFaults
    /\ nextIndex[w] \in FollowerIndex
    /\ call[w][nextIndex[w]] \in {"sent", "answered"}
    /\ nextIndex' = [nextIndex EXCEPT ![w] = @ + 1]
    /\ ackCount' = [ackCount EXCEPT ![w] = @ + 1]
    /\ faults' = faults + 1
    /\ UNCHANGED <<store, nextVersion, pc, version, call, getVars>>

\* Replicate returns an error: a refused connection, the client timeout, a
\* cancelled context.  The follower may have served the request, may serve it
\* later, or may never see it; the leader does not try again.
ReplicaFails(w) ==
    /\ faults < MaxFaults
    /\ nextIndex[w] \in FollowerIndex
    /\ call[w][nextIndex[w]] \in {"sent", "answered"}
    /\ nextIndex' = [nextIndex EXCEPT ![w] = @ + 1]
    /\ faults' = faults + 1
    /\ UNCHANGED <<store, nextVersion, pc, version, ackCount, call, getVars>>

-----------------------------------------------------------------------------
\* The sets of key k whose clients have had their answer.
AckedSets(k) == {w \in Sets : KeyOf[w] = k /\ Acked(w)}

\* ClientGet arrives at its node.
ClientGet(g) ==
    /\ g \notin begun
    /\ begun' = begun \cup {g}
    /\ after' = [after EXCEPT ![g] = AckedSets(KeyOf[g])]
    /\ UNCHANGED <<store, nextVersion, setVars, readIndex, successCount, newest, faults>>

\* ClientGet returned a record, or ErrKeyNotFound when it is Absent.
Answered(g) == g \in begun /\ R \in SupportedConcerns /\ successCount[g] >= R

\* The loop of readMostRecent goes on (for R=1, readFromLeader's one read).
Reading(g) == /\ g \in begun
              /\ R \in SupportedConcerns
              /\ successCount[g] < R
              /\ readIndex[g] \in 1 .. Len(Candidates)

\* Fault: the first record found is kept, whatever the later answers hold.
ReadOne_KeepsFirst(g) ==
    LET rec == store[Candidates[readIndex[g]]][KeyOf[g]]
    IN  /\ Reading(g)
        /\ readIndex' = [readIndex EXCEPT ![g] = @ + 1]
        /\ successCount' = [successCount EXCEPT ![g] = @ + 1]
        /\ newest' = [newest EXCEPT ![g] = IF @ = Absent THEN rec ELSE @]
        /\ UNCHANGED <<store, nextVersion, setVars, begun, after, faults>>

\* readOne: the local store, or the InternalRead handler of another node.
ReadOne(g) ==
    LET rec == store[Candidates[readIndex[g]]][KeyOf[g]]
    IN  /\ Reading(g)
        /\ readIndex' = [readIndex EXCEPT ![g] = @ + 1]
        /\ successCount' = [successCount EXCEPT ![g] = @ + 1]
        /\ newest' = [newest EXCEPT ![g] = IF rec.version > @.version THEN rec ELSE @]
        /\ UNCHANGED <<store, nextVersion, setVars, begun, after, faults>>

\* InternalRead returns an error; a node's read of itself cannot.
ReadFails(g) ==
    /\ faults < MaxFaults
    /\ Reading(g)
    /\ Candidates[readIndex[g]] # NodeOf[g]
    /\ readIndex' = [readIndex EXCEPT ![g] = @ + 1]
    /\ faults' = faults + 1
    /\ UNCHANGED <<store, nextVersion, setVars, begun, successCount, newest, after>>

-----------------------------------------------------------------------------
Next ==
    \/ \E w \in Sets : \/ ClientSet(w) \/ Put(w) \/ SendReplica(w)
                       \/ ReplicaAnswers(w) \/ ReplicaFails(w)
    \/ \E w \in Sets, i \in FollowerIndex : InternalReplicate(w, i)
    \/ \E g \in Gets : ClientGet(g) \/ ReadOne(g) \/ ReadFails(g)

Spec == Init /\ [][Next]_vars

\* Goroutines are scheduled and a follower serves a request whose sender still
\* waits for it.  Nothing makes a client call, and a request that outlived its
\* sender's timeout need not be served.
Fairness ==
    /\ \A w \in Sets : /\ WF_vars(Put(w))
                       /\ WF_vars(SendReplica(w))
                       /\ WF_vars(ReplicaAnswers(w))
    /\ \A w \in Sets, i \in FollowerIndex :
          WF_vars(nextIndex[w] = i /\ InternalReplicate(w, i))
    /\ \A g \in Gets : WF_vars(ReadOne(g))

FairSpec == Spec /\ Fairness

-----------------------------------------------------------------------------
(* Properties                                                              *)

TypeOK ==
    /\ store \in [Nodes -> [Keys -> Record]]
    /\ nextVersion \in Nat
    /\ pc \in [Sets -> {"idle", "versioned", "stored"}]
    /\ version \in [Sets -> Nat]
    /\ nextIndex \in [Sets -> 1 .. N]
    /\ ackCount \in [Sets -> 1 .. N]
    /\ call \in [Sets -> [FollowerIndex -> {"none", "sent", "answered"}]]
    /\ begun \subseteq Gets
    /\ readIndex \in [Gets -> 1 .. N + 1]
    /\ successCount \in [Gets -> 0 .. N]
    /\ newest \in [Gets -> Record]
    /\ after \in [Gets -> SUBSET Sets]
    /\ faults \in 0 .. MaxFaults

\* A version names one write: two replicas that hold the same version of a key
\* hold the same value, whichever paths the record took.  The leader's counter
\* and its pairing with the value (ClientSet) are what it rests on.
SameVersionSameValue ==
    \A m, n \in Nodes, k \in Keys :
        store[m][k].version = store[n][k].version => store[m][k] = store[n][k]

\* The followers that hold at least the version of set w.
Holders(w) ==
    {i \in FollowerIndex : store[Followers[i]][KeyOf[w]].version >= version[w]}

\* An acknowledgement means what W says: besides the leader, W-1 followers hold
\* the write or a newer one, now and for good, although an ignored update also
\* counts, answers may be late and calls may fail.
AckedIsReplicated ==
    \A w \in Sets : Acked(w) => Cardinality(Holders(w)) >= W - 1

\* A follower's record for a key is never replaced by an older one, whatever
\* order the requests of concurrent and background replication arrive in.
FollowersNeverGoBack ==
    [][\A i \in FollowerIndex, k \in Keys :
          store'[Followers[i]][k].version >= store[Followers[i]][k].version]_vars

\* Any R answers include a follower that holds a write acknowledged at W; with
\* the leader's own copy not to be relied on, W+R > N is not enough.
FollowerQuorumsOverlap == W + R > N + 1

\* With one PUT at a time the leader's copy is as good as a follower's.
SerialQuorumsOverlap == MaxConcurrentSets <= 1 /\ W + R > N

\* A read, sent to any node, does not return a version older than that of a
\* write acknowledged before the read began: what the tests expect of a GET
\* after a PUT and loadtest/locustfile.py counts as a stale read.
ReadsSeeAckedWrites ==
    \A g \in Gets : Answered(g) =>
        \A w \in after[g] : newest[g].version >= version[w]

\* Where the quorums overlap, no read is stale, whatever is concurrent, late or
\* lost in the replication of the writes.
FreshReads == FollowerQuorumsOverlap \/ SerialQuorumsOverlap => ReadsSeeAckedWrites

\* Once every call has come to an end and no request is under way, all followers
\* agree on every key if no call failed, and so does the leader if clients
\* write one after the other: an unconditional Put of an older version by the
\* leader is never repaired.
Quiescent == \A w \in Sets : pc[w] = "idle" \/ nextIndex[w] = N

AllReplicasAgree ==
    Quiescent /\ faults = 0 =>
        \A k \in Keys : \A i, j \in FollowerIndex :
            /\ store[Followers[i]][k] = store[Followers[j]][k]
            /\ MaxConcurrentSets <= 1 => store[Followers[i]][k] = store[Leader][k]

\* When no call fails, a write that took its version reaches every follower, or
\* a newer one does: also the followers left to the background goroutine after
\* the acknowledgement (W=1, W=3).
EveryWritePropagates ==
    \A w \in Sets : pc[w] = "versioned" ~> Holders(w) = FollowerIndex \/ faults > 0

-----------------------------------------------------------------------------
(* The register that clients see: each answer is a step of the abstract    *)
(* read, each acknowledgement one of the abstract write.                   *)

Versions(ws) == {version[w] : w \in ws}

AbstractRead(g) ==
    IF g \notin begun THEN [status |-> "idle"]
    ELSE IF Answered(g)
    THEN [status |-> "done", key |-> KeyOf[g], version |-> newest[g].version]
    ELSE [status |-> "reading", key |-> KeyOf[g], floor |-> Versions(after[g])]

Register == INSTANCE VersionedRegister WITH
    Reads  <- Gets,
    issued <- [k \in Keys |-> Versions({w \in Sets : KeyOf[w] = k /\ pc[w] # "idle"})],
    acked  <- [k \in Keys |-> Versions(AckedSets(k))],
    reads  <- [g \in Gets |-> AbstractRead(g)]

\* With overlapping quorums the cluster implements a regular register per key.
ImplementsRegister == Register!Spec
=============================================================================
