------------------------ MODULE RequestRoutingProofs ------------------------
(***************************************************************************)
(* Theorems about the routing step, for any requests and channels, any     *)
(* instances and number of tries, and any number of faults of any kind.    *)
(***************************************************************************)
EXTENDS RequestRouting, FiniteSetTheorems, TLAPS

USE DEF Offsets, faultVars, readerVars, consumerVars

-----------------------------------------------------------------------------
(* Types.                                                                  *)

\* Past the first channel, or after a failed try, an instance is in the middle of
\* a delivery, and a producer has only records it was given.
PlacesInv ==
    /\ \A i \in Instances : next[i] > 1 \/ tries[i] > 0 => Delivering(i)
    /\ \A i \in Instances, m \in Messages : inFlight[i][m] > 0 => copies[m] > 0

TypeInv == TypeOK /\ PlacesInv

\* A request is appended behind those there are.
LEMMA AppendElements ==
    ASSUME NEW X, NEW s \in Seq(X), NEW x \in X
    PROVE  /\ Append(s, x) \in Seq(X)
           /\ Len(s) \in Nat /\ Len(Append(s, x)) = Len(s) + 1
           /\ \A k \in 1 .. Len(s) : Append(s, x)[k] = s[k]
OBVIOUS

\* The constants, as the proofs use them.
LEMMA Constants ==
    /\ MaxTries \in Nat \ {0} /\ MaxFaults \in Nat
    /\ MaxRecords \in Nat
    /\ \A n \in Notifications :
          \E length \in Nat \ {0} : DOMAIN ChannelsOf[n] = 1 .. length
BY ConsumerAssumption, RoutingAssumption DEF ConsumerAssumption, RoutingAssumption

\* The variables, as the proofs use them.
LEMMA Facts ==
    ASSUME TypeInv
    PROVE  /\ log \in Seq(Notifications) /\ Len(log) \in Nat
           /\ owner \in Instances /\ faults \in Nat /\ faults \in 0 .. MaxFaults
           /\ committed \in Nat /\ committed \in 1 .. Len(log) + 1
           /\ \A i \in Instances :
                 /\ cursor[i] \in Nat /\ cursor[i] \in 1 .. Len(log) + 1
                 /\ tries[i] \in Nat /\ tries[i] \in 0 .. MaxTries - 1
                 /\ next[i] \in Nat \ {0}
                 /\ Delivering(i) => /\ running[i] /\ Record(i) \in Notifications
                                     /\ Record(i) = log[cursor[i]] /\ cursor[i] \in Offsets
BY Constants, SMTT(30) DEF TypeInv, TypeOK, ConsumerTypeOK, Delivering, Record

\* A record that is delivered is one of those the constants allow.
LEMMA RecordsBounded ==
    ASSUME TypeInv
    PROVE  Offsets \subseteq 1 .. MaxRecords
<1>1. Len(log) \in Nat /\ Len(log) <= MaxRecords /\ MaxRecords \in Nat
  BY Constants DEF TypeInv, TypeOK
<1> QED BY <1>1

\* A fault is one more, of a kind the constants allow.
LEMMA FaultCounted ==
    ASSUME TypeInv, NEW kind, Fault(kind)
    PROVE  /\ faults' = faults + 1 /\ faults' \in 0 .. MaxFaults
           /\ happened' \subseteq FaultKinds /\ kind \in happened'
           /\ happened \subseteq happened'
BY Constants DEF Fault, TypeInv, TypeOK, ConsumerTypeOK

\* What the steps of the container do to the assignment: only the row of the
\* instance that takes them changes.
LEMMA ThrowTyped ==
    ASSUME TypeInv, NEW i \in Instances, Delivering(i), Throw(i)
    PROVE  /\ log' = log /\ owner' = owner /\ committed' = committed
           /\ running' \in [Instances -> BOOLEAN]
           /\ cursor' \in [Instances -> 1 .. Len(log) + 1]
           /\ tries' \in [Instances -> 0 .. MaxTries - 1]
           /\ \A j \in Instances : j # i => /\ running'[j] = running[j]
                                          /\ cursor'[j] = cursor[j]
                                          /\ tries'[j] = tries[j]
           /\ \/ /\ running' = running /\ cursor' = cursor /\ tries'[i] = tries[i] + 1
              \/ /\ running' = running /\ cursor'[i] = cursor[i] + 1 /\ tries'[i] = 0
              \/ /\ owner # i /\ ~running'[i] /\ cursor' = cursor /\ tries'[i] = 0
<1>a. tries[i] \in 0 .. MaxTries - 1 /\ cursor[i] \in 1 .. Len(log) /\ Len(log) \in Nat
  BY Facts
<1>1. tries[i] \in 0 .. MaxTries - 1 /\ cursor[i] + 1 \in 1 .. Len(log) + 1
  BY <1>a
<1> USE Constants DEF TypeInv, TypeOK, ConsumerTypeOK, Throw
<1>2. 0 \in 0 .. MaxTries - 1
  OBVIOUS
<1>3. CASE owner = i /\ tries[i] + 1 < MaxTries
  <2>1. tries[i] + 1 \in 0 .. MaxTries - 1
    BY <1>1, <1>3, SMTT(30)
  <2>2. tries' = [tries EXCEPT ![i] = @ + 1] /\ UNCHANGED <<cursor, running>>
    BY <1>1, <1>3, SMTT(30)
  <2> QED BY <2>1, <2>2
<1>4. CASE owner = i /\ tries[i] + 1 = MaxTries
  <2>1. /\ tries' = [tries EXCEPT ![i] = 0] /\ cursor' = [cursor EXCEPT ![i] = @ + 1]
        /\ UNCHANGED running
    <3>1. ~(tries[i] + 1 < MaxTries)
      BY <1>1, <1>4
    <3> QED BY <1>4, <3>1
  <2>2. cursor' \in [Instances -> 1 .. Len(log) + 1]
    BY <1>1, <2>1
  <2> QED BY <1>1, <1>2, <2>1, <2>2
<1>5. CASE owner # i
  <2>1. /\ tries' = [tries EXCEPT ![i] = 0] /\ running' = [running EXCEPT ![i] = FALSE]
        /\ UNCHANGED cursor
    BY <1>5
  <2> QED BY <1>1, <1>2, <1>5, <2>1
<1> QED BY <1>3, <1>4, <1>5

LEMMA SucceedTyped ==
    ASSUME TypeInv, NEW i \in Instances, Delivering(i), Succeed(i)
    PROVE  /\ log' = log /\ owner' = owner /\ committed' = committed
           /\ running' = running
           /\ cursor' \in [Instances -> 1 .. Len(log) + 1] /\ cursor'[i] = cursor[i] + 1
           /\ tries' \in [Instances -> 0 .. MaxTries - 1] /\ tries'[i] = 0
           /\ \A j \in Instances : j # i => /\ cursor'[j] = cursor[j]
                                          /\ tries'[j] = tries[j]
<1> USE Constants DEF TypeInv, TypeOK, ConsumerTypeOK, Succeed
<1>1. cursor[i] + 1 \in 1 .. Len(log) + 1 /\ 0 \in 0 .. MaxTries - 1
  BY SMTT(30) DEF Delivering
<1> QED BY <1>1

LEMMA StartsTyped ==
    ASSUME TypeInv, NEW i \in Instances, Starts(i)
    PROVE  /\ log' = log /\ owner' = i /\ committed' = committed
           /\ running' \in [Instances -> BOOLEAN] /\ ~running[i] /\ running'[i]
           /\ cursor' \in [Instances -> 1 .. Len(log) + 1] /\ cursor'[i] = committed
           /\ tries' \in [Instances -> 0 .. MaxTries - 1] /\ tries'[i] = 0
           /\ next[i] = 1
           /\ \A j \in Instances : j # i => /\ running'[j] = running[j]
                                          /\ cursor'[j] = cursor[j]
                                          /\ tries'[j] = tries[j]
BY Constants, SMTT(30) DEF TypeInv, PlacesInv, TypeOK, ConsumerTypeOK, Starts, Delivering

LEMMA LeaveTyped ==
    ASSUME TypeInv, NEW i \in Instances, Leave(i)
    PROVE  /\ log' = log /\ owner' = owner /\ committed' = committed
           /\ cursor' = cursor
           /\ running' \in [Instances -> BOOLEAN] /\ running[i] /\ ~running'[i]
           /\ tries' \in [Instances -> 0 .. MaxTries - 1] /\ tries'[i] = 0
           /\ \A j \in Instances : j # i => /\ running'[j] = running[j]
                                          /\ tries'[j] = tries[j]
BY Constants DEF TypeInv, TypeOK, ConsumerTypeOK, Leave

\* A table of counts, with one of them changed.
LEMMA CountChanged ==
    ASSUME NEW X, NEW f \in [X -> Nat], NEW m \in X, NEW x \in Nat
    PROVE  /\ [f EXCEPT ![m] = x] \in [X -> Nat]
           /\ [f EXCEPT ![m] = x][m] = x
           /\ \A d \in X : d # m => [f EXCEPT ![m] = x][d] = f[d]
OBVIOUS

LEMMA TableChanged ==
    ASSUME NEW X, NEW Y, NEW f \in [X -> [Y -> Nat]],
           NEW i \in X, NEW m \in Y, NEW x \in Nat
    PROVE  /\ [f EXCEPT ![i][m] = x] \in [X -> [Y -> Nat]]
           /\ [f EXCEPT ![i][m] = x][i][m] = x
           /\ \A j \in X, d \in Y :
                 j # i \/ d # m => [f EXCEPT ![i][m] = x][j][d] = f[j][d]
<1>1. PICK row : row = [f[i] EXCEPT ![m] = x]
  OBVIOUS
<1>2. row \in [Y -> Nat] /\ row[m] = x /\ \A d \in Y : d # m => row[d] = f[i][d]
  BY <1>1
<1>3. [f EXCEPT ![i][m] = x] = [f EXCEPT ![i] = row]
  BY <1>1
<1> QED BY <1>2, <1>3

\* The message an instance is about to hand over.
LEMMA MessageTyped ==
    ASSUME TypeInv, NEW i \in Instances, InLoop(i), Channel(i) \in Supported
    PROVE  /\ Message(i) \in Messages /\ Message(i) = <<Record(i), Channel(i)>>
           /\ Delivering(i) /\ running[i] /\ Record(i) \in Notifications
           /\ next[i] \in DOMAIN ChannelsOf[Record(i)]
BY Facts DEF Message, Messages, InLoop

\* What happens to the producers and in Kafka, whatever the step: only more
\* copies, and in a producer's buffer nothing that it was not given.
LEMMA BrokerStep ==
    ASSUME TypeInv, [Next]_vars
    PROVE  /\ inFlight' \in [Instances -> [Messages -> Nat]]
           /\ stored' \subseteq Messages
           /\ copies' \in [Messages -> Nat]
           /\ \A m \in Messages : copies'[m] >= copies[m]
           /\ \A i \in Instances, m \in Messages : inFlight'[i][m] > 0 => copies'[m] > 0
<1>a. /\ inFlight \in [Instances -> [Messages -> Nat]]
      /\ stored \subseteq Messages
      /\ copies \in [Messages -> Nat]
      /\ \A i \in Instances, m \in Messages : inFlight[i][m] > 0 => copies[m] > 0
  BY DEF TypeInv, TypeOK, PlacesInv
<1>1. CASE UNCHANGED brokerVars
  BY <1>a, <1>1 DEF brokerVars
<1>2. ASSUME NEW i \in Instances, RouteChannel(i)
      PROVE  /\ inFlight' \in [Instances -> [Messages -> Nat]]
             /\ stored' \subseteq Messages
             /\ copies' \in [Messages -> Nat]
             /\ \A m \in Messages : copies'[m] >= copies[m]
             /\ \A j \in Instances, m \in Messages : inFlight'[j][m] > 0 => copies'[m] > 0
  <2>1. PICK m \in Messages : publish(i, m)
    BY <1>2, MessageTyped DEF RouteChannel
  <2>2. inFlight[i][m] + 1 \in Nat /\ copies[m] + 1 \in Nat /\ copies[m] \in Nat
    BY <1>a
  <2>3. /\ inFlight' \in [Instances -> [Messages -> Nat]]
        /\ \A j \in Instances, d \in Messages :
              j # i \/ d # m => inFlight'[j][d] = inFlight[j][d]
    BY <1>a, <2>1, <2>2, TableChanged DEF publish
  <2>4. /\ copies' \in [Messages -> Nat] /\ copies'[m] = copies[m] + 1
        /\ \A d \in Messages : d # m => copies'[d] = copies[d]
    BY <1>a, <2>1, <2>2, CountChanged DEF publish
  <2>5. \A d \in Messages : copies'[d] >= copies[d] /\ (d = m => copies'[d] > 0)
    BY <1>a, <2>2, <2>4
  <2>6. stored' = stored
    BY <2>1 DEF publish
  <2> QED BY <1>a, <2>3, <2>4, <2>5, <2>6
<1>3. ASSUME NEW i \in Instances, NEW m \in Messages, Store(i, m) \/ SendFails(i, m)
      PROVE  /\ inFlight' \in [Instances -> [Messages -> Nat]]
             /\ stored' \subseteq Messages /\ copies' = copies
             /\ \A j \in Instances, d \in Messages : inFlight'[j][d] > 0 => inFlight[j][d] > 0
  <2>1. /\ inFlight' = [inFlight EXCEPT ![i][m] = @ - 1] /\ inFlight[i][m] > 0
        /\ stored' \in {stored, stored \cup {m}} /\ copies' = copies
    BY <1>3 DEF Store, SendFails
  <2>2. inFlight[i][m] - 1 \in Nat
    BY <1>a, <2>1
  <2>3. /\ inFlight' \in [Instances -> [Messages -> Nat]]
        /\ \A j \in Instances, d \in Messages :
              j # i \/ d # m => inFlight'[j][d] = inFlight[j][d]
    BY <1>a, <2>1, <2>2, TableChanged
  <2> QED BY <1>a, <2>1, <2>3
<1>4. ASSUME NEW i \in Instances, NEW m \in Messages, StoreUnanswered(i, m)
      PROVE  /\ inFlight' = inFlight /\ stored' \subseteq Messages
             /\ copies' \in [Messages -> Nat]
             /\ \A d \in Messages : copies'[d] >= copies[d]
  <2>1. /\ inFlight' = inFlight /\ stored' = stored \cup {m}
        /\ copies' = [copies EXCEPT ![m] = @ + 1]
    BY <1>4 DEF StoreUnanswered
  <2>2. copies[m] + 1 \in Nat /\ copies[m] + 1 >= copies[m] /\ \A d \in Messages : copies[d] >= copies[d]
    BY <1>a
  <2>3. /\ copies' \in [Messages -> Nat] /\ copies'[m] = copies[m] + 1
        /\ \A d \in Messages : d # m => copies'[d] = copies[d]
    BY <1>a, <2>1, <2>2, CountChanged
  <2> QED BY <1>a, <2>1, <2>2, <2>3
<1>5. ASSUME NEW i \in Instances, Crash(i)
      PROVE  /\ inFlight' \in [Instances -> [Messages -> Nat]]
             /\ UNCHANGED <<stored, copies>>
             /\ \A j \in Instances, d \in Messages : inFlight'[j][d] > 0 => inFlight[j][d] > 0
  <2>1. /\ inFlight' = [inFlight EXCEPT ![i] = [m \in Messages |-> 0]]
        /\ UNCHANGED <<stored, copies>>
    BY <1>5 DEF Crash
  <2>2. [m \in Messages |-> 0] \in [Messages -> Nat]
    OBVIOUS
  <2>3. inFlight' \in [Instances -> [Messages -> Nat]]
    BY <1>a, <2>1, <2>2
  <2>4. \A j \in Instances, d \in Messages :
           inFlight'[j][d] = IF j = i THEN 0 ELSE inFlight[j][d]
    BY <1>a, <2>1
  <2> QED BY <1>a, <2>1, <2>3, <2>4
<1>6. ASSUME copies' \in [Messages -> Nat], \A m \in Messages : copies'[m] >= copies[m],
             \A j \in Instances, d \in Messages : inFlight'[j][d] > 0 => inFlight[j][d] > 0
      PROVE  \A j \in Instances, d \in Messages : inFlight'[j][d] > 0 => copies'[d] > 0
  <2>1. \A d \in Messages : copies[d] \in Nat /\ copies'[d] \in Nat
    BY <1>a, <1>6
  <2> QED BY <1>a, <1>6, <2>1
<1>7. \A m \in Messages : copies[m] >= copies[m]
  BY <1>a
<1>8. CASE \E i \in Instances : RouteChannel(i)
  BY <1>2, <1>8
<1>9. CASE \E i \in Instances, m \in Messages : Store(i, m) \/ SendFails(i, m)
  BY <1>a, <1>3, <1>6, <1>7, <1>9
<1>10. CASE \E i \in Instances, m \in Messages : StoreUnanswered(i, m)
  BY <1>a, <1>4, <1>6, <1>10
<1>11. CASE \E i \in Instances : Crash(i)
  BY <1>a, <1>5, <1>6, <1>7, <1>11
<1>12. CASE \E n \in Notifications : Request(n)
  BY <1>1, <1>12 DEF Request
<1>13. CASE \E i \in Instances : PublishThrows(i) \/ RejectChannel(i) \/ FinishRequest(i)
  BY <1>1, <1>13 DEF PublishThrows, RejectChannel, FinishRequest
<1>14. CASE \E i \in Instances : Commit(i) \/ Restart(i) \/ TakeOver(i) \/ Stop(i)
  BY <1>1, <1>14 DEF Commit, Restart, TakeOver, Stop
<1>15. CASE UNCHANGED vars
  BY <1>1, <1>15 DEF vars
<1> QED BY <1>8, <1>9, <1>10, <1>11, <1>12, <1>13, <1>14, <1>15 DEF Next, Route

\* The exceptions of publish are only counted up.
LEMMA ThrewStep ==
    ASSUME TypeInv, [Next]_vars
    PROVE  /\ threw' \in [1 .. MaxRecords -> Nat]
           /\ \A o \in 1 .. MaxRecords : threw'[o] >= threw[o]
<1>a. threw \in [1 .. MaxRecords -> Nat] /\ \A o \in 1 .. MaxRecords : threw[o] >= threw[o]
  <2>1. threw \in [1 .. MaxRecords -> Nat]
    BY DEF TypeInv, TypeOK
  <2> QED BY <2>1
<1>1. CASE UNCHANGED threw
  BY <1>a, <1>1
<1>2. ASSUME NEW i \in Instances, PublishThrows(i)
      PROVE  /\ threw' \in [1 .. MaxRecords -> Nat]
             /\ \A o \in 1 .. MaxRecords : threw'[o] >= threw[o]
  <2>1. threw' = [threw EXCEPT ![cursor[i]] = @ + 1] /\ Delivering(i)
    BY <1>2 DEF PublishThrows, InLoop
  <2>2. cursor[i] \in 1 .. MaxRecords
    BY <2>1, Facts, Constants DEF TypeInv, TypeOK
  <2>3. threw[cursor[i]] + 1 \in Nat /\ threw[cursor[i]] + 1 >= threw[cursor[i]]
    BY <1>a, <2>2
  <2> QED BY <1>a, <2>1, <2>2, <2>3, CountChanged
<1>3. CASE \E i \in Instances : RouteChannel(i) \/ RejectChannel(i) \/ FinishRequest(i)
  BY <1>1, <1>3 DEF RouteChannel, RejectChannel, FinishRequest
<1>4. CASE \E i \in Instances : Commit(i) \/ Restart(i) \/ TakeOver(i) \/ Stop(i) \/ Crash(i)
  BY <1>1, <1>4 DEF Commit, Restart, TakeOver, Stop, Crash
<1>5. CASE \E i \in Instances, m \in Messages :
              Store(i, m) \/ StoreUnanswered(i, m) \/ SendFails(i, m)
  BY <1>1, <1>5 DEF Store, StoreUnanswered, SendFails
<1>6. CASE \E n \in Notifications : Request(n)
  BY <1>1, <1>6 DEF Request
<1>7. CASE UNCHANGED vars
  BY <1>1, <1>7 DEF vars
<1> QED BY <1>2, <1>3, <1>4, <1>5, <1>6, <1>7 DEF Next, Route

\* The part of the state the container and the loop of route keep.
ReaderOK ==
    /\ log \in Seq(Notifications) /\ Len(log) <= MaxRecords
    /\ ConsumerTypeOK
    /\ next \in [Instances -> Nat \ {0}]
    /\ \A i \in Instances : next[i] > 1 => running[i]

LEMMA ReaderStep == ASSUME TypeInv, [Next]_vars PROVE ReaderOK'
<1> USE DEF ReaderOK, ConsumerTypeOK
<1>a. /\ ReaderOK /\ \A i \in Instances : Delivering(i) => running[i]
      /\ MaxRecords \in Nat /\ MaxTries \in Nat \ {0} /\ MaxFaults \in Nat
  BY Constants DEF TypeInv, TypeOK, Delivering
<1>1. ASSUME NEW n \in Notifications, Request(n)
      PROVE  ReaderOK'
  <2>1. /\ log' \in Seq(Notifications) /\ Len(log) \in Nat /\ Len(log') = Len(log) + 1
    BY <1>a, <1>1, AppendElements DEF Request, Append1
  <2>2. Len(log') <= MaxRecords
    BY <1>a, <1>1, <2>1 DEF Request
  <2>3. UNCHANGED <<owner, committed, running, cursor, tries, faults, happened, next>>
    BY <1>1 DEF Request, Append1
  <2> QED BY <1>a, <2>1, <2>2, <2>3, SMTT(30)
<1>2. ASSUME NEW i \in Instances, RouteChannel(i)
      PROVE  ReaderOK'
  <2>1. Delivering(i) /\ UNCHANGED consumerVars /\ next' = [next EXCEPT ![i] = @ + 1]
    BY <1>2 DEF RouteChannel, InLoop
  <2>2. next' \in [Instances -> Nat \ {0}] /\ \A j \in Instances : next'[j] > 1 => running[j]
    BY <1>a, <2>1
  <2> QED BY <1>a, <2>1, <2>2
<1>3. ASSUME NEW i \in Instances, PublishThrows(i) \/ RejectChannel(i)
      PROVE  ReaderOK'
  <2>1. /\ Delivering(i) /\ Throw(i) /\ next' = [next EXCEPT ![i] = 1]
        /\ faults' \in 0 .. MaxFaults /\ happened' \subseteq FaultKinds
    BY <1>a, <1>3, FaultCounted DEF PublishThrows, RejectChannel, InLoop
  <2>2. /\ log' = log /\ owner' = owner /\ committed' = committed
        /\ running' \in [Instances -> BOOLEAN]
        /\ cursor' \in [Instances -> 1 .. Len(log) + 1]
        /\ tries' \in [Instances -> 0 .. MaxTries - 1]
        /\ \A j \in Instances : j # i => running'[j] = running[j]
    BY <2>1, ThrowTyped
  <2>3. /\ next' \in [Instances -> Nat \ {0}]
        /\ \A j \in Instances : next'[j] > 1 => j # i /\ next[j] > 1
    BY <2>1, <1>a
  <2>4. \A j \in Instances : next'[j] > 1 => running'[j]
    BY <1>a, <2>2, <2>3
  <2>5. ConsumerTypeOK'
    BY <1>a, <2>1, <2>2
  <2> QED BY <1>a, <2>2, <2>3, <2>4, <2>5
<1>4. ASSUME NEW i \in Instances, FinishRequest(i)
      PROVE  ReaderOK'
  <2>1. /\ Delivering(i) /\ Succeed(i) /\ UNCHANGED <<faults, happened>>
    BY <1>4 DEF FinishRequest
  <2>2. /\ log' = log /\ owner' = owner /\ committed' = committed /\ running' = running
        /\ cursor' \in [Instances -> 1 .. Len(log) + 1]
        /\ tries' \in [Instances -> 0 .. MaxTries - 1]
    BY <2>1, SucceedTyped
  <2>3. /\ next' \in [Instances -> Nat \ {0}]
        /\ \A j \in Instances : next'[j] > 1 => j # i /\ next[j] > 1
    BY <1>4, <1>a DEF FinishRequest
  <2> QED BY <1>a, <2>1, <2>2, <2>3
<1>5. ASSUME NEW i \in Instances, Commit(i)
      PROVE  ReaderOK'
  BY <1>a, <1>5 DEF Commit, CommitOffset
<1>6. ASSUME NEW i \in Instances, Restart(i) \/ TakeOver(i)
      PROVE  ReaderOK'
  <2>1. /\ Starts(i) /\ UNCHANGED next
        /\ faults' \in 0 .. MaxFaults /\ happened' \subseteq FaultKinds
    BY <1>a, <1>6, FaultCounted DEF Restart, Assign, TakeOver, Rebalance
  <2> QED BY <1>a, <2>1, StartsTyped
<1>7. ASSUME NEW i \in Instances, Stop(i)
      PROVE  ReaderOK'
  <2>1. Leave(i) /\ next[i] = 1 /\ UNCHANGED <<faults, happened, next>>
    BY <1>7 DEF Stop, LosePartition
  <2>2. \A j \in Instances : next'[j] > 1 => running'[j]
    BY <1>a, <2>1, LeaveTyped
  <2> QED BY <1>a, <2>1, <2>2, LeaveTyped
<1>8. ASSUME NEW i \in Instances, Crash(i)
      PROVE  ReaderOK'
  <2>1. /\ next' \in [Instances -> Nat \ {0}]
        /\ \A j \in Instances : next'[j] > 1 => j # i /\ next[j] > 1
    BY <1>8, <1>a DEF Crash
  <2>2. /\ Leave(i) \/ UNCHANGED readerVars
        /\ faults' \in 0 .. MaxFaults /\ happened' \subseteq FaultKinds
    BY <1>8, FaultCounted DEF Crash, Die
  <2>3. CASE Leave(i)
    <3>1. /\ log' = log /\ owner' = owner /\ committed' = committed /\ cursor' = cursor
          /\ running' \in [Instances -> BOOLEAN]
          /\ tries' \in [Instances -> 0 .. MaxTries - 1]
          /\ \A j \in Instances : j # i => running'[j] = running[j]
      BY <2>3, LeaveTyped
    <3> QED BY <1>a, <2>1, <2>2, <3>1
  <2>4. CASE UNCHANGED readerVars
    BY <1>a, <2>1, <2>2, <2>4
  <2> QED BY <2>2, <2>3, <2>4
<1>9. ASSUME NEW i \in Instances, NEW m \in Messages,
             Store(i, m) \/ StoreUnanswered(i, m) \/ SendFails(i, m)
      PROVE  ReaderOK'
  <2>1. /\ UNCHANGED <<readerVars, next>>
        /\ faults' \in 0 .. MaxFaults /\ happened' \subseteq FaultKinds
    BY <1>a, <1>9, FaultCounted DEF Store, StoreUnanswered, SendFails
  <2> QED BY <1>a, <2>1
<1>10. CASE UNCHANGED vars
  BY <1>a, <1>10 DEF vars
<1> QED BY <1>1, <1>2, <1>3, <1>4, <1>5, <1>6, <1>7, <1>8, <1>9, <1>10 DEF Next, Route

\* Who is in the middle of a delivery stands where it stood.
LEMMA PlacesStep ==
    ASSUME TypeInv, [Next]_vars, NEW i \in Instances, next'[i] > 1 \/ tries'[i] > 0
    PROVE  Delivering(i)'
<1>a. /\ next \in [Instances -> Nat \ {0}]
      /\ \A j \in Instances : next[j] > 1 \/ tries[j] > 0 => Delivering(j)
      /\ \A j \in Instances : Delivering(j) => running[j] /\ cursor[j] \in Offsets
  BY DEF TypeInv, TypeOK, PlacesInv, Delivering
<1>b. ASSUME Delivering(i), running'[i], cursor'[i] = cursor[i], Offsets \subseteq Offsets'
      PROVE  Delivering(i)'
  BY <1>a, <1>b DEF Delivering
<1>1. ASSUME NEW n \in Notifications, Request(n)
      PROVE  Delivering(i)'
  <2>1. Offsets \subseteq Offsets'
    BY <1>1, AppendElements DEF Request, Append1, TypeInv, TypeOK
  <2>2. UNCHANGED <<running, cursor, tries, next>>
    BY <1>1 DEF Request, Append1
  <2> QED BY <1>a, <1>b, <2>1, <2>2
<1>2. ASSUME NEW j \in Instances, RouteChannel(j)
      PROVE  Delivering(i)'
  <2>1. /\ Delivering(j) /\ UNCHANGED readerVars /\ next' = [next EXCEPT ![j] = @ + 1]
    BY <1>2 DEF RouteChannel, InLoop
  <2>2. next'[i] = next[i] \/ i = j
    BY <1>a, <2>1
  <2> QED BY <1>a, <1>b, <2>1, <2>2
<1>3. ASSUME NEW j \in Instances, PublishThrows(j) \/ RejectChannel(j)
      PROVE  Delivering(i)'
  <2>1. /\ Delivering(j) /\ Throw(j) /\ next' = [next EXCEPT ![j] = 1]
    BY <1>3 DEF PublishThrows, RejectChannel, InLoop
  <2>2. /\ log' = log
        /\ i # j => /\ running'[i] = running[i] /\ cursor'[i] = cursor[i]
                    /\ tries'[i] = tries[i]
        /\ tries'[j] > 0 => running'[j] = running[j] /\ cursor'[j] = cursor[j]
    BY <2>1, ThrowTyped
  <2>3. IF i = j THEN next'[i] = 1 ELSE next'[i] = next[i]
    BY <1>a, <2>1
  <2>4. CASE i = j
    BY <1>a, <1>b, <2>1, <2>2, <2>3, <2>4
  <2>5. CASE i # j
    BY <1>a, <1>b, <2>2, <2>3, <2>5
  <2> QED BY <2>4, <2>5
<1>4. ASSUME NEW j \in Instances, FinishRequest(j)
      PROVE  Delivering(i)'
  <2>1. Delivering(j) /\ Succeed(j) /\ next' = [next EXCEPT ![j] = 1]
    BY <1>4 DEF FinishRequest
  <2>2. /\ log' = log /\ running' = running /\ tries'[j] = 0
        /\ i # j => cursor'[i] = cursor[i] /\ tries'[i] = tries[i]
    BY <2>1, SucceedTyped
  <2>3. IF i = j THEN next'[i] = 1 ELSE next'[i] = next[i]
    BY <1>a, <2>1
  <2> QED BY <1>a, <1>b, <2>2, <2>3
<1>5. ASSUME NEW j \in Instances, Commit(j)
      PROVE  Delivering(i)'
  <2>1. UNCHANGED <<log, running, cursor, tries, next>>
    BY <1>5 DEF Commit, CommitOffset
  <2> QED BY <1>a, <1>b, <2>1
<1>6. ASSUME NEW j \in Instances, Restart(j) \/ TakeOver(j)
      PROVE  Delivering(i)'
  <2>1. Starts(j) /\ UNCHANGED next
    BY <1>6 DEF Restart, Assign, TakeOver, Rebalance
  <2>2. /\ log' = log /\ tries'[j] = 0 /\ next[j] = 1
        /\ i # j => /\ running'[i] = running[i] /\ cursor'[i] = cursor[i]
                    /\ tries'[i] = tries[i]
    BY <2>1, StartsTyped
  <2> QED BY <1>a, <1>b, <2>1, <2>2
<1>7. ASSUME NEW j \in Instances, Stop(j) \/ Crash(j)
      PROVE  Delivering(i)'
  <2>1. next'[j] = 1 /\ (i # j => next'[i] = next[i])
    BY <1>a, <1>7 DEF Stop, LosePartition, Crash
  <2>2. Leave(j) \/ (~running[j] /\ UNCHANGED readerVars)
    BY <1>7 DEF Stop, LosePartition, Crash, Die
  <2>3. CASE Leave(j)
    <3>1. /\ log' = log /\ cursor' = cursor /\ tries'[j] = 0
          /\ i # j => running'[i] = running[i] /\ tries'[i] = tries[i]
      BY <2>3, LeaveTyped
    <3> QED BY <1>a, <1>b, <2>1, <3>1
  <2>4. CASE ~running[j] /\ UNCHANGED readerVars
    BY <1>a, <1>b, <2>1, <2>4
  <2> QED BY <2>2, <2>3, <2>4
<1>8. ASSUME NEW j \in Instances, NEW m \in Messages,
             Store(j, m) \/ StoreUnanswered(j, m) \/ SendFails(j, m)
      PROVE  Delivering(i)'
  <2>1. UNCHANGED <<readerVars, next>>
    BY <1>8 DEF Store, StoreUnanswered, SendFails
  <2> QED BY <1>a, <1>b, <2>1
<1>9. CASE UNCHANGED vars
  <2>1. UNCHANGED <<log, running, cursor, tries, next>>
    BY <1>9 DEF vars
  <2> QED BY <1>a, <1>b, <2>1
<1> QED BY <1>1, <1>2, <1>3, <1>4, <1>5, <1>6, <1>7, <1>8, <1>9 DEF Next, Route

LEMMA TypeStep == TypeInv /\ [Next]_vars => TypeInv'
<1> SUFFICES ASSUME TypeInv, [Next]_vars
             PROVE  TypeInv'
  OBVIOUS
<1>1. TypeOK'
  BY ReaderStep, BrokerStep, ThrewStep DEF TypeOK, ReaderOK
<1>2. PlacesInv'
  BY PlacesStep, BrokerStep DEF PlacesInv
<1> QED BY <1>1, <1>2 DEF TypeInv

\* The variables keep their types, an instance is past its first channel or its
\* first try only in the middle of a delivery, and a producer delivers nothing
\* that it was not given.
THEOREM TypeCorrect == Spec => []TypeInv
<1>1. Init => TypeInv
  <2> SUFFICES ASSUME Init PROVE TypeInv
    OBVIOUS
  <2>1. ReaderOK
    BY Constants DEF Init, ConsumerInit, ReaderOK, ConsumerTypeOK
  <2>2. TypeOK
    BY <2>1 DEF Init, TypeOK, ReaderOK
  <2>3. PlacesInv
    BY DEF Init, ConsumerInit, PlacesInv
  <2> QED BY <2>2, <2>3 DEF TypeInv
<1> QED BY <1>1, TypeStep, PTL DEF Spec

-----------------------------------------------------------------------------
(* Commits.                                                                *)

\* All routable channels of a request were handed to a producer.
Handed(n) == \A c \in Routable(n) : copies[<<n, c>>] > 0

\* What CommittedIsRouted asks for a record, the producers left aside.
Routed(o) == threw[o] >= MaxTries \/ Handed(log[o])

\* The message for the k-th channel of a request was handed over.
SentFor(n, k) ==
    /\ ChannelsOf[n][k] \in Supported
    /\ copies[<<n, ChannelsOf[n][k]>>] > 0

\* The failed tries of a record are exceptions of publish, or all that can be
\* handed over for it was.
Excused(i) == tries[i] <= threw[cursor[i]] \/ Handed(Record(i))

\* Behind the committed offset, and behind any instance that still runs, the
\* owner or not, every record is routed; of the record it is at, an instance has
\* sent the channels before the one it is at.
RoutedInv ==
    /\ \A o \in Offsets : o < committed => Routed(o)
    /\ \A i \in Instances : running[i] =>
          \A o \in Offsets : o < cursor[i] => Routed(o)
    /\ \A i \in Instances : Delivering(i) =>
          /\ \A k \in DOMAIN ChannelsOf[Record(i)] : k < next[i] => SentFor(Record(i), k)
          /\ Excused(i)

\* Whatever was handed over is stored or will be, while no send is given up and
\* no process dies.
UnderwayInv ==
    happened \cap {"sendFails", "crash"} = {} =>
        \A m \in Messages : copies[m] > 0 => Underway(m)

\* Nothing that was handed over is taken back.
LEMMA HandedStays ==
    ASSUME TypeInv, [Next]_vars, NEW n \in Notifications
    PROVE  /\ Handed(n) => Handed(n)'
           /\ \A k : SentFor(n, k) => SentFor(n, k)'
<1>1. ASSUME NEW c \in Supported, copies[<<n, c>>] > 0
      PROVE  copies'[<<n, c>>] > 0
  <2>1. PICK m \in Messages : m = <<n, c>>
    BY DEF Messages
  <2>2. copies[m] \in Nat /\ copies'[m] \in Nat /\ copies'[m] >= copies[m]
    BY BrokerStep DEF TypeInv, TypeOK
  <2> QED BY <1>1, <2>1, <2>2
<1>2. Routable(n)' = Routable(n) /\ Routable(n) \subseteq Supported
  BY DEF Routable
<1> QED BY <1>1, <1>2 DEF Handed, SentFor

LEMMA RoutedStays ==
    ASSUME TypeInv, [Next]_vars, NEW o \in Offsets, log'[o] = log[o], Routed(o)
    PROVE  Routed(o)'
<1>1. log[o] \in Notifications /\ o \in 1 .. MaxRecords /\ MaxTries \in Nat
  BY Facts, Constants DEF TypeInv, TypeOK
<1>2. CASE threw[o] >= MaxTries
  <2>1. threw[o] \in Nat /\ threw'[o] \in Nat /\ threw'[o] >= threw[o]
    BY <1>1, ThrewStep DEF TypeInv, TypeOK
  <2> QED BY <1>1, <1>2, <2>1 DEF Routed
<1>3. CASE Handed(log[o])
  <2>1. PICK n \in Notifications : n = log[o] /\ n = log'[o]
    BY <1>1
  <2>2. Handed(n)'
    BY <1>3, <2>1, HandedStays
  <2> QED BY <2>1, <2>2 DEF Routed, Handed
<1> QED BY <1>2, <1>3 DEF Routed

\* A step after which nobody is further than the records it has routed: an
\* instance that runs stands where it stood, or begins behind the committed
\* offset, or has gone on to the next record or channel, or to the next try.
Advances(i) ==
    \/ /\ running[i] /\ cursor'[i] = cursor[i]
       /\ tries'[i] = tries[i] /\ next'[i] = next[i]
    \/ cursor'[i] = committed /\ tries'[i] = 0 /\ next'[i] = 1
    \/ /\ Delivering(i) /\ cursor'[i] = cursor[i] + 1 /\ tries'[i] = 0 /\ next'[i] = 1
       /\ \E o \in Offsets : o = cursor[i] /\ Routed(o)'
    \/ /\ Delivering(i) /\ cursor'[i] = cursor[i]
       /\ Excused(i)' /\ next'[i] = 1
    \/ /\ Delivering(i) /\ cursor'[i] = cursor[i] /\ tries'[i] = tries[i]
       /\ next'[i] = next[i] + 1
       /\ \E n \in Notifications, k \in Nat : n = Record(i) /\ k = next[i] /\ SentFor(n, k)'

LEMMA RoutedKept ==
    ASSUME TypeInv, RoutedInv, [Next]_vars,
           \A o \in Offsets : o \in Offsets' /\ log'[o] = log[o],
           \/ committed' = committed
           \/ \E i \in Instances : running[i] /\ committed' = cursor[i],
           \A i \in Instances : running'[i] => Advances(i)
    PROVE  RoutedInv'
<1>a. /\ TypeInv'
      /\ \A o \in Offsets : Routed(o) => Routed(o)'
      /\ Len(log) \in Nat /\ committed \in 1 .. Len(log) + 1
      /\ \A i \in Instances : cursor[i] \in 1 .. Len(log) + 1 /\ next[i] \in Nat \ {0}
  BY RoutedStays, TypeStep, Facts
<1>1. ASSUME NEW o \in Offsets', o < committed'
      PROVE  Routed(o)'
  <2>1. o \in Offsets
    BY <1>1, <1>a
  <2> QED BY <1>1, <1>a, <2>1 DEF RoutedInv
<1>2. ASSUME NEW i \in Instances, running'[i], NEW o \in Offsets', o < cursor'[i]
      PROVE  Routed(o)'
  <2>1. CASE running[i] /\ cursor'[i] = cursor[i]
    <3>1. o \in Offsets
      BY <1>2, <1>a, <2>1
    <3> QED BY <1>2, <1>a, <2>1, <3>1 DEF RoutedInv
  <2>2. CASE cursor'[i] = committed
    <3>1. o \in Offsets
      BY <1>2, <1>a, <2>2
    <3> QED BY <1>2, <1>a, <2>2, <3>1 DEF RoutedInv
  <2>3. ASSUME Delivering(i), cursor'[i] = cursor[i] + 1,
               NEW d \in Offsets, d = cursor[i], Routed(d)'
        PROVE  Routed(o)'
    <3>1. o \in Offsets /\ (o = d \/ o < cursor[i]) /\ running[i]
      BY <1>2, <1>a, <2>3 DEF Delivering
    <3> QED BY <1>a, <2>3, <3>1 DEF RoutedInv
  <2> QED BY <1>2, <2>1, <2>2, <2>3 DEF Advances, Delivering
<1>3. ASSUME NEW i \in Instances, Delivering(i)'
      PROVE  /\ \A k \in DOMAIN ChannelsOf[Record(i)'] : k < next'[i] => SentFor(Record(i), k)'
             /\ Excused(i)'
  <2>1. /\ Record(i)' \in Notifications /\ running'[i] /\ cursor'[i] \in Offsets'
        /\ Record(i)' = log'[cursor'[i]]
        /\ cursor'[i] \in 1 .. MaxRecords
        /\ \A k \in DOMAIN ChannelsOf[Record(i)'] : k \in Nat \ {0}
    <3>1. running'[i] /\ cursor'[i] \in Offsets' /\ Record(i)' = log'[cursor'[i]]
      BY <1>3 DEF Delivering, Record
    <3>2. log' \in Seq(Notifications) /\ Len(log') <= MaxRecords /\ MaxRecords \in Nat
      BY <1>a, Constants DEF TypeInv, TypeOK
    <3>3. Record(i)' \in Notifications /\ cursor'[i] \in 1 .. MaxRecords
      BY <3>1, <3>2
    <3>4. \A k \in DOMAIN ChannelsOf[Record(i)'] : k \in Nat \ {0}
      BY <3>3, Constants
    <3> QED BY <3>1, <3>3, <3>4
  <2>2. threw'[cursor'[i]] \in Nat
    BY <2>1, ThrewStep
  <2>3. CASE next'[i] = 1 /\ tries'[i] = 0
    <3>1. Excused(i)'
      BY <2>2, <2>3 DEF Excused
    <3>2. \A k \in DOMAIN ChannelsOf[Record(i)'] : ~(k < next'[i])
      BY <2>1, <2>3
    <3> QED BY <3>1, <3>2
  <2>4. CASE Delivering(i) /\ cursor'[i] = cursor[i]
    <3>1. PICK n \in Notifications : n = Record(i) /\ n = Record(i)'
      BY <2>1, <2>4 DEF Delivering, Record
    <3>2. /\ \A k \in DOMAIN ChannelsOf[n] : k < next[i] => SentFor(n, k)
          /\ tries[i] <= threw[cursor[i]] \/ Handed(n)
      BY <2>4, <3>1 DEF RoutedInv, Excused
    <3>3. /\ \A k \in DOMAIN ChannelsOf[n] : k < next[i] => SentFor(n, k)'
          /\ Handed(n) => Handed(n)'
      BY <3>2, HandedStays
    <3>4. ASSUME tries'[i] = tries[i]
          PROVE  Excused(i)'
      <4>1. CASE tries[i] <= threw[cursor[i]]
        <5>1. /\ threw[cursor[i]] \in Nat /\ threw'[cursor[i]] \in Nat /\ tries[i] \in Nat
              /\ threw'[cursor[i]] >= threw[cursor[i]]
          BY <2>1, <2>4, ThrewStep, Facts DEF TypeInv, TypeOK
        <5> QED BY <2>4, <3>4, <4>1, <5>1 DEF Excused
      <4>2. CASE Handed(n)
        BY <3>1, <3>3, <4>2 DEF Excused, Handed
      <4> QED BY <3>2, <4>1, <4>2
    <3>5. CASE tries'[i] = tries[i] /\ next'[i] = next[i]
      BY <3>1, <3>3, <3>4, <3>5 DEF SentFor
    <3>6. CASE Excused(i)' /\ next'[i] = 1
      <4>1. \A k \in DOMAIN ChannelsOf[Record(i)'] : ~(k < next'[i])
        BY <2>1, <3>6
      <4> QED BY <3>6, <4>1
    <3>7. ASSUME tries'[i] = tries[i], next'[i] = next[i] + 1,
                 NEW m \in Notifications, m = Record(i), NEW l \in Nat, l = next[i], SentFor(m, l)'
          PROVE  \A k \in DOMAIN ChannelsOf[Record(i)'] : k < next'[i] => SentFor(Record(i), k)'
      <4>1. ASSUME NEW k \in DOMAIN ChannelsOf[n], k < next'[i]
            PROVE  SentFor(n, k)'
        <5>1. k < next[i] \/ k = l
          BY <1>a, <2>1, <3>1, <3>7, <4>1
        <5>2. CASE k < next[i]
          BY <3>3, <5>2
        <5>3. CASE k = l
          BY <3>1, <3>7, <5>3 DEF SentFor
        <5> QED BY <5>1, <5>2, <5>3
      <4> QED BY <3>1, <4>1 DEF SentFor
    <3>8. (next'[i] = 1 /\ tries'[i] = 0) \/ (tries'[i] = tries[i] /\ next'[i] = next[i])
          \/ (Excused(i)' /\ next'[i] = 1)
          \/ (/\ tries'[i] = tries[i] /\ next'[i] = next[i] + 1
              /\ \E m \in Notifications, l \in Nat : m = Record(i) /\ l = next[i] /\ SentFor(m, l)')
      BY <2>1, <2>4, <1>a DEF Advances
    <3> QED BY <2>3, <3>4, <3>5, <3>6, <3>7, <3>8
  <2>5. CASE running[i] /\ cursor'[i] = cursor[i] /\ ~Delivering(i)
                 /\ tries'[i] = tries[i] /\ next'[i] = next[i]
    <3>1. tries[i] \in Nat /\ next[i] \in Nat \ {0} /\ ~(tries[i] > 0) /\ ~(next[i] > 1)
      BY <2>5, Facts DEF TypeInv, PlacesInv
    <3>2. tries'[i] = 0 /\ next'[i] = 1
      BY <2>5, <3>1
    <3> QED BY <2>3, <3>2
  <2> QED BY <2>1, <2>3, <2>4, <2>5 DEF Advances
<1> QED BY <1>1, <1>2, <1>3 DEF RoutedInv

\* The channels before one that is not supported are all that can be routed; if
\* there is no such one, those before the end of the list.
LEMMA RoutableIsSent ==
    ASSUME TypeInv, NEW n \in Notifications, NEW m \in Nat \ {0},
           \/ m \notin DOMAIN ChannelsOf[n]
           \/ ChannelsOf[n][m] \notin Supported,
           \A k \in DOMAIN ChannelsOf[n] : k < m => SentFor(n, k)
    PROVE  Handed(n)
<1> SUFFICES ASSUME NEW c \in Routable(n) PROVE copies[<<n, c>>] > 0
  BY DEF Handed
<1>1. PICK length \in Nat \ {0} : DOMAIN ChannelsOf[n] = 1 .. length
  BY Constants
<1>2. PICK k \in DOMAIN ChannelsOf[n] :
        /\ ChannelsOf[n][k] = c
        /\ \A j \in 1 .. k : ChannelsOf[n][j] \in Supported
  BY DEF Routable
<1>3. k < m
  <2>1. CASE m \notin 1 .. length
    BY <1>1, <1>2, <2>1
  <2>2. CASE m \in 1 .. length
    <3>1. m \notin 1 .. k
      BY <1>1, <1>2, <2>2
    <3> QED BY <1>1, <1>2, <3>1
  <2> QED BY <2>1, <2>2
<1> QED BY <1>2, <1>3 DEF SentFor

\* An instance at a channel that is not supported, or behind the last one, has
\* handed over what can be.
LEMMA HandedThere ==
    ASSUME TypeInv, RoutedInv, [Next]_vars, NEW i \in Instances, Delivering(i),
           \/ next[i] \notin DOMAIN ChannelsOf[Record(i)]
           \/ Channel(i) \notin Supported
    PROVE  \E n \in Notifications : n = Record(i) /\ Handed(n) /\ Handed(n)'
<1>1. /\ Record(i) \in Notifications /\ next[i] \in Nat \ {0}
      /\ \A k \in DOMAIN ChannelsOf[Record(i)] : k < next[i] => SentFor(Record(i), k)
  BY Facts DEF RoutedInv
<1>2. Handed(Record(i))
  BY <1>1, RoutableIsSent DEF Channel
<1>3. PICK n \in Notifications : n = Record(i) /\ Handed(n)
  BY <1>1, <1>2
<1>4. Handed(n)'
  BY <1>3, HandedStays
<1> QED BY <1>3, <1>4

LEMMA RoutedStep == TypeInv /\ RoutedInv /\ [Next]_vars => RoutedInv'
<1> SUFFICES ASSUME TypeInv, RoutedInv, [Next]_vars
             PROVE  RoutedInv'
  OBVIOUS
<1>a. \A o \in Offsets : log[o] = log[o] /\ o \in Offsets
  OBVIOUS
<1>1. ASSUME NEW n \in Notifications, Request(n)
      PROVE  RoutedInv'
  <2>1. \A o \in Offsets : o \in Offsets' /\ log'[o] = log[o]
    BY <1>1, AppendElements DEF Request, Append1, TypeInv, TypeOK
  <2>2. UNCHANGED <<committed, running, cursor, tries, next>>
    BY <1>1 DEF Request, Append1
  <2> QED BY <2>1, <2>2, RoutedKept DEF Advances
<1>2. ASSUME NEW i \in Instances, RouteChannel(i)
      PROVE  RoutedInv'
  <2>1. /\ InLoop(i) /\ Delivering(i) /\ UNCHANGED consumerVars
        /\ next' = [next EXCEPT ![i] = @ + 1]
        /\ Channel(i) \in Supported /\ publish(i, Message(i))
    BY <1>2 DEF RouteChannel, InLoop
  <2>2. PICK n \in Notifications, k \in Nat : n = Record(i) /\ k = next[i]
    BY <2>1, Facts
  <2>3. SentFor(n, k)'
    <3>1. PICK m \in Messages : m = <<n, ChannelsOf[n][k]>> /\ publish(i, m)
      BY <2>1, <2>2, MessageTyped DEF Channel
    <3>2. copies[m] \in Nat /\ copies'[m] = copies[m] + 1
      BY <3>1 DEF publish, TypeInv, TypeOK
    <3>3. copies'[m] > 0
      BY <3>2
    <3> QED BY <2>1, <2>2, <3>1, <3>3 DEF SentFor, Channel
  <2>4. \A j \in Instances : next'[j] = IF j = i THEN next[i] + 1 ELSE next[j]
    BY <2>1 DEF TypeInv, TypeOK
  <2>5. Advances(i)
    BY <2>1, <2>2, <2>3, <2>4 DEF Advances
  <2>6. ASSUME NEW j \in Instances, running'[j]
        PROVE  Advances(j)
    <3>1. CASE j = i
      BY <2>5, <3>1
    <3>2. CASE j # i
      BY <2>1, <2>4, <2>6, <3>2 DEF Advances
    <3> QED BY <3>1, <3>2
  <2> QED BY <1>a, <2>1, <2>6, RoutedKept
<1>3. ASSUME NEW i \in Instances, Delivering(i), Throw(i), next' = [next EXCEPT ![i] = 1],
             NEW o \in Offsets, o = cursor[i],
             \/ threw'[o] = threw[o] + 1
             \/ \E n \in Notifications : n = Record(i) /\ Handed(n) /\ Handed(n)'
      PROVE  RoutedInv'
  <2>1. /\ log' = log /\ committed' = committed
        /\ \A j \in Instances : j # i => /\ running'[j] = running[j]
                                       /\ cursor'[j] = cursor[j]
                                       /\ tries'[j] = tries[j]
        /\ \/ running' = running /\ cursor' = cursor /\ tries'[i] = tries[i] + 1
           \/ running' = running /\ cursor'[i] = cursor[i] + 1 /\ tries'[i] = 0
           \/ ~running'[i]
    BY <1>3, ThrowTyped
  <2>2. next'[i] = 1 /\ \A j \in Instances : j # i => next'[j] = next[j]
    BY <1>3 DEF TypeInv, TypeOK
  <2>3. /\ Record(i) = log[o] /\ o \in 1 .. MaxRecords
        /\ tries[i] \in Nat /\ tries[i] \in 0 .. MaxTries - 1 /\ MaxTries \in Nat \ {0}
        /\ threw[o] \in Nat /\ threw'[o] \in Nat /\ threw'[o] >= threw[o]
        /\ tries[i] <= threw[o] \/ Handed(log[o])
    <3>1. Record(i) = log[o] /\ o \in 1 .. MaxRecords /\ tries[i] \in 0 .. MaxTries - 1
      BY <1>3, Facts, RecordsBounded
    <3>2. threw[o] \in Nat /\ threw'[o] \in Nat /\ threw'[o] >= threw[o]
      BY <3>1, ThrewStep DEF TypeInv, TypeOK
    <3>3. tries[i] <= threw[o] \/ Handed(log[o])
      BY <1>3, <3>1 DEF RoutedInv, Excused
    <3> QED BY <1>3, <3>1, <3>2, <3>3, Facts, Constants
  <2>4. tries[i] + 1 <= threw'[o] \/ Handed(log[o])'
    <3>1. log[o] \in Notifications
      BY <1>3, <2>3, Facts
    <3>2. PICK n \in Notifications : n = log[o]
      BY <3>1
    <3>3. CASE Handed(n)
      BY <2>1, <3>2, <3>3, HandedStays DEF Handed
    <3>4. CASE ~Handed(n)
      BY <1>3, <2>3, <3>2, <3>4
    <3> QED BY <3>3, <3>4
  <2>5. ASSUME running'[i]
        PROVE  Advances(i)
    <3>1. CASE cursor' = cursor /\ tries'[i] = tries[i] + 1
      <4>1. Excused(i)'
        BY <1>3, <2>1, <2>3, <2>4, <3>1 DEF Excused, Record
      <4> QED BY <1>3, <2>2, <3>1, <4>1 DEF Advances
    <3>2. CASE running' = running /\ cursor'[i] = cursor[i] + 1 /\ tries'[i] = 0
      <4>1. Routed(o)'
        <5>1. owner = i /\ tries[i] + 1 = MaxTries
          <6>1. cursor[i] \in Nat /\ tries[i] \in 0 .. MaxTries - 1
            BY Facts
          <6>2. cursor' # cursor
            BY <3>2, <6>1
          <6> QED BY <1>3, <6>2 DEF Throw
        <5> QED BY <2>1, <2>3, <2>4, <5>1 DEF Routed, Handed
      <4> QED BY <1>3, <2>2, <3>2, <4>1 DEF Advances
    <3> QED BY <2>1, <2>5, <3>1, <3>2
  <2>6. ASSUME NEW j \in Instances, running'[j]
        PROVE  Advances(j)
    <3>1. CASE j = i
      BY <2>5, <2>6, <3>1
    <3>2. CASE j # i
      BY <2>1, <2>2, <2>6, <3>2 DEF Advances
    <3> QED BY <3>1, <3>2
  <2> QED BY <1>a, <2>1, <2>6, RoutedKept
<1>4. ASSUME NEW i \in Instances, PublishThrows(i)
      PROVE  RoutedInv'
  <2>1. /\ Delivering(i) /\ Throw(i) /\ next' = [next EXCEPT ![i] = 1]
        /\ threw' = [threw EXCEPT ![cursor[i]] = @ + 1]
    BY <1>4 DEF PublishThrows, InLoop
  <2>2. PICK o \in Offsets : o = cursor[i]
    BY <2>1, Facts
  <2>3. threw \in [1 .. MaxRecords -> Nat] /\ o \in 1 .. MaxRecords
    BY RecordsBounded DEF TypeInv, TypeOK
  <2>4. threw'[o] = threw[o] + 1
    BY <2>1, <2>2, <2>3
  <2> QED BY <1>3, <2>1, <2>2, <2>4
<1>5. ASSUME NEW i \in Instances, RejectChannel(i)
      PROVE  RoutedInv'
  <2>1. /\ Delivering(i) /\ Throw(i) /\ next' = [next EXCEPT ![i] = 1]
        /\ Channel(i) \notin Supported
    BY <1>5 DEF RejectChannel, InLoop
  <2>2. PICK o \in Offsets : o = cursor[i]
    BY <2>1, Facts
  <2>3. \E n \in Notifications : n = Record(i) /\ Handed(n) /\ Handed(n)'
    BY <2>1, HandedThere
  <2> QED BY <1>3, <2>1, <2>2, <2>3
<1>6. ASSUME NEW i \in Instances, FinishRequest(i)
      PROVE  RoutedInv'
  <2>1. /\ Delivering(i) /\ next[i] \notin DOMAIN ChannelsOf[Record(i)] /\ Succeed(i)
        /\ next' = [next EXCEPT ![i] = 1]
    BY <1>6 DEF FinishRequest, InLoop
  <2>2. next'[i] = 1 /\ \A j \in Instances : j # i => next'[j] = next[j]
    BY <2>1 DEF TypeInv, TypeOK
  <2>3. /\ log' = log /\ committed' = committed /\ running' = running
        /\ cursor'[i] = cursor[i] + 1 /\ tries'[i] = 0
        /\ \A j \in Instances : j # i => cursor'[j] = cursor[j] /\ tries'[j] = tries[j]
    BY <2>1, SucceedTyped
  <2>4. PICK o \in Offsets : o = cursor[i] /\ Record(i) = log[o]
    BY <2>1, Facts
  <2>5. Routed(o)'
    BY <2>1, <2>3, <2>4, HandedThere DEF Routed, Handed
  <2>6. Advances(i)
    BY <2>1, <2>2, <2>3, <2>4, <2>5 DEF Advances
  <2>7. ASSUME NEW j \in Instances, running'[j]
        PROVE  Advances(j)
    <3>1. CASE j = i
      BY <2>6, <3>1
    <3>2. CASE j # i
      BY <2>2, <2>3, <2>7, <3>2 DEF Advances
    <3> QED BY <3>1, <3>2
  <2> QED BY <1>a, <2>3, <2>7, RoutedKept
<1>7. ASSUME NEW i \in Instances, Commit(i)
      PROVE  RoutedInv'
  <2>1. /\ UNCHANGED <<log, running, cursor, tries, next>>
        /\ running[i] /\ committed' = cursor[i]
    BY <1>7 DEF Commit, CommitOffset
  <2> QED BY <1>a, <2>1, RoutedKept DEF Advances
<1>8. ASSUME NEW i \in Instances, Restart(i) \/ TakeOver(i)
      PROVE  RoutedInv'
  <2>1. Starts(i) /\ UNCHANGED next
    BY <1>8 DEF Restart, Assign, TakeOver, Rebalance
  <2>2. /\ log' = log /\ committed' = committed
        /\ cursor'[i] = committed /\ tries'[i] = 0 /\ next[i] = 1
        /\ \A j \in Instances : j # i => /\ running'[j] = running[j] /\ cursor'[j] = cursor[j]
                                       /\ tries'[j] = tries[j]
    BY <2>1, StartsTyped
  <2>3. \A j \in Instances : running'[j] => Advances(j)
    BY <2>1, <2>2 DEF Advances
  <2> QED BY <1>a, <2>2, <2>3, RoutedKept
<1>9. ASSUME NEW i \in Instances, Stop(i) \/ Crash(i)
      PROVE  RoutedInv'
  <2>1. \A j \in Instances : j # i => next'[j] = next[j]
    BY <1>9 DEF Stop, Crash, TypeInv, TypeOK
  <2>2. Leave(i) \/ (~running[i] /\ UNCHANGED readerVars)
    BY <1>9 DEF Stop, LosePartition, Crash, Die
  <2>3. /\ log' = log /\ committed' = committed /\ cursor' = cursor /\ ~running'[i]
        /\ \A j \in Instances : j # i => running'[j] = running[j] /\ tries'[j] = tries[j]
    BY <2>2, LeaveTyped
  <2>4. \A j \in Instances : running'[j] => Advances(j)
    BY <2>1, <2>3 DEF Advances
  <2> QED BY <1>a, <2>3, <2>4, RoutedKept
<1>10. ASSUME NEW i \in Instances, NEW m \in Messages,
              Store(i, m) \/ StoreUnanswered(i, m) \/ SendFails(i, m)
       PROVE  RoutedInv'
  <2>1. UNCHANGED <<log, committed, running, cursor, tries, next>>
    BY <1>10 DEF Store, StoreUnanswered, SendFails
  <2> QED BY <1>a, <2>1, RoutedKept DEF Advances
<1>11. CASE UNCHANGED vars
  <2>1. UNCHANGED <<log, committed, running, cursor, tries, next>>
    BY <1>11 DEF vars
  <2> QED BY <1>a, <2>1, RoutedKept DEF Advances
<1> QED BY <1>1, <1>2, <1>4, <1>5, <1>6, <1>7, <1>8, <1>9, <1>10, <1>11 DEF Next, Route

\* A producer passes on what it has, unless it gives up or dies.
LEMMA UnderwayStep == TypeInv /\ UnderwayInv /\ [Next]_vars => UnderwayInv'
<1> SUFFICES ASSUME TypeInv, UnderwayInv, [Next]_vars,
                    happened' \cap {"sendFails", "crash"} = {},
                    NEW m \in Messages, copies'[m] > 0
             PROVE  Underway(m)'
  BY DEF UnderwayInv
<1>a. inFlight \in [Instances -> [Messages -> Nat]] /\ copies \in [Messages -> Nat]
  BY DEF TypeInv, TypeOK
<1>b. happened \subseteq happened' => (copies[m] > 0 => Underway(m))
  BY DEF UnderwayInv
<1>1. CASE UNCHANGED <<happened, brokerVars>>
  BY <1>b, <1>1 DEF brokerVars, Underway
<1>2. ASSUME NEW i \in Instances, RouteChannel(i)
      PROVE  Underway(m)'
  <2>1. PICK d \in Messages : publish(i, d)
    BY <1>2, MessageTyped DEF RouteChannel
  <2>2. /\ inFlight' = [inFlight EXCEPT ![i][d] = inFlight[i][d] + 1] /\ stored' = stored
        /\ copies' = [copies EXCEPT ![d] = @ + 1] /\ inFlight[i][d] + 1 \in Nat
    BY <1>a, <2>1 DEF publish
  <2>3. /\ inFlight'[i][d] = inFlight[i][d] + 1 /\ inFlight[i][d] \in Nat
        /\ \A j \in Instances, e \in Messages :
              j # i \/ e # d => inFlight'[j][e] = inFlight[j][e]
    BY <1>a, <2>2, TableChanged
  <2>4. CASE m = d
    <3>1. inFlight'[i][m] > 0
      BY <2>3, <2>4
    <3> QED BY <3>1 DEF Underway
  <2>5. CASE m # d
    <3>1. copies[m] > 0 /\ happened' = happened
      BY <1>2, <1>a, <2>2, <2>5 DEF RouteChannel
    <3> QED BY <1>b, <2>2, <2>3, <2>5, <3>1 DEF Underway
  <2> QED BY <2>4, <2>5
<1>3. ASSUME NEW i \in Instances, NEW d \in Messages, Store(i, d)
      PROVE  Underway(m)'
  <2>1. /\ inFlight' = [inFlight EXCEPT ![i][d] = inFlight[i][d] - 1] /\ inFlight[i][d] - 1 \in Nat
        /\ stored' = stored \cup {d} /\ copies' = copies /\ happened' = happened
    BY <1>3, <1>a DEF Store
  <2>2. \A j \in Instances, e \in Messages :
           j # i \/ e # d => inFlight'[j][e] = inFlight[j][e]
    BY <1>a, <2>1, TableChanged
  <2> QED BY <1>b, <2>1, <2>2 DEF Underway
<1>4. ASSUME NEW i \in Instances, NEW d \in Messages, StoreUnanswered(i, d)
      PROVE  Underway(m)'
  <2>1. /\ inFlight' = inFlight /\ stored' = stored \cup {d} /\ happened \subseteq happened'
        /\ copies' = [copies EXCEPT ![d] = @ + 1]
    BY <1>4, FaultCounted DEF StoreUnanswered
  <2>2. CASE m = d
    BY <2>1, <2>2 DEF Underway
  <2>3. CASE m # d
    <3>1. copies[m] > 0
      BY <1>a, <2>1, <2>3
    <3> QED BY <1>b, <2>1, <3>1 DEF Underway
  <2> QED BY <2>2, <2>3
<1>5. ASSUME NEW i \in Instances, NEW d \in Messages, SendFails(i, d)
      PROVE  FALSE
  BY <1>5, FaultCounted DEF SendFails
<1>6. ASSUME NEW i \in Instances, Crash(i)
      PROVE  FALSE
  BY <1>6, FaultCounted DEF Crash, Die
<1>7. ASSUME NEW i \in Instances, PublishThrows(i) \/ TakeOver(i)
      PROVE  Underway(m)'
  <2>1. happened \subseteq happened' /\ UNCHANGED brokerVars
    BY <1>7, FaultCounted DEF PublishThrows, TakeOver, Rebalance
  <2> QED BY <1>b, <2>1 DEF brokerVars, Underway
<1>8. CASE \E n \in Notifications : Request(n)
  BY <1>1, <1>8 DEF Request, Append1
<1>9. CASE \E i \in Instances : RejectChannel(i) \/ FinishRequest(i)
  BY <1>1, <1>9 DEF RejectChannel, FinishRequest
<1>10. CASE \E i \in Instances : Commit(i) \/ Restart(i) \/ Stop(i)
  BY <1>1, <1>10 DEF Commit, CommitOffset, Restart, Assign, Stop, LosePartition
<1>11. CASE UNCHANGED vars
  BY <1>1, <1>11 DEF vars
<1> QED BY <1>2, <1>3, <1>4, <1>5, <1>6, <1>7, <1>8, <1>9, <1>10, <1>11 DEF Next, Route

\* The offset of a request is committed only after all of its routable channels'
\* messages were handed to a producer, whatever crashes, take-overs and rejected
\* requests there were, unless publish threw MaxTries times at it; while no send
\* is given up and no process dies, they are stored or will be.
THEOREM CommitsAreRouted == Spec => []CommittedIsRouted
<1>1. Init => RoutedInv /\ UnderwayInv
  BY DEF Init, ConsumerInit, RoutedInv, UnderwayInv, Delivering
<1>2. TypeInv /\ RoutedInv /\ UnderwayInv /\ [Next]_vars => RoutedInv' /\ UnderwayInv'
  BY RoutedStep, UnderwayStep
<1>3. TypeInv /\ RoutedInv /\ UnderwayInv => CommittedIsRouted
  <2> SUFFICES ASSUME TypeInv, RoutedInv, UnderwayInv,
                      NEW o \in Offsets, o < committed, Handed(log[o]),
                      NEW c \in Routable(log[o])
               PROVE  /\ copies[<<log[o], c>>] > 0
                      /\ happened \cap {"sendFails", "crash"} = {} => Underway(<<log[o], c>>)
    BY DEF RoutedInv, CommittedIsRouted, Routed
  <2>1. <<log[o], c>> \in Messages
    BY Facts DEF Messages, Routable
  <2>2. copies[<<log[o], c>>] > 0
    BY DEF Handed
  <2> QED BY <2>1, <2>2 DEF UnderwayInv
<1> QED BY <1>1, <1>2, <1>3, TypeCorrect, PTL DEF Spec

-----------------------------------------------------------------------------
(* Duplicates.                                                             *)
(*                                                                         *)
(* Every copy of a message is charged to a position in the channels of a   *)
(* record, a token and a try, no two to the same.  There is one token to   *)
(* begin with and one more for every fault.  An instance at work holds a   *)
(* token of its own, with which it goes once through the positions of a    *)
(* record in each try of it; who starts gets the token of the fault that   *)
(* made room for it, or the first one.                                     *)

Charges == (Offsets \X Nat) \X ((0 .. faults) \X (0 .. MaxTries - 1))
Place(p) == p[1][1]
Position(p) == p[1][2]
Token(p) == p[2][1]
Try(p) == p[2][2]

\* The try an instance is in: of a request that can be routed, every try after the
\* first is a fault's, and gets a token for it.
TryOf(i) == IF Acceptable(Record(i)) THEN 0 ELSE tries[i]

\* Every copy is charged, and only requests that cannot be routed to a second
\* try.
ChargedTo(S, n, c) ==
    {p \in S : /\ log[Place(p)] = n
               /\ Position(p) \in DOMAIN ChannelsOf[n] /\ ChannelsOf[n][Position(p)] = c}
Paid(S) ==
    /\ \A n \in Notifications, c \in Supported :
          copies[<<n, c>>] <= Cardinality(ChargedTo(S, n, c))
    /\ \A p \in S : Acceptable(log[Place(p)]) => Try(p) = 0

\* No token is held twice.
Apart(token) ==
    \A i, j \in Instances : running[i] /\ running[j] /\ i # j => token[i] # token[j]

\* What an instance has still to send is not charged to its token and try.
Done(p, i) ==
    \/ Place(p) < cursor[i]
    \/ Place(p) = cursor[i] /\ Try(p) < TryOf(i)
    \/ Place(p) = cursor[i] /\ Try(p) = TryOf(i) /\ Position(p) < next[i]
Ahead(S, token) ==
    \A i \in Instances : running[i] => \A p \in S : Token(p) = token[i] => Done(p, i)

\* When the owner is gone, there is an unused token for the next one.
Unused(S, token, t) ==
    /\ \A p \in S : Token(p) # t
    /\ \A i \in Instances : running[i] => token[i] # t
Spare(S, token) == ~running[owner] => \E t \in 0 .. faults : Unused(S, token, t)

Charged(S, token) == Paid(S) /\ Apart(token) /\ Ahead(S, token) /\ Spare(S, token)

ChargeInv ==
    \E S \in SUBSET Charges : \E token \in [Instances -> 0 .. faults] : Charged(S, token)

LEMMA ChargeParts ==
    ASSUME TypeInv, NEW p \in Charges
    PROVE  /\ Place(p) \in Offsets /\ Place(p) \in Nat /\ Position(p) \in Nat
           /\ Token(p) \in 0 .. faults /\ Try(p) \in 0 .. MaxTries - 1 /\ Try(p) \in Nat
BY Constants, Facts DEF Charges, Place, Position, Token, Try

\* There are no more charges for a channel of a notification than times it is
\* named, times copies of the request, times tokens, times tries.
LEMMA ChargesAreBounded ==
    ASSUME TypeInv, NEW S \in SUBSET Charges, Paid(S), NEW n \in Notifications, NEW c
    PROVE  /\ IsFiniteSet(ChargedTo(S, n, c)) /\ Cardinality(ChargedTo(S, n, c)) \in Nat
           /\ Cardinality(ChargedTo(S, n, c)) <=
                  TimesNamed(n, c) * Requests(n) * (1 + faults)
                      * (IF Acceptable(n) THEN 1 ELSE MaxTries)
           /\ TimesNamed(n, c) * Requests(n) * (1 + faults)
                  * (IF Acceptable(n) THEN 1 ELSE MaxTries) \in Nat
<1> DEFINE Os == {o \in Offsets : log[o] = n}
           Ks == {k \in DOMAIN ChannelsOf[n] : ChannelsOf[n][k] = c}
           Ts == 0 .. faults
           As == IF Acceptable(n) THEN 0 .. 0 ELSE 0 .. MaxTries - 1
<1>1. IsFiniteSet(Os) /\ Cardinality(Os) \in Nat
  <2>1. Len(log) \in Int
    BY Facts
  <2>2. IsFiniteSet(Offsets)
    BY <2>1, FS_Interval
  <2> QED BY <2>2, FS_Subset, FS_CardinalityType
<1>2. IsFiniteSet(Ks) /\ Cardinality(Ks) \in Nat
  <2>1. IsFiniteSet(DOMAIN ChannelsOf[n])
    BY Constants, FS_Interval
  <2> QED BY <2>1, FS_Subset, FS_CardinalityType
<1>3. IsFiniteSet(Ts) /\ Cardinality(Ts) = 1 + faults /\ faults \in Nat
  BY Facts, FS_Interval
<1>4. /\ IsFiniteSet(As)
      /\ Cardinality(As) = IF Acceptable(n) THEN 1 ELSE MaxTries
      /\ Cardinality(As) \in Nat
  <2>1. CASE Acceptable(n)
    <3>1. IsFiniteSet(0 .. 0) /\ Cardinality(0 .. 0) = 1
      <4>1. 0 .. 0 = {0}
        OBVIOUS
      <4>2. IsFiniteSet({0}) /\ Cardinality({0}) = 1
        BY FS_Singleton
      <4> QED BY <4>1, <4>2
    <3> QED BY <2>1, <3>1
  <2>2. CASE ~Acceptable(n)
    <3>1. MaxTries \in Nat \ {0}
      BY Constants
    <3>2. IsFiniteSet(0 .. MaxTries - 1) /\ Cardinality(0 .. MaxTries - 1) = MaxTries
      BY <3>1, FS_Interval
    <3> QED BY <2>2, <3>1, <3>2
  <2> QED BY <2>1, <2>2
<1> HIDE DEF Os, Ks, Ts, As
<1>5. /\ IsFiniteSet(Os \X Ks) /\ Cardinality(Os \X Ks) = Cardinality(Os) * Cardinality(Ks)
      /\ IsFiniteSet(Ts \X As) /\ Cardinality(Ts \X As) = (1 + faults) * Cardinality(As)
  BY <1>1, <1>2, <1>3, <1>4, FS_Product
<1>6. /\ IsFiniteSet((Os \X Ks) \X (Ts \X As))
      /\ Cardinality((Os \X Ks) \X (Ts \X As))
            = (Cardinality(Os) * Cardinality(Ks)) * ((1 + faults) * Cardinality(As))
  BY <1>5, FS_Product
<1>7. ChargedTo(S, n, c) \subseteq (Os \X Ks) \X (Ts \X As)
  <2> SUFFICES ASSUME NEW p \in ChargedTo(S, n, c)
               PROVE  p \in (Os \X Ks) \X (Ts \X As)
    OBVIOUS
  <2>1. p \in Charges /\ p \in S
    BY DEF ChargedTo
  <2>2. p = <<<<Place(p), Position(p)>>, <<Token(p), Try(p)>>>>
    BY <2>1 DEF Charges, Place, Position, Token, Try
  <2>3. Place(p) \in Os /\ Position(p) \in Ks
    BY <2>1, ChargeParts DEF ChargedTo, Os, Ks
  <2>4. Token(p) \in Ts
    BY <2>1, ChargeParts DEF Ts
  <2>5. Try(p) \in As
    <3>1. Acceptable(n) => Try(p) = 0
      BY <2>1 DEF Paid, ChargedTo
    <3>2. Try(p) \in 0 .. MaxTries - 1
      BY <2>1, ChargeParts
    <3> QED BY <3>1, <3>2 DEF As
  <2> QED BY <2>2, <2>3, <2>4, <2>5
<1>8. /\ IsFiniteSet(ChargedTo(S, n, c)) /\ Cardinality(ChargedTo(S, n, c)) \in Nat
      /\ Cardinality(ChargedTo(S, n, c)) <= Cardinality((Os \X Ks) \X (Ts \X As))
  BY <1>6, <1>7, FS_Subset, FS_CardinalityType
<1>9. TimesNamed(n, c) = Cardinality(Ks) /\ Requests(n) = Cardinality(Os)
  BY DEF TimesNamed, Requests, Os, Ks
<1>10. PICK o \in Nat, k \in Nat, a \in Nat :
          o = Cardinality(Os) /\ k = Cardinality(Ks) /\ a = Cardinality(As)
  BY <1>1, <1>2, <1>4
<1>11. k * o * (1 + faults) * a = (o * k) * ((1 + faults) * a)
  BY <1>3
<1>12. k * o * (1 + faults) * a \in Nat
  BY <1>3
<1> QED BY <1>4, <1>6, <1>8, <1>9, <1>10, <1>11, <1>12

\* Charges stay while their records stay, and pay for what they paid for.
LEMMA PaidKept ==
    ASSUME NEW S, Paid(S), copies' = copies,
           \A p \in S : log'[Place(p)] = log[Place(p)]
    PROVE  Paid(S)'
<1>1. ASSUME NEW n, NEW c PROVE ChargedTo(S, n, c)' = ChargedTo(S, n, c)
  BY DEF ChargedTo, Place, Position
<1> QED BY <1>1 DEF Paid, Acceptable, Place, Try

\* A copy more, a charge more.
LEMMA PaidMore ==
    ASSUME TypeInv, NEW S \in SUBSET Charges, Paid(S), NEW p, p \notin S, log' = log,
           NEW n \in Notifications, NEW c \in Supported,
           log[Place(p)] = n, Position(p) \in DOMAIN ChannelsOf[n],
           ChannelsOf[n][Position(p)] = c,
           Acceptable(n) => Try(p) = 0,
           copies' = [copies EXCEPT ![<<n, c>>] = @ + 1]
    PROVE  Paid(S \cup {p})'
<1>1. PICK T : T = S \cup {p}
  OBVIOUS
<1>2. ASSUME NEW o \in Notifications, NEW d \in Supported
      PROVE  copies'[<<o, d>>] <= Cardinality(ChargedTo(T, o, d)')
  <2>1. /\ IsFiniteSet(ChargedTo(S, o, d)) /\ Cardinality(ChargedTo(S, o, d)) \in Nat
        /\ copies[<<o, d>>] <= Cardinality(ChargedTo(S, o, d)) /\ copies[<<o, d>>] \in Nat
        /\ <<o, d>> \in Messages /\ <<n, c>> \in Messages
    <3>1. IsFiniteSet(ChargedTo(S, o, d)) /\ Cardinality(ChargedTo(S, o, d)) \in Nat
      BY ChargesAreBounded
    <3>2. copies[<<o, d>>] <= Cardinality(ChargedTo(S, o, d))
      BY DEF Paid
    <3>3. <<o, d>> \in Messages /\ <<n, c>> \in Messages
      BY DEF Messages
    <3> QED BY <3>1, <3>2, <3>3 DEF TypeInv, TypeOK
  <2>2. ChargedTo(T, o, d)' = ChargedTo(T, o, d)
    BY DEF ChargedTo, Place, Position
  <2>3. CASE o = n /\ d = c
    <3>1. ChargedTo(T, o, d) = ChargedTo(S, o, d) \cup {p} /\ p \notin ChargedTo(S, o, d)
      BY <1>1, <2>3 DEF ChargedTo
    <3>2. Cardinality(ChargedTo(T, o, d)) = Cardinality(ChargedTo(S, o, d)) + 1
      BY <2>1, <3>1, FS_AddElement
    <3>3. copies'[<<o, d>>] = copies[<<o, d>>] + 1
      BY <2>1, <2>3 DEF TypeInv, TypeOK
    <3> QED BY <2>1, <2>2, <3>2, <3>3
  <2>4. CASE o # n \/ d # c
    <3>1. ChargedTo(T, o, d) = ChargedTo(S, o, d)
      BY <1>1, <2>4 DEF ChargedTo
    <3>2. <<o, d>> # <<n, c>>
      BY <2>4
    <3>3. copies'[<<o, d>>] = copies[<<o, d>>]
      BY <2>1, <3>2 DEF TypeInv, TypeOK
    <3> QED BY <2>1, <2>2, <3>1, <3>3
  <2> QED BY <2>3, <2>4
<1>3. \A q \in T : Acceptable(log[Place(q)]) => Try(q) = 0
  BY <1>1 DEF Paid
<1>4. Paid(T)'
  BY <1>2, <1>3 DEF Paid, Acceptable, Place, Try
<1> QED BY <1>1, <1>4

\* The container, and the ends of deliveries: whoever goes on has passed the
\* record or is at a later try of it, or stands where it stood.
LEMMA ChargeKept ==
    ASSUME TypeInv, NEW S \in SUBSET Charges, NEW token \in [Instances -> 0 .. faults],
           Charged(S, token),
           copies' = copies, log' = log, faults' = faults, owner' = owner,
           running[owner] => running'[owner],
           \A i \in Instances : running'[i] =>
               /\ running[i]
               /\ \/ cursor'[i] = cursor[i] + 1
                  \/ /\ cursor'[i] = cursor[i] /\ tries'[i] = tries[i] + 1
                     /\ ~Acceptable(Record(i))
                  \/ cursor'[i] = cursor[i] /\ tries'[i] = tries[i] /\ next'[i] = next[i]
    PROVE  ChargeInv'
<1>1. Charges' = Charges
  BY DEF Charges
<1>2. Paid(S)'
  BY PaidKept DEF Charged
<1>3. Apart(token)'
  BY DEF Charged, Apart
<1>4. Ahead(S, token)'
  <2> SUFFICES ASSUME NEW i \in Instances, running'[i], NEW p \in S, Token(p) = token[i]
               PROVE  Done(p, i)'
    BY DEF Ahead, Token
  <2>1. Done(p, i)
    BY DEF Charged, Ahead
  <2>2. Place(p) \in Nat /\ Try(p) \in Nat /\ cursor[i] \in Nat /\ tries[i] \in Nat
    BY ChargeParts, Facts
  <2>3. Place(p)' = Place(p) /\ Position(p)' = Position(p) /\ Try(p)' = Try(p)
    BY DEF Place, Position, Try
  <2>4. cursor'[i] = cursor[i] =>
            TryOf(i)' = IF Acceptable(Record(i)) THEN 0 ELSE tries'[i]
    BY DEF TryOf, Acceptable, Record
  <2>5. CASE cursor'[i] = cursor[i] + 1
    BY <2>1, <2>2, <2>3, <2>5 DEF Done
  <2>6. CASE cursor'[i] = cursor[i] /\ tries'[i] = tries[i] + 1 /\ ~Acceptable(Record(i))
    BY <2>1, <2>2, <2>3, <2>4, <2>6 DEF Done, TryOf
  <2>7. CASE cursor'[i] = cursor[i] /\ tries'[i] = tries[i] /\ next'[i] = next[i]
    BY <2>1, <2>3, <2>4, <2>7 DEF Done, TryOf
  <2> QED BY <2>5, <2>6, <2>7
<1>5. Spare(S, token)'
  BY DEF Charged, Spare, Unused, Token
<1> QED BY <1>1, <1>2, <1>3, <1>4, <1>5 DEF ChargeInv, Charged

\* Faults: whatever one makes instance i do, i has a new token for it.
LEMMA FreshToken ==
    ASSUME TypeInv, NEW S \in SUBSET Charges, NEW token \in [Instances -> 0 .. faults],
           Charged(S, token), NEW i \in Instances,
           copies' = copies, log' = log, faults' = faults + 1, owner' \in {owner, i},
           \A j \in Instances : j # i =>
               /\ running'[j] = running[j] /\ cursor'[j] = cursor[j]
               /\ tries'[j] = tries[j] /\ next'[j] = next[j]
    PROVE  ChargeInv'
<1>1. faults \in Nat /\ owner \in Instances
  BY Facts
<1>2. Charges \subseteq Charges' /\ \A p \in S : Token(p) \in 0 .. faults
  BY <1>1, ChargeParts DEF Charges
<1>3. PICK held : held = [token EXCEPT ![i] = faults + 1]
  OBVIOUS
<1>4. /\ held \in [Instances -> 0 .. faults']
      /\ held[i] = faults + 1
      /\ \A j \in Instances : j # i => held[j] = token[j] /\ held[j] \in 0 .. faults
  BY <1>1, <1>3
<1>5. \A t \in 0 .. faults : t # faults + 1
  BY <1>1
<1>6. Paid(S)' /\ Apart(held)'
  BY <1>4, <1>5, PaidKept DEF Charged, Apart
<1>7. Ahead(S, held)'
  <2> SUFFICES ASSUME NEW j \in Instances, running'[j], NEW p \in S, Token(p) = held[j]
               PROVE  Done(p, j)'
    BY DEF Ahead, Token
  <2>1. j # i
    BY <1>2, <1>4, <1>5
  <2>2. running[j] /\ Token(p) = token[j]
    BY <1>4, <2>1
  <2>3. Done(p, j)
    BY <2>2 DEF Charged, Ahead
  <2> QED BY <2>1, <2>3 DEF Done, TryOf, Acceptable, Record, Place, Position, Try
<1>8. Spare(S, held)'
  <2> SUFFICES ASSUME ~running'[owner']
               PROVE  \E t \in 0 .. faults' : Unused(S, held, t)'
    BY DEF Spare
  <2>1. CASE ~running'[i]
    <3>1. PICK t : t = faults + 1
      OBVIOUS
    <3>2. t \in 0 .. faults' /\ \A p \in S : Token(p) # t
      BY <1>1, <1>2, <1>5, <3>1
    <3>3. \A j \in Instances : running'[j] => held[j] # t
      BY <1>4, <1>5, <2>1, <3>1
    <3>4. Unused(S, held, t)'
      BY <3>2, <3>3 DEF Unused, Token
    <3> QED BY <3>2, <3>4
  <2>2. CASE running'[i]
    <3>1. owner' = owner /\ owner # i /\ ~running[owner]
      BY <1>1, <2>2
    <3>2. PICK t \in 0 .. faults : Unused(S, token, t)
      BY <3>1 DEF Charged, Spare
    <3>3. \A j \in Instances : running'[j] => held[j] # t
      BY <1>4, <1>5, <3>2 DEF Unused
    <3>4. Unused(S, held, t)' /\ t \in 0 .. faults'
      BY <1>1, <3>2, <3>3 DEF Unused, Token
    <3> QED BY <3>4
  <2> QED BY <2>1, <2>2
<1> QED BY <1>2, <1>4, <1>6, <1>7, <1>8 DEF ChargeInv, Charged

LEMMA ChargeStep ==
    ASSUME TypeInv, NEW S \in SUBSET Charges, NEW token \in [Instances -> 0 .. faults],
           Charged(S, token), [Next]_vars
    PROVE  ChargeInv'
<1>a. \A i \in Instances : next[i] \in Nat
  BY DEF TypeInv, TypeOK
<1>1. ASSUME NEW n \in Notifications, Request(n)
      PROVE  ChargeInv'
  <2>1. /\ Len(log) \in Nat /\ Len(log') = Len(log) + 1 /\ \A o \in Offsets : log'[o] = log[o]
        /\ UNCHANGED <<owner, running, cursor, tries, faults, next, copies>>
    BY <1>1, AppendElements DEF Request, Append1, brokerVars, TypeInv, TypeOK
  <2>2. S \in SUBSET Charges' /\ token \in [Instances -> 0 .. faults']
    <3>1. Offsets \subseteq Offsets'
      BY <2>1
    <3>2. Charges \subseteq Charges'
      BY <2>1, <3>1 DEF Charges
    <3> QED BY <2>1, <3>2
  <2>3. Paid(S)'
    BY <2>1, ChargeParts, PaidKept DEF Charged
  <2>4. Ahead(S, token)'
    <3> SUFFICES ASSUME NEW i \in Instances, running'[i], NEW p \in S, Token(p) = token[i]
                 PROVE  Done(p, i)'
      BY DEF Ahead, Token
    <3>1. Done(p, i) /\ Place(p) \in Offsets
      BY <2>1, ChargeParts DEF Charged, Ahead
    <3>2. Place(p) = cursor[i] => TryOf(i)' = TryOf(i)
      BY <2>1, <3>1 DEF TryOf, Acceptable, Record
    <3> QED BY <2>1, <3>1, <3>2 DEF Done, Place, Position, Try
  <2>5. Apart(token)' /\ Spare(S, token)'
    BY <2>1 DEF Charged, Apart, Token, Spare, Unused
  <2> QED BY <2>2, <2>3, <2>4, <2>5 DEF ChargeInv, Charged
<1>2. ASSUME NEW i \in Instances, RouteChannel(i)
      PROVE  ChargeInv'
  <2>1. /\ InLoop(i) /\ UNCHANGED consumerVars /\ next' = [next EXCEPT ![i] = @ + 1]
        /\ Channel(i) \in Supported /\ publish(i, Message(i))
    BY <1>2 DEF RouteChannel, InLoop
  <2>2. /\ Delivering(i) /\ running[i] /\ Record(i) \in Notifications
        /\ Record(i) = log[cursor[i]]
        /\ Message(i) = <<Record(i), Channel(i)>>
        /\ next[i] \in DOMAIN ChannelsOf[Record(i)]
        /\ cursor[i] \in Offsets /\ cursor[i] \in Nat
        /\ tries[i] \in 0 .. MaxTries - 1 /\ 0 \in 0 .. MaxTries - 1
    <3>1. Delivering(i) /\ Message(i) = <<Record(i), Channel(i)>>
          /\ next[i] \in DOMAIN ChannelsOf[Record(i)]
      BY <2>1, MessageTyped DEF InLoop
    <3>2. MaxTries \in Nat \ {0}
      BY Constants
    <3>3. 0 \in 0 .. MaxTries - 1
      BY <3>2
    <3> QED BY <3>1, <3>3, Facts
  <2>3. \A j \in Instances : next'[j] = IF j = i THEN next[i] + 1 ELSE next[j]
    BY <2>1 DEF TypeInv, TypeOK
  <2>4. TryOf(i) \in 0 .. MaxTries - 1 /\ \A j \in Instances : TryOf(j)' = TryOf(j)
    BY <2>1, <2>2 DEF TryOf, Acceptable, Record
  <2>5. PICK c : c = <<<<cursor[i], next[i]>>, <<token[i], TryOf(i)>>>>
    OBVIOUS
  <2>6. /\ c \in Charges /\ Place(c) = cursor[i] /\ Position(c) = next[i]
        /\ Token(c) = token[i] /\ Try(c) = TryOf(i)
    BY <1>a, <2>2, <2>4, <2>5 DEF Charges, Place, Position, Token, Try
  <2>7. c \notin S
    <3>1. ~Done(c, i)
      BY <1>a, <2>2, <2>4, <2>6 DEF Done
    <3> QED BY <2>2, <2>6, <3>1 DEF Charged, Ahead
  <2>8. PICK T : T = S \cup {c}
    OBVIOUS
  <2>9. T \in SUBSET Charges' /\ token \in [Instances -> 0 .. faults']
    BY <2>1, <2>6, <2>8 DEF Charges
  <2>10. Paid(T)'
    <3>1. Acceptable(Record(i)) => Try(c) = 0
      BY <2>6 DEF TryOf
    <3>2. ChannelsOf[Record(i)][next[i]] = Channel(i)
      BY DEF Channel
    <3>3. copies' = [copies EXCEPT ![<<Record(i), Channel(i)>>] = @ + 1]
      BY <2>1, <2>2 DEF publish
    <3>4. log' = log /\ Paid(S)
      BY <2>1 DEF Charged
    <3> QED BY <2>1, <2>2, <2>6, <2>7, <2>8, <3>1, <3>2, <3>3, <3>4, PaidMore
  <2>11. Apart(token)'
    BY <2>1 DEF Charged, Apart
  <2>12. Ahead(T, token)'
    <3> SUFFICES ASSUME NEW j \in Instances, running[j], NEW p \in T, Token(p) = token[j]
                 PROVE  Done(p, j)'
      BY <2>1 DEF Ahead, Token
    <3>1. CASE p \in S
      <4>1. Done(p, j) /\ Position(p) \in Nat
        BY <3>1, ChargeParts DEF Charged, Ahead
      <4>2. next[j] \in Nat /\ next'[j] \in Nat /\ next[j] <= next'[j]
        BY <1>a, <2>3
      <4>3. Place(p)' = Place(p) /\ Position(p)' = Position(p) /\ Try(p)' = Try(p)
        BY DEF Place, Position, Try
      <4> QED BY <2>1, <2>4, <4>1, <4>2, <4>3 DEF Done
    <3>2. CASE p = c
      <4>1. j = i
        BY <2>2, <2>6, <3>2 DEF Charged, Apart
      <4>2. next[i] < next'[i]
        BY <1>a, <2>3
      <4>3. Place(p)' = Place(p) /\ Position(p)' = Position(p) /\ Try(p)' = Try(p)
        BY DEF Place, Position, Try
      <4> QED BY <2>1, <2>4, <2>6, <3>2, <4>1, <4>2, <4>3 DEF Done
    <3> QED BY <2>8, <3>1, <3>2
  <2>13. Spare(T, token)'
    <3> SUFFICES ASSUME ~running[owner]
                 PROVE  \E t \in 0 .. faults : Unused(T, token, t)'
      BY <2>1 DEF Spare
    <3>1. PICK t \in 0 .. faults : Unused(S, token, t)
      BY DEF Charged, Spare
    <3>2. Unused(T, token, t)'
      BY <2>1, <2>2, <2>6, <2>8, <3>1 DEF Unused, Token
    <3> QED BY <3>2
  <2> QED BY <2>9, <2>10, <2>11, <2>12, <2>13 DEF ChargeInv, Charged
<1>3. ASSUME NEW i \in Instances, PublishThrows(i)
      PROVE  ChargeInv'
  <2>1. /\ Delivering(i) /\ Throw(i) /\ UNCHANGED copies /\ faults' = faults + 1
        /\ \A j \in Instances : j # i => next'[j] = next[j]
    BY <1>3, FaultCounted DEF PublishThrows, InLoop, brokerVars, TypeInv, TypeOK
  <2>2. /\ log' = log /\ owner' = owner
        /\ \A j \in Instances : j # i => /\ running'[j] = running[j] /\ cursor'[j] = cursor[j]
                                       /\ tries'[j] = tries[j]
    BY <2>1, ThrowTyped
  <2> QED BY <2>1, <2>2, FreshToken
<1>4. ASSUME NEW i \in Instances, RejectChannel(i)
      PROVE  ChargeInv'
  <2>1. Delivering(i) /\ running[i] /\ Throw(i) /\ UNCHANGED <<faults, copies>>
    BY <1>4 DEF RejectChannel, InLoop, Delivering, brokerVars
  <2>2. ~Acceptable(Record(i)) /\ \A j \in Instances : j # i => next'[j] = next[j]
    BY <1>4 DEF RejectChannel, InLoop, Channel, Acceptable, TypeInv, TypeOK
  <2>3. owner \in Instances
    BY Facts
  <2>4. /\ log' = log /\ owner' = owner /\ (running[owner] => running'[owner])
        /\ running'[i] => \/ cursor'[i] = cursor[i] + 1
                          \/ cursor'[i] = cursor[i] /\ tries'[i] = tries[i] + 1
        /\ \A j \in Instances : j # i => /\ running'[j] = running[j] /\ cursor'[j] = cursor[j]
                                       /\ tries'[j] = tries[j]
    BY <2>1, <2>3, ThrowTyped
  <2> QED BY <2>1, <2>2, <2>4, ChargeKept
<1>5. ASSUME NEW i \in Instances, FinishRequest(i)
      PROVE  ChargeInv'
  <2>1. Delivering(i) /\ Succeed(i) /\ UNCHANGED <<faults, copies>>
    BY <1>5 DEF FinishRequest, brokerVars
  <2>2. \A j \in Instances : j # i => next'[j] = next[j]
    BY <1>5 DEF FinishRequest, TypeInv, TypeOK
  <2>3. /\ log' = log /\ owner' = owner /\ running' = running /\ cursor'[i] = cursor[i] + 1
        /\ \A j \in Instances : j # i => cursor'[j] = cursor[j] /\ tries'[j] = tries[j]
    BY <2>1, SucceedTyped
  <2> QED BY <2>1, <2>2, <2>3, ChargeKept
<1>6. ASSUME NEW i \in Instances, Commit(i)
      PROVE  ChargeInv'
  <2>1. UNCHANGED <<log, owner, running, cursor, tries, faults, next, copies>>
    BY <1>6 DEF Commit, CommitOffset, brokerVars
  <2> QED BY <2>1, ChargeKept
<1>7. ASSUME NEW i \in Instances, Restart(i)
      PROVE  ChargeInv'
  <2>1. /\ Starts(i) /\ ~running[owner] /\ UNCHANGED <<faults, next, copies>>
    BY <1>7 DEF Restart, Assign, brokerVars
  <2>2. /\ log' = log /\ owner' = i /\ running'[i]
        /\ \A j \in Instances : j # i => /\ running'[j] = running[j] /\ cursor'[j] = cursor[j]
                                       /\ tries'[j] = tries[j]
    BY <2>1, StartsTyped
  <2>3. PICK t \in 0 .. faults : Unused(S, token, t)
    BY <2>1 DEF Charged, Spare
  <2>4. PICK held : held = [token EXCEPT ![i] = t]
    OBVIOUS
  <2>5. /\ held \in [Instances -> 0 .. faults] /\ held[i] = t
        /\ \A j \in Instances : j # i => held[j] = token[j]
    BY <2>3, <2>4
  <2>6. Charges' = Charges /\ Paid(S)'
    BY <2>1, <2>2, PaidKept DEF Charges, Charged
  <2>7. Apart(held)'
    BY <2>2, <2>3, <2>5 DEF Charged, Apart, Unused
  <2>8. Ahead(S, held)'
    <3> SUFFICES ASSUME NEW j \in Instances, running'[j], NEW p \in S, Token(p) = held[j]
                 PROVE  Done(p, j)'
      BY DEF Ahead, Token
    <3>1. j # i /\ running[j] /\ Token(p) = token[j]
      BY <2>2, <2>3, <2>5 DEF Unused
    <3>2. Done(p, j)
      BY <3>1 DEF Charged, Ahead
    <3> QED BY <2>1, <2>2, <3>1, <3>2 DEF Done, TryOf, Acceptable, Record, Place, Position, Try
  <2>9. Spare(S, held)'
    BY <2>2 DEF Spare
  <2> QED BY <2>1, <2>5, <2>6, <2>7, <2>8, <2>9 DEF ChargeInv, Charged
<1>8. ASSUME NEW i \in Instances, TakeOver(i)
      PROVE  ChargeInv'
  <2>1. Starts(i) /\ faults' = faults + 1 /\ UNCHANGED <<next, copies>>
    BY <1>8, FaultCounted DEF TakeOver, Rebalance, brokerVars
  <2> QED BY <2>1, StartsTyped, FreshToken
<1>9. ASSUME NEW i \in Instances, Stop(i)
      PROVE  ChargeInv'
  <2>1. /\ owner # i /\ Leave(i) /\ UNCHANGED <<faults, next, copies>> /\ owner \in Instances
    BY <1>9, Facts DEF Stop, LosePartition, brokerVars
  <2>2. /\ UNCHANGED <<log, owner, cursor>> /\ ~running'[i]
        /\ \A j \in Instances : j # i => running'[j] = running[j] /\ tries'[j] = tries[j]
    BY <2>1, LeaveTyped
  <2> QED BY <2>1, <2>2, ChargeKept
<1>10. ASSUME NEW i \in Instances, Crash(i)
       PROVE  ChargeInv'
  <2>1. /\ Leave(i) \/ UNCHANGED readerVars
        /\ faults' = faults + 1 /\ UNCHANGED copies
        /\ \A j \in Instances : j # i => next'[j] = next[j]
    BY <1>10, FaultCounted DEF Crash, Die, TypeInv, TypeOK
  <2>2. /\ UNCHANGED <<log, owner, cursor>>
        /\ \A j \in Instances : j # i => running'[j] = running[j] /\ tries'[j] = tries[j]
    BY <2>1, LeaveTyped
  <2> QED BY <2>1, <2>2, FreshToken
<1>11. ASSUME NEW i \in Instances, NEW m \in Messages, Store(i, m)
       PROVE  ChargeInv'
  <2>1. UNCHANGED <<log, owner, running, cursor, tries, faults, next, copies>>
    BY <1>11 DEF Store
  <2> QED BY <2>1, ChargeKept
<1>12. ASSUME NEW i \in Instances, NEW m \in Messages, SendFails(i, m)
       PROVE  ChargeInv'
  <2>1. UNCHANGED <<log, owner, running, cursor, tries, next, copies>> /\ faults' = faults + 1
    BY <1>12, FaultCounted DEF SendFails
  <2> QED BY <2>1, FreshToken
<1>13. ASSUME NEW i \in Instances, NEW m \in Messages, StoreUnanswered(i, m)
       PROVE  ChargeInv'
  <2>1. /\ UNCHANGED <<log, owner, running, cursor, tries, next>> /\ faults' = faults + 1
        /\ inFlight[i][m] > 0 /\ copies' = [copies EXCEPT ![m] = @ + 1] /\ faults \in Nat
    BY <1>13, FaultCounted, Facts DEF StoreUnanswered
  <2>2. PICK n \in Notifications, c \in Supported : m = <<n, c>>
    BY DEF Messages
  <2>3. PICK p \in S : /\ log[Place(p)] = n /\ Position(p) \in DOMAIN ChannelsOf[n]
                       /\ ChannelsOf[n][Position(p)] = c
    <3>1. copies[m] > 0 /\ copies[m] \in Nat
      BY <2>1 DEF TypeInv, TypeOK, PlacesInv
    <3>2. copies[m] <= Cardinality(ChargedTo(S, n, c))
      BY <2>2 DEF Charged, Paid
    <3>3. ChargedTo(S, n, c) # {}
      <4>1. Cardinality({}) = 0
        BY FS_EmptySet
      <4>2. Cardinality(ChargedTo(S, n, c)) # Cardinality({})
        BY <3>1, <3>2, <4>1
      <4> QED BY <4>2
    <3> QED BY <3>3 DEF ChargedTo
  <2>4. PICK q : q = <<<<Place(p), Position(p)>>, <<faults + 1, 0>>>>
    OBVIOUS
  <2>5. /\ Place(q) = Place(p) /\ Position(q) = Position(p)
        /\ Token(q) = faults + 1 /\ Try(q) = 0
    BY <2>4 DEF Place, Position, Token, Try
  <2>6. \A t \in 0 .. faults : t # faults + 1
    BY <2>1
  <2>7. q \in Charges' /\ Charges \subseteq Charges'
    <3>1. Place(p) \in Offsets /\ Position(p) \in Nat /\ 0 \in 0 .. MaxTries - 1
      BY ChargeParts, Constants
    <3>2. faults + 1 \in 0 .. faults' /\ 0 .. faults \subseteq 0 .. faults'
      BY <2>1
    <3> QED BY <2>1, <2>4, <3>1, <3>2 DEF Charges
  <2>8. q \notin S
    BY <2>5, <2>6, ChargeParts
  <2>9. PICK T : T = S \cup {q}
    OBVIOUS
  <2>10. T \in SUBSET Charges' /\ token \in [Instances -> 0 .. faults']
    <3>1. 0 .. faults \subseteq 0 .. faults'
      BY <2>1
    <3> QED BY <2>7, <2>9, <3>1
  <2>11. Paid(T)'
    BY <2>1, <2>2, <2>3, <2>5, <2>8, <2>9, PaidMore DEF Charged
  <2>12. Apart(token)'
    BY <2>1 DEF Charged, Apart
  <2>13. Ahead(T, token)'
    <3> SUFFICES ASSUME NEW j \in Instances, running[j], NEW r \in T, Token(r) = token[j]
                 PROVE  Done(r, j)'
      BY <2>1 DEF Ahead, Token
    <3>1. r \in S
      BY <2>5, <2>6, <2>9
    <3>2. Done(r, j)
      BY <3>1 DEF Charged, Ahead
    <3> QED BY <2>1, <3>2 DEF Done, TryOf, Acceptable, Record, Place, Position, Try
  <2>14. Spare(T, token)'
    <3> SUFFICES ASSUME ~running[owner]
                 PROVE  \E t \in 0 .. faults' : Unused(T, token, t)'
      BY <2>1 DEF Spare
    <3>1. PICK t \in 0 .. faults : Unused(S, token, t)
      BY DEF Charged, Spare
    <3>2. Unused(T, token, t)' /\ t \in 0 .. faults'
      BY <2>1, <2>5, <2>6, <2>9, <3>1 DEF Unused, Token
    <3> QED BY <3>2
  <2> QED BY <2>10, <2>11, <2>12, <2>13, <2>14 DEF ChargeInv, Charged
<1>14. CASE UNCHANGED vars
  <2>1. UNCHANGED <<log, owner, running, cursor, tries, faults, next, copies>>
    BY <1>14 DEF vars, brokerVars
  <2> QED BY <2>1, ChargeKept
<1> QED BY <1>1, <1>2, <1>3, <1>4, <1>5, <1>6, <1>7, <1>8, <1>9, <1>10, <1>11, <1>12,
           <1>13, <1>14 DEF Next, Route

\* The copies of a message that Kafka is given are bounded by the copies of the
\* request, the times it names the channel and the faults, and by the tries if it
\* cannot be routed; hence no instance routes a request twice without a cause.
THEOREM DuplicatesAreBounded == Spec => []DuplicatesBounded
<1>1. Init => ChargeInv
  <2> SUFFICES ASSUME Init PROVE ChargeInv
    OBVIOUS
  <2>1. {} \in SUBSET Charges /\ [i \in Instances |-> 0] \in [Instances -> 0 .. faults]
    BY DEF Init, ConsumerInit
  <2>2. Paid({})
    <3>1. ASSUME NEW n \in Notifications, NEW c \in Supported
          PROVE  copies[<<n, c>>] = 0 /\ Cardinality(ChargedTo({}, n, c)) = 0
      <4>1. ChargedTo({}, n, c) = {} /\ Cardinality({}) = 0
        BY FS_EmptySet DEF ChargedTo
      <4> QED BY <4>1 DEF Init, Messages
    <3> QED BY <3>1 DEF Paid
  <2>3. Apart([i \in Instances |-> 0]) /\ Ahead({}, [i \in Instances |-> 0])
    BY DEF Init, ConsumerInit, Apart, Ahead
  <2>4. Unused({}, [i \in Instances |-> 0], 0) /\ 0 \in 0 .. faults
    BY DEF Init, ConsumerInit, Unused
  <2> QED BY <2>1, <2>2, <2>3, <2>4 DEF ChargeInv, Charged, Spare
<1>2. TypeInv /\ ChargeInv /\ [Next]_vars => ChargeInv'
  BY ChargeStep DEF ChargeInv
<1>3. TypeInv /\ ChargeInv => DuplicatesBounded
  <2> SUFFICES ASSUME TypeInv, NEW S \in SUBSET Charges, Paid(S),
                      NEW n \in Notifications, NEW c \in Supported
               PROVE  copies[<<n, c>>] <= TimesNamed(n, c) * Requests(n) * (1 + faults)
                                            * (IF Acceptable(n) THEN 1 ELSE MaxTries)
    BY DEF ChargeInv, Charged, DuplicatesBounded
  <2> DEFINE bound == TimesNamed(n, c) * Requests(n) * (1 + faults)
                          * (IF Acceptable(n) THEN 1 ELSE MaxTries)
  <2>1. copies[<<n, c>>] <= Cardinality(ChargedTo(S, n, c)) /\ copies[<<n, c>>] \in Nat
    BY DEF Paid, TypeInv, TypeOK, Messages
  <2>2. /\ Cardinality(ChargedTo(S, n, c)) \in Nat /\ bound \in Nat
        /\ Cardinality(ChargedTo(S, n, c)) <= bound
    BY ChargesAreBounded
  <2> HIDE DEF bound
  <2>3. copies[<<n, c>>] <= bound
    BY <2>1, <2>2
  <2> QED BY <2>3 DEF bound
<1> QED BY <1>1, <1>2, <1>3, TypeCorrect, PTL DEF Spec

=============================================================================
