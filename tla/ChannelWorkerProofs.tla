------------------------ MODULE ChannelWorkerProofs ------------------------
(***************************************************************************)
(* Theorems about a channel worker, for any notifications, instances and   *)
(* number of tries, and any number of faults of any kind.                  *)
(***************************************************************************)
EXTENDS AttemptSummary, FiniteSetTheorems, WellFoundedInduction, TLAPS

RowType == [notification : Notifications, no : Nat, result : Results]

USE DEF Results, Offsets, faultVars, readerVars, consumerVars

-----------------------------------------------------------------------------
(* Sequences.                                                              *)

\* A message or a row is appended behind those there are.
LEMMA AppendElements ==
    ASSUME NEW X, NEW s \in Seq(X), NEW x \in X
    PROVE  /\ Append(s, x) \in Seq(X)
           /\ Len(s) \in Nat /\ Len(Append(s, x)) = Len(s) + 1
           /\ DOMAIN Append(s, x) = DOMAIN s \cup {Len(s) + 1}
           /\ DOMAIN s = 1 .. Len(s)
           /\ \A k \in 1 .. Len(s) : Append(s, x)[k] = s[k]
           /\ Append(s, x)[Len(s) + 1] = x
OBVIOUS

\* There are finitely many rows for a notification.
LEMMA RowsAreFinite ==
    ASSUME TypeOK, NEW n
    PROVE  IsFiniteSet(AttemptsOf(n)) /\ Cardinality(AttemptsOf(n)) \in Nat
<1>1. IsFiniteSet(1 .. Len(attempts))
  BY FS_Interval DEF TypeOK
<1>2. AttemptsOf(n) \subseteq 1 .. Len(attempts)
  BY DEF TypeOK, AttemptsOf
<1> QED BY <1>1, <1>2, FS_Subset, FS_CardinalityType

\* What inserting a row does to the rows there are.
LEMMA NewRow ==
    ASSUME TypeOK, NEW row \in RowType, attempts' = Append(attempts, row), NEW n
    PROVE  /\ attempts' \in Seq(RowType)
           /\ AttemptsOf(n)' = IF n = row.notification
                               THEN AttemptsOf(n) \cup {Len(attempts) + 1}
                               ELSE AttemptsOf(n)
           /\ Len(attempts) + 1 \notin AttemptsOf(n)
           /\ \A k \in AttemptsOf(n) : attempts'[k] = attempts[k]
           /\ attempts'[Len(attempts) + 1] = row
<1> DEFINE L == Len(attempts)
<1>1. attempts \in Seq(RowType)
  BY DEF TypeOK, RowType
<1>2. /\ attempts' \in Seq(RowType)
      /\ L \in Nat
      /\ DOMAIN attempts' = DOMAIN attempts \cup {L + 1}
      /\ DOMAIN attempts = 1 .. L
      /\ \A k \in 1 .. L : attempts'[k] = attempts[k]
      /\ attempts'[L + 1] = row
  BY <1>1, AppendElements
<1>3. L + 1 \notin 1 .. L
  BY <1>2
<1> QED BY <1>2, <1>3 DEF AttemptsOf

-----------------------------------------------------------------------------
(* Types.                                                                  *)

\* The parts of TypeOK for the instances, whatever happens to the partition.
LEMMA RowIsTyped ==
    ASSUME TypeOK, NEW i \in Instances, Delivering(i)
    PROVE  Record(i) \in Notifications /\ Row(i) \in RowType
BY SMTT(30) DEF TypeOK, ConsumerTypeOK, Delivering, Record, Row, RowType

LEMMA TypeInit == Init => TypeOK
BY ConsumerAssumption, WorkerAssumption
   DEF ConsumerAssumption, WorkerAssumption, Init, ConsumerInit, TypeOK, ConsumerTypeOK

\* A fault is one more, of a kind the constants allow.
LEMMA FaultCounted ==
    ASSUME TypeOK, NEW kind, Fault(kind)
    PROVE  /\ faults' = faults + 1 /\ faults' \in 0 .. MaxFaults
           /\ happened' \subseteq FaultKinds /\ kind \in happened'
           /\ happened \subseteq happened'
BY ConsumerAssumption DEF ConsumerAssumption, Fault, TypeOK, ConsumerTypeOK

\* What a listener that throws, one that starts and one that leaves do to the
\* assignment: only their own row of it changes.
LEMMA ThrowTyped ==
    ASSUME TypeOK, NEW i \in Instances, Delivering(i), Throw(i)
    PROVE  /\ log' = log /\ owner' = owner /\ committed' = committed
           /\ running' \in [Instances -> BOOLEAN]
           /\ cursor' \in [Instances -> 1 .. Len(log) + 1]
           /\ tries' \in [Instances -> 0 .. MaxTries - 1]
           /\ owner = i => running' = running
           /\ \A j \in Instances : j # i => /\ running'[j] = running[j]
                                          /\ cursor'[j] = cursor[j]
                                          /\ tries'[j] = tries[j]
<1> USE ConsumerAssumption DEF ConsumerAssumption, TypeOK, ConsumerTypeOK, Throw
<1>1. tries[i] \in 0 .. MaxTries - 1 /\ cursor[i] + 1 \in 1 .. Len(log) + 1
  BY SMTT(30) DEF Delivering
<1>2. CASE owner = i /\ tries[i] + 1 < MaxTries
  <2>1. tries[i] + 1 \in 0 .. MaxTries - 1
    BY <1>1, <1>2, SMTT(30)
  <2>2. tries' = [tries EXCEPT ![i] = @ + 1] /\ UNCHANGED <<cursor, running>>
    BY <1>1, <1>2
  <2> QED BY <2>1, <2>2
<1>3. CASE owner = i /\ tries[i] + 1 = MaxTries
  <2>1. /\ tries' = [tries EXCEPT ![i] = 0] /\ cursor' = [cursor EXCEPT ![i] = @ + 1]
        /\ UNCHANGED running
    BY <1>1, <1>3
  <2>2. 0 \in 0 .. MaxTries - 1
    OBVIOUS
  <2>3. cursor' \in [Instances -> 1 .. Len(log) + 1]
    BY <1>1, <2>1
  <2> QED BY <1>1, <2>1, <2>2, <2>3
<1>4. CASE owner # i
  <2>1. /\ tries' = [tries EXCEPT ![i] = 0] /\ running' = [running EXCEPT ![i] = FALSE]
        /\ UNCHANGED cursor
    BY <1>4
  <2> QED BY <1>1, <2>1, SMTT(30)
<1> QED BY <1>2, <1>3, <1>4

LEMMA StartsTyped ==
    ASSUME TypeOK, NEW i \in Instances, Starts(i)
    PROVE  /\ log' = log /\ owner' = i /\ committed' = committed
           /\ running' \in [Instances -> BOOLEAN] /\ ~running[i] /\ running'[i]
           /\ cursor' \in [Instances -> 1 .. Len(log) + 1] /\ cursor'[i] = committed
           /\ tries' \in [Instances -> 0 .. MaxTries - 1] /\ tries'[i] = 0
           /\ \A j \in Instances : j # i => /\ running'[j] = running[j]
                                          /\ cursor'[j] = cursor[j]
                                          /\ tries'[j] = tries[j]
BY ConsumerAssumption DEF ConsumerAssumption, TypeOK, ConsumerTypeOK, Starts

LEMMA LeaveTyped ==
    ASSUME TypeOK, NEW i \in Instances, Leave(i)
    PROVE  /\ log' = log /\ owner' = owner /\ committed' = committed
           /\ cursor' = cursor
           /\ running' \in [Instances -> BOOLEAN] /\ running[i] /\ ~running'[i]
           /\ tries' \in [Instances -> 0 .. MaxTries - 1] /\ tries'[i] = 0
           /\ \A j \in Instances : j # i => /\ running'[j] = running[j]
                                          /\ tries'[j] = tries[j]
BY ConsumerAssumption DEF ConsumerAssumption, TypeOK, ConsumerTypeOK, Leave

\* A delivery that throws is one more for its record, and the count of no record
\* falls.
LEMMA RethrowCounted ==
    ASSUME TypeOK, NEW i \in Instances, Delivering(i), Rethrow(i)
    PROVE  /\ failed' \in [1 .. MaxRecords -> Nat]
           /\ \A o \in 1 .. MaxRecords : failed[o] <= failed'[o]
           /\ failed'[cursor[i]] = failed[cursor[i]] + 1
<1>1. Len(log) \in Nat /\ Len(log) <= MaxRecords /\ cursor[i] \in 1 .. Len(log)
  BY DEF TypeOK, Delivering
<1>2. cursor[i] \in 1 .. MaxRecords
  BY <1>1, WorkerAssumption DEF WorkerAssumption
<1>3. failed' = [failed EXCEPT ![cursor[i]] = @ + 1] /\ failed \in [1 .. MaxRecords -> Nat]
  BY DEF Rethrow, TypeOK
<1> QED BY <1>2, <1>3

LEMMA FailedStep ==
    ASSUME TypeOK, [Next]_vars
    PROVE  /\ failed' \in [1 .. MaxRecords -> Nat]
           /\ \A o \in 1 .. MaxRecords : failed[o] <= failed'[o]
<1>1. CASE UNCHANGED failed
  <2>1. failed \in [1 .. MaxRecords -> Nat]
    BY DEF TypeOK
  <2> QED BY <1>1, <2>1
<1>2. ASSUME NEW i \in Instances, Delivering(i), Rethrow(i)
      PROVE  /\ failed' \in [1 .. MaxRecords -> Nat]
             /\ \A o \in 1 .. MaxRecords : failed[o] <= failed'[o]
  BY <1>2, RethrowCounted
<1>3. UNCHANGED failed \/ \E i \in Instances : Delivering(i) /\ Rethrow(i)
  <2>1. ASSUME NEW i \in Instances, SaveAttempt(i) \/ DatabaseFails(i)
        PROVE  UNCHANGED failed \/ (Delivering(i) /\ Rethrow(i))
    BY <2>1 DEF SaveAttempt, DatabaseFails, At
  <2>2. ASSUME NEW i \in Instances, SendToProvider(i) \/ ProviderFails(i) \/ CountAttempts(i)
        PROVE  UNCHANGED failed
    BY <2>2 DEF SendToProvider, ProviderFails, CountAttempts
  <2>3. ASSUME NEW i \in Instances,
               Commit(i) \/ Restart(i) \/ TakeOver(i) \/ Stop(i) \/ Crash(i)
        PROVE  UNCHANGED failed
    BY <2>3 DEF Commit, Restart, TakeOver, Stop, Crash
  <2>4. ASSUME NEW n \in Notifications, Request(n)
        PROVE  UNCHANGED failed
    BY <2>4 DEF Request
  <2>5. CASE UNCHANGED vars
    BY <2>5 DEF vars
  <2> QED BY <2>1, <2>2, <2>3, <2>4, <2>5 DEF Next, Consume
<1> QED BY <1>1, <1>2, <1>3

LEMMA TypeStep == TypeOK /\ [Next]_vars => TypeOK'
<1> SUFFICES ASSUME TypeOK, [Next]_vars
             PROVE  TypeOK'
  OBVIOUS
<1> USE ConsumerAssumption DEF ConsumerAssumption
<1>f. failed' \in [1 .. MaxRecords -> Nat]
  BY FailedStep
<1>1. ASSUME NEW n \in Notifications, Request(n)
      PROVE  TypeOK'
  <2>1. /\ log' \in Seq(Notifications) /\ Len(log) \in Nat /\ Len(log') = Len(log) + 1
    BY <1>1, AppendElements DEF Request, Append1, TypeOK
  <2> QED BY <1>f, <1>1, <2>1, WorkerAssumption, SMTT(30)
             DEF WorkerAssumption, Request, Append1, TypeOK, ConsumerTypeOK, Delivering
<1>2. ASSUME NEW i \in Instances, SendToProvider(i)
      PROVE  TypeOK'
  <2>1. Record(i) \in Notifications
    BY <1>2, RowIsTyped DEF SendToProvider, At
  <2>2. sent' \in [Notifications -> Nat]
    BY <1>2, <2>1 DEF SendToProvider, TypeOK
  <2> QED BY <1>f, <1>2, <2>2 DEF SendToProvider, At, GoTo, TypeOK, ConsumerTypeOK, Delivering
<1>3. ASSUME NEW i \in Instances, ProviderFails(i)
      PROVE  TypeOK'
  <2>1. Record(i) \in Notifications
    BY <1>3, RowIsTyped DEF ProviderFails, At
  <2>2. sent' \in [Notifications -> Nat]
    <3>1. sent \in [Notifications -> Nat]
      BY DEF TypeOK
    <3>2. \/ sent' = sent
          \/ sent' = [sent EXCEPT ![Record(i)] = @ + 1]
      BY <1>3 DEF ProviderFails
    <3>3. CASE sent' = sent
      BY <3>1, <3>3
    <3>4. CASE sent' = [sent EXCEPT ![Record(i)] = @ + 1]
      BY <2>1, <3>1, <3>4
    <3> QED BY <3>2, <3>3, <3>4
  <2> QED BY <1>f, <1>3, <2>2, FaultCounted
             DEF ProviderFails, At, GoTo, TypeOK, ConsumerTypeOK, Delivering
<1>4. ASSUME NEW i \in Instances, CountAttempts(i)
      PROVE  TypeOK'
  <2>1. Cardinality(AttemptsOf(Record(i))) \in Nat
    BY RowsAreFinite
  <2> QED BY <1>f, <1>4, <2>1 DEF CountAttempts, At, GoTo, TypeOK, ConsumerTypeOK, Delivering
<1>5. ASSUME NEW i \in Instances, SaveAttempt(i)
      PROVE  TypeOK'
  <2>1. attempts' \in Seq(RowType)
    BY <1>5, RowIsTyped, NewRow DEF SaveAttempt, At
  <2>2. cursor[i] + 1 \in 1 .. Len(log) + 1
    BY <1>5 DEF SaveAttempt, At, Delivering, TypeOK
  <2>3. ConsumerTypeOK' /\ log' = log
    <3>1. CASE Succeed(i)
      BY <1>5, <2>2, <3>1, SMTT(30) DEF SaveAttempt, Succeed, TypeOK, ConsumerTypeOK
    <3>2. CASE Throw(i)
      BY <1>5, <3>2, ThrowTyped DEF SaveAttempt, At, TypeOK, ConsumerTypeOK
    <3> QED BY <1>5, <3>1, <3>2 DEF SaveAttempt, Rethrow
  <2>4. /\ \A j \in Instances : j # i => running'[j] = running[j] /\ cursor'[j] = cursor[j]
    BY <1>5 DEF SaveAttempt, Succeed, Rethrow, Throw, TypeOK, ConsumerTypeOK
  <2> QED BY <1>f, <1>5, <2>1, <2>3, <2>4
             DEF SaveAttempt, ResetDelivery, GoTo, TypeOK, Delivering, RowType
<1>6. ASSUME NEW i \in Instances, DatabaseFails(i)
      PROVE  TypeOK'
  <2>1. At(i, "count") \/ At(i, "save")
    BY <1>6 DEF DatabaseFails
  <2>2. cursor[i] + 1 \in 1 .. Len(log) + 1
    BY <2>1 DEF At, Delivering, TypeOK
  <2>3. CASE result[i] = "SUCCESS"
    <3>1. /\ result' = [result EXCEPT ![i] = "FAILED"]
          /\ counted' = [counted EXCEPT ![i] = 0]
          /\ GoTo(i, "count") /\ UNCHANGED <<readerVars, sent, attempts>>
      BY <1>6, <2>3 DEF DatabaseFails
    <3> QED BY <1>f, <1>6, <2>1, <3>1, FaultCounted
               DEF DatabaseFails, GoTo, At, TypeOK, ConsumerTypeOK, Delivering
  <2>4. CASE result[i] = "FAILED"
    <3>1. Throw(i) /\ ResetDelivery(i) /\ UNCHANGED <<sent, attempts>>
      BY <1>6, <2>4 DEF DatabaseFails, Rethrow
    <3>2. ConsumerTypeOK' /\ log' = log
      BY <1>6, <2>1, <3>1, ThrowTyped, FaultCounted DEF DatabaseFails, At, TypeOK, ConsumerTypeOK
    <3>3. \A j \in Instances : j # i => running'[j] = running[j] /\ cursor'[j] = cursor[j]
      BY <3>1 DEF Throw, TypeOK, ConsumerTypeOK
    <3> QED BY <1>f, <3>1, <3>2, <3>3 DEF ResetDelivery, GoTo, TypeOK, Delivering
  <2> QED BY <1>6, <2>3, <2>4 DEF DatabaseFails
<1>7. ASSUME NEW i \in Instances, Commit(i)
      PROVE  TypeOK'
  BY <1>f, <1>7 DEF Commit, CommitOffset, TypeOK, ConsumerTypeOK, Delivering
<1>8. ASSUME NEW i \in Instances, Restart(i)
      PROVE  TypeOK'
  BY <1>f, <1>8, StartsTyped DEF Restart, Assign, TypeOK, ConsumerTypeOK, Delivering
<1>9. ASSUME NEW i \in Instances, TakeOver(i)
      PROVE  TypeOK'
  BY <1>f, <1>9, StartsTyped, FaultCounted DEF TakeOver, Rebalance, TypeOK, ConsumerTypeOK, Delivering
<1>10. ASSUME NEW i \in Instances, Stop(i)
       PROVE  TypeOK'
  BY <1>f, <1>10, SMTT(30) DEF Stop, LosePartition, Leave, TypeOK, ConsumerTypeOK, Delivering
<1>11. ASSUME NEW i \in Instances, Crash(i)
       PROVE  TypeOK'
  BY <1>f, <1>11, LeaveTyped, FaultCounted
     DEF Crash, Die, ResetDelivery, GoTo, TypeOK, ConsumerTypeOK, Delivering
<1>12. CASE UNCHANGED vars
  BY <1>12 DEF vars, TypeOK, ConsumerTypeOK, Delivering
<1> QED BY <1>1, <1>2, <1>3, <1>4, <1>5, <1>6, <1>7, <1>8, <1>9, <1>10, <1>11, <1>12
           DEF Next, Consume

\* The variables keep their types; a handler is past its first step only while
\* its instance delivers a record, and no record is tried MaxTries times without
\* being given up.
THEOREM TypeCorrect == Spec => []TypeOK
BY TypeInit, TypeStep, PTL DEF Spec

-----------------------------------------------------------------------------
(* Commits.                                                                *)

\* What CommittedIsSettled asks for a record.
Finished(o) == Rows(log[o], "SUCCESS") # {} \/ failed[o] >= MaxTries

\* A listener that begins has nothing to record yet.  What it has tried were
\* deliveries of the record at hand that threw; others may have tried it before.
TriesInv ==
    \A i \in Instances :
        /\ step[i] = "send" => result[i] = "SUCCESS"
        /\ tries[i] > 0 => cursor[i] \in Offsets /\ tries[i] <= failed[cursor[i]]

\* What is committed is finished, and what any instance that still runs has
\* behind it, the owner or not: that is what it commits or has committed.
SettledInv ==
    \A o \in Offsets :
        /\ o < committed => Finished(o)
        /\ \A i \in Instances : running[i] /\ o < cursor[i] => Finished(o)

\* The numbers at hand, and that no record is lost or un-failed.
LEMMA Counts ==
    ASSUME TypeOK, [Next]_vars
    PROVE  /\ Len(log) \in Nat /\ Len(log) <= MaxRecords /\ MaxRecords \in Nat
           /\ \A o \in 1 .. MaxRecords : failed[o] \in Nat /\ failed'[o] \in Nat
           /\ \A o \in 1 .. MaxRecords : failed[o] <= failed'[o]
           /\ \A i \in Instances : tries[i] \in Nat /\ result[i] \in Results
<1>1. failed \in [1 .. MaxRecords -> Nat] /\ failed' \in [1 .. MaxRecords -> Nat]
  BY FailedStep DEF TypeOK
<1>2. Len(log) \in Nat /\ Len(log) <= MaxRecords /\ MaxRecords \in Nat
  BY WorkerAssumption DEF TypeOK, WorkerAssumption
<1>3. \A i \in Instances : tries[i] \in Nat /\ result[i] \in Results
  BY DEF TypeOK, ConsumerTypeOK
<1> QED BY <1>1, <1>2, <1>3, FailedStep

\* What a listener that throws does to the tries of its record.
LEMMA ThrowTries ==
    ASSUME TypeOK, NEW i \in Instances, Delivering(i), Throw(i)
    PROVE  /\ \/ tries'[i] = 0
              \/ tries'[i] = tries[i] + 1 /\ cursor'[i] = cursor[i]
           /\ \/ cursor' = cursor
              \/ /\ owner = i /\ tries[i] + 1 = MaxTries
                 /\ cursor'[i] = cursor[i] + 1
                 /\ \A j \in Instances : j # i => cursor'[j] = cursor[j]
BY DEF Throw, TypeOK, ConsumerTypeOK

\* Tries stay within the deliveries that threw: they begin again, they stand while
\* their record does, or a delivery of it has just thrown.
LEMMA TriesKept ==
    ASSUME TypeOK, TriesInv, [Next]_vars, Len(log') \in Nat, Len(log) <= Len(log'),
           \A i \in Instances :
               /\ step'[i] = "send" => result'[i] = "SUCCESS"
               /\ \/ tries'[i] = 0
                  \/ tries'[i] = tries[i] /\ cursor'[i] = cursor[i]
                  \/ /\ tries'[i] = tries[i] + 1 /\ cursor'[i] = cursor[i]
                     /\ cursor[i] \in Offsets
                     /\ failed'[cursor[i]] = failed[cursor[i]] + 1
    PROVE  TriesInv'
<1> SUFFICES ASSUME NEW i \in Instances, tries'[i] > 0
             PROVE  cursor'[i] \in 1 .. Len(log') /\ tries'[i] <= failed'[cursor'[i]]
  BY DEF TriesInv
<1>1. PICK c : c = cursor[i]
  OBVIOUS
<1>2. tries[i] \in Nat /\ Len(log) \in Nat /\ Len(log) <= MaxRecords /\ MaxRecords \in Nat
  BY Counts
<1>3. tries[i] > 0 => c \in 1 .. Len(log) /\ tries[i] <= failed[c]
  BY <1>1 DEF TriesInv
<1>4. ASSUME c \in 1 .. Len(log)
      PROVE  c \in 1 .. Len(log') /\ failed[c] \in Nat /\ failed'[c] \in Nat /\ failed[c] <= failed'[c]
  <2>1. c \in 1 .. MaxRecords /\ c \in 1 .. Len(log')
    BY <1>2, <1>4
  <2> QED BY <2>1, Counts
<1>5. CASE tries'[i] = tries[i] /\ cursor'[i] = c
  <2>1. c \in 1 .. Len(log) /\ tries[i] <= failed[c]
    BY <1>3, <1>5
  <2> QED BY <1>2, <1>4, <1>5, <2>1
<1>6. CASE /\ tries'[i] = tries[i] + 1 /\ cursor'[i] = c
           /\ c \in 1 .. Len(log) /\ failed'[c] = failed[c] + 1
  <2>1. tries[i] = 0 \/ tries[i] <= failed[c]
    BY <1>2, <1>3
  <2> QED BY <1>2, <1>4, <1>6, <2>1
<1> QED BY <1>1, <1>2, <1>5, <1>6

LEMMA TriesStep == TypeOK /\ TriesInv /\ [Next]_vars => TriesInv'
<1> SUFFICES ASSUME TypeOK, TriesInv, [Next]_vars
             PROVE  TriesInv'
  OBVIOUS
<1>a. \A i \in Instances : result[i] \in Results /\ (step[i] = "send" => result[i] = "SUCCESS")
  BY DEF TypeOK, TriesInv
<1>b. Len(log) \in Nat
  BY DEF TypeOK
<1>1. ASSUME NEW n \in Notifications, Request(n)
      PROVE  TriesInv'
  <2>1. Len(log') = Len(log) + 1
    BY <1>1, AppendElements DEF Request, Append1, TypeOK
  <2>2. UNCHANGED <<step, result, tries, cursor>>
    BY <1>1 DEF Request, Append1
  <2> QED BY <1>a, <1>b, <2>1, <2>2, TriesKept
<1>2. ASSUME NEW i \in Instances, SendToProvider(i)
      PROVE  TriesInv'
  <2>1. /\ UNCHANGED <<log, tries, cursor, result>>
        /\ \A j \in Instances : j # i => step'[j] = step[j]
        /\ step'[i] = "count"
    BY <1>2 DEF SendToProvider, At, GoTo, TypeOK
  <2> QED BY <1>a, <1>b, <2>1, TriesKept
<1>3. ASSUME NEW i \in Instances, ProviderFails(i)
      PROVE  TriesInv'
  <2>1. /\ UNCHANGED <<log, tries, cursor>>
        /\ \A j \in Instances : j # i => result'[j] = result[j] /\ step'[j] = step[j]
        /\ step'[i] = "count"
    BY <1>3 DEF ProviderFails, At, GoTo, TypeOK
  <2> QED BY <1>a, <1>b, <2>1, TriesKept
<1>4. ASSUME NEW i \in Instances, CountAttempts(i)
      PROVE  TriesInv'
  <2>1. /\ UNCHANGED <<log, tries, cursor, result>>
        /\ \A j \in Instances : j # i => step'[j] = step[j]
        /\ step'[i] = "save"
    BY <1>4 DEF CountAttempts, At, GoTo, TypeOK
  <2> QED BY <1>a, <1>b, <2>1, TriesKept
<1>5. ASSUME NEW i \in Instances, Delivering(i), Rethrow(i), ResetDelivery(i)
      PROVE  TriesInv'
  <2>1. /\ \A j \in Instances : j # i => result'[j] = result[j] /\ step'[j] = step[j]
        /\ result'[i] = "SUCCESS"
    BY <1>5 DEF ResetDelivery, GoTo, TypeOK
  <2>2. /\ log' = log
        /\ \A j \in Instances : j # i => tries'[j] = tries[j] /\ cursor'[j] = cursor[j]
        /\ \/ tries'[i] = 0
           \/ tries'[i] = tries[i] + 1 /\ cursor'[i] = cursor[i]
    BY <1>5, ThrowTyped, ThrowTries DEF Rethrow
  <2>3. cursor[i] \in Offsets /\ failed'[cursor[i]] = failed[cursor[i]] + 1
    BY <1>5, RethrowCounted DEF Delivering
  <2> QED BY <1>a, <1>b, <2>1, <2>2, <2>3, TriesKept
<1>6. ASSUME NEW i \in Instances, SaveAttempt(i)
      PROVE  TriesInv'
  <2>1. Delivering(i) /\ ResetDelivery(i)
    BY <1>6 DEF SaveAttempt, At
  <2>2. CASE result[i] = "SUCCESS"
    <3>1. /\ \A j \in Instances : j # i => result'[j] = result[j] /\ step'[j] = step[j]
          /\ result'[i] = "SUCCESS"
      BY <2>1 DEF ResetDelivery, GoTo, TypeOK
    <3>2. /\ log' = log /\ tries'[i] = 0
          /\ \A j \in Instances : j # i => tries'[j] = tries[j] /\ cursor'[j] = cursor[j]
      BY <1>6, <2>2 DEF SaveAttempt, Succeed, TypeOK, ConsumerTypeOK
    <3> QED BY <1>a, <1>b, <3>1, <3>2, TriesKept
  <2>3. CASE result[i] # "SUCCESS"
    BY <1>5, <1>6, <2>1, <2>3 DEF SaveAttempt
  <2> QED BY <2>2, <2>3
<1>7. ASSUME NEW i \in Instances, DatabaseFails(i)
      PROVE  TriesInv'
  <2>1. Delivering(i)
    BY <1>7 DEF DatabaseFails, At
  <2>2. CASE result[i] = "SUCCESS"
    <3>1. /\ result' = [result EXCEPT ![i] = "FAILED"]
          /\ GoTo(i, "count") /\ UNCHANGED <<log, tries, cursor>>
      BY <1>7, <2>2 DEF DatabaseFails
    <3>2. /\ \A j \in Instances : j # i => result'[j] = result[j] /\ step'[j] = step[j]
          /\ step'[i] = "count"
      BY <3>1 DEF GoTo, TypeOK
    <3> QED BY <1>a, <1>b, <3>1, <3>2, TriesKept
  <2>3. CASE result[i] = "FAILED"
    BY <1>5, <1>7, <2>1, <2>3 DEF DatabaseFails
  <2> QED BY <1>a, <2>2, <2>3
<1>8. ASSUME NEW i \in Instances, Commit(i)
      PROVE  TriesInv'
  <2>1. UNCHANGED <<log, tries, cursor, step, result>>
    BY <1>8 DEF Commit, CommitOffset
  <2> QED BY <1>a, <1>b, <2>1, TriesKept
<1>9. ASSUME NEW i \in Instances, Starts(i), UNCHANGED <<step, result>>
      PROVE  TriesInv'
  <2>1. /\ tries'[i] = 0 /\ log' = log
        /\ \A j \in Instances : j # i => tries'[j] = tries[j] /\ cursor'[j] = cursor[j]
    BY <1>9, StartsTyped
  <2> QED BY <1>a, <1>b, <1>9, <2>1, TriesKept
<1>10. ASSUME NEW i \in Instances, Restart(i) \/ TakeOver(i)
       PROVE  TriesInv'
  BY <1>9, <1>10 DEF Restart, Assign, TakeOver, Rebalance
<1>11. ASSUME NEW i \in Instances, Leave(i),
              UNCHANGED <<step, result>> \/ ResetDelivery(i)
       PROVE  TriesInv'
  <2>1. /\ tries'[i] = 0 /\ log' = log /\ cursor' = cursor
        /\ \A j \in Instances : j # i => tries'[j] = tries[j]
    BY <1>11, LeaveTyped
  <2>2. \A j \in Instances : step'[j] = "send" => result'[j] = "SUCCESS"
    BY <1>a, <1>11 DEF ResetDelivery, GoTo, TypeOK
  <2> QED BY <1>a, <1>b, <2>1, <2>2, TriesKept
<1>12. ASSUME NEW i \in Instances, Stop(i) \/ Crash(i)
       PROVE  TriesInv'
  BY <1>11, <1>12 DEF Stop, LosePartition, Crash, Die
<1>13. CASE UNCHANGED vars
  BY <1>13 DEF vars, TriesInv
<1> QED BY <1>1, <1>2, <1>3, <1>4, <1>6, <1>7, <1>8, <1>10, <1>12, <1>13 DEF Next, Consume

LEMMA TriesCounted == Spec => []TriesInv
<1>1. Init => TriesInv
  <2> SUFFICES ASSUME Init, NEW i \in Instances
               PROVE  result[i] = "SUCCESS" /\ ~(tries[i] > 0)
    BY DEF TriesInv
  <2>1. result[i] = "SUCCESS" /\ tries[i] = 0
    BY DEF Init, ConsumerInit
  <2> QED BY <2>1
<1> QED BY <1>1, TriesStep, TypeCorrect, PTL DEF Spec

\* What is finished stays so while the rows stay, and when one is added.
LEMMA FinishedStays ==
    ASSUME TypeOK, [Next]_vars, NEW o \in Offsets, log'[o] = log[o],
           \/ attempts' = attempts
           \/ \E row \in RowType : attempts' = Append(attempts, row),
           Finished(o)
    PROVE  Finished(o)'
<1>1. CASE failed[o] >= MaxTries
  <2>1. MaxTries \in Nat /\ o \in 1 .. MaxRecords
    BY Counts, ConsumerAssumption DEF ConsumerAssumption
  <2>2. failed'[o] >= MaxTries
    BY <1>1, <2>1, Counts
  <2> QED BY <2>2 DEF Finished
<1>2. ASSUME NEW k \in Rows(log[o], "SUCCESS"), attempts' = attempts
      PROVE  Finished(o)'
  <2>1. k \in Rows(log[o], "SUCCESS")'
    BY <1>2 DEF Rows, AttemptsOf
  <2> QED BY <2>1 DEF Finished
<1>3. ASSUME NEW k \in Rows(log[o], "SUCCESS"),
             NEW row \in RowType, attempts' = Append(attempts, row)
      PROVE  Finished(o)'
  <2>1. k \in AttemptsOf(log[o]) /\ attempts[k].result = "SUCCESS"
    BY <1>3 DEF Rows
  <2>2. attempts \in Seq(RowType) /\ k \in DOMAIN attempts
    BY <2>1 DEF TypeOK, RowType, AttemptsOf
  <2>3. attempts'[k] = attempts[k] /\ k \in DOMAIN attempts'
    BY <1>3, <2>2, AppendElements
  <2>4. k \in Rows(log[o], "SUCCESS")'
    BY <2>1, <2>3 DEF Rows, AttemptsOf
  <2> QED BY <2>4 DEF Finished
<1> QED BY <1>1, <1>2, <1>3 DEF Finished

\* Steps that end no delivery and leave the partition's log alone.
LEMMA SettledKept ==
    ASSUME TypeOK, SettledInv, [Next]_vars, log' = log,
           attempts' = attempts, committed' = committed,
           \A i \in Instances : running'[i] =>
               (running[i] /\ cursor'[i] = cursor[i]) \/ cursor'[i] = committed
    PROVE  SettledInv'
BY FinishedStays DEF SettledInv

\* A delivery that ends passes its record only when that is finished.
LEMMA SettledPassed ==
    ASSUME TypeOK, SettledInv, [Next]_vars, NEW i \in Instances, Delivering(i),
           log' = log, committed' = committed,
           \A j \in Instances \ {i} : running'[j] = running[j] /\ cursor'[j] = cursor[j],
           \/ attempts' = attempts
           \/ \E row \in RowType : attempts' = Append(attempts, row),
           \/ cursor'[i] = cursor[i]
           \/ cursor'[i] = cursor[i] + 1 /\ \E c \in Offsets : c = cursor[i] /\ Finished(c)'
    PROVE  SettledInv'
<1>1. running[i] /\ cursor[i] \in Nat
  BY DEF Delivering
<1>2. \A o \in Offsets : Finished(o) => Finished(o)'
  BY FinishedStays
<1>3. ASSUME NEW o \in Offsets, o < cursor'[i]
      PROVE  Finished(o)'
  <2>1. CASE o < cursor[i]
    BY <1>1, <1>2, <2>1 DEF SettledInv
  <2>2. CASE ~(o < cursor[i])
    <3>1. cursor'[i] = cursor[i] + 1
      BY <1>3, <2>2
    <3>2. PICK c \in Offsets : c = cursor[i] /\ Finished(c)'
      BY <1>1, <1>3, <2>2
    <3>3. o = c
      BY <1>1, <1>3, <2>2, <3>1, <3>2
    <3> QED BY <3>2, <3>3
  <2> QED BY <2>1, <2>2
<1> QED BY <1>2, <1>3 DEF SettledInv

LEMMA SettledStep == TypeOK /\ TriesInv /\ SettledInv /\ [Next]_vars => SettledInv'
<1> SUFFICES ASSUME TypeOK, TriesInv, SettledInv, [Next]_vars
             PROVE  SettledInv'
  OBVIOUS
<1>1. ASSUME NEW n \in Notifications, Request(n)
      PROVE  SettledInv'
  <2>1. /\ Len(log) \in Nat /\ Len(log') = Len(log) + 1
        /\ \A o \in Offsets : log'[o] = log[o]
    BY <1>1, AppendElements DEF Request, Append1, TypeOK
  <2>2. UNCHANGED <<committed, running, cursor, attempts>>
    BY <1>1 DEF Request, Append1
  <2>3. \A o \in Offsets : Finished(o) => Finished(o)'
    BY <2>1, <2>2, FinishedStays
  <2>4. ASSUME NEW o \in Offsets', o < committed \/ \E i \in Instances : o < cursor[i]
        PROVE  o \in Offsets
    BY <2>1, <2>4 DEF TypeOK, ConsumerTypeOK
  <2> QED BY <2>2, <2>3, <2>4 DEF SettledInv
<1>2. ASSUME NEW i \in Instances, SendToProvider(i)
      PROVE  SettledInv'
  BY <1>2, SettledKept DEF SendToProvider
<1>3. ASSUME NEW i \in Instances, ProviderFails(i)
      PROVE  SettledInv'
  BY <1>3, SettledKept DEF ProviderFails
<1>4. ASSUME NEW i \in Instances, CountAttempts(i)
      PROVE  SettledInv'
  BY <1>4, SettledKept DEF CountAttempts
<1>5. ASSUME NEW i \in Instances, Delivering(i), Rethrow(i),
             \/ attempts' = attempts
             \/ \E row \in RowType : attempts' = Append(attempts, row)
      PROVE  SettledInv'
  <2>1. PICK c \in Offsets : c = cursor[i]
    BY <1>5 DEF Delivering
  <2>2. /\ log' = log /\ committed' = committed
        /\ \A j \in Instances \ {i} : running'[j] = running[j] /\ cursor'[j] = cursor[j]
        /\ cursor' = cursor \/ (tries[i] + 1 = MaxTries /\ cursor'[i] = c + 1)
    BY <1>5, <2>1, ThrowTyped, ThrowTries DEF Rethrow
  <2>3. ASSUME tries[i] + 1 = MaxTries
        PROVE  Finished(c)'
    <3>1. tries[i] \in Nat /\ failed[c] \in Nat /\ failed'[c] = failed[c] + 1
      BY <1>5, <2>1, Counts, RethrowCounted
    <3>2. tries[i] = 0 \/ tries[i] <= failed[c]
      BY <2>1, <3>1 DEF TriesInv
    <3>3. failed'[c] >= MaxTries
      BY <2>3, <3>1, <3>2
    <3> QED BY <3>3 DEF Finished
  <2>4. \/ cursor'[i] = cursor[i]
        \/ cursor'[i] = cursor[i] + 1 /\ Finished(c)'
    BY <2>1, <2>2, <2>3
  <2> QED BY <1>5, <2>1, <2>2, <2>4, SettledPassed
<1>6. ASSUME NEW i \in Instances, SaveAttempt(i)
      PROVE  SettledInv'
  <2>1. /\ Delivering(i) /\ Row(i) \in RowType /\ attempts' = Append(attempts, Row(i))
    BY <1>6, RowIsTyped DEF SaveAttempt, At
  <2>2. CASE result[i] = "SUCCESS"
    <3>1. PICK c \in Offsets : c = cursor[i]
      BY <2>1 DEF Delivering
    <3>2. /\ UNCHANGED <<log, committed, running>>
          /\ cursor' = [cursor EXCEPT ![i] = @ + 1]
      BY <1>6, <2>2 DEF SaveAttempt, Succeed
    <3>3. /\ \A j \in Instances \ {i} : running'[j] = running[j] /\ cursor'[j] = cursor[j]
          /\ cursor'[i] = cursor[i] + 1
      BY <3>2 DEF TypeOK, ConsumerTypeOK
    <3>4. Row(i).notification = log[c] /\ Row(i).result = "SUCCESS"
      BY <2>2, <3>1 DEF Row, Record
    <3>5. attempts'[Len(attempts) + 1] = Row(i) /\ Len(attempts) + 1 \in DOMAIN attempts'
      BY <2>1, NewRow, AppendElements DEF TypeOK, RowType
    <3>6. Len(attempts) + 1 \in Rows(log[c], "SUCCESS")'
      BY <3>2, <3>4, <3>5 DEF Rows, AttemptsOf
    <3>7. Finished(c)'
      BY <3>2, <3>6 DEF Finished
    <3> QED BY <2>1, <3>1, <3>2, <3>3, <3>7, SettledPassed
  <2>3. CASE result[i] # "SUCCESS"
    BY <1>5, <1>6, <2>1, <2>3 DEF SaveAttempt
  <2> QED BY <2>2, <2>3
<1>7. ASSUME NEW i \in Instances, DatabaseFails(i)
      PROVE  SettledInv'
  <2>1. Delivering(i) /\ attempts' = attempts
    BY <1>7 DEF DatabaseFails, At
  <2>2. CASE result[i] = "SUCCESS"
    <3>1. UNCHANGED readerVars
      BY <1>7, <2>2 DEF DatabaseFails
    <3> QED BY <2>1, <3>1, SettledKept
  <2>3. CASE result[i] = "FAILED"
    BY <1>5, <1>7, <2>1, <2>3 DEF DatabaseFails
  <2> QED BY <2>2, <2>3 DEF TypeOK
<1>8. ASSUME NEW i \in Instances, Commit(i)
      PROVE  SettledInv'
  <2>1. /\ UNCHANGED <<log, running, cursor, attempts>>
        /\ running[i] /\ committed' = cursor[i]
    BY <1>8 DEF Commit, CommitOffset
  <2>2. \A o \in Offsets : Finished(o) => Finished(o)'
    BY <2>1, FinishedStays
  <2> QED BY <2>1, <2>2 DEF SettledInv
<1>9. ASSUME NEW i \in Instances, Restart(i)
      PROVE  SettledInv'
  BY <1>9, StartsTyped, SettledKept DEF Restart, Assign
<1>10. ASSUME NEW i \in Instances, TakeOver(i)
      PROVE  SettledInv'
  BY <1>10, StartsTyped, SettledKept DEF TakeOver, Rebalance
<1>11. ASSUME NEW i \in Instances, Stop(i)
       PROVE  SettledInv'
  BY <1>11, LeaveTyped, SettledKept DEF Stop, LosePartition
<1>12. ASSUME NEW i \in Instances, Crash(i)
       PROVE  SettledInv'
  BY <1>12, LeaveTyped, SettledKept DEF Crash, Die
<1>13. CASE UNCHANGED vars
  BY <1>13, SettledKept DEF vars
<1> QED BY <1>1, <1>2, <1>3, <1>4, <1>6, <1>7, <1>8, <1>9, <1>10, <1>11, <1>12, <1>13
           DEF Next, Consume

\* An offset is committed only behind records that have a SUCCESS row, or of which
\* as many deliveries threw as are configured.
THEOREM CommitsAreSettled == Spec => []CommittedIsSettled
<1>1. Init => SettledInv
  BY DEF Init, ConsumerInit, SettledInv
<1>2. TypeOK /\ TriesInv /\ SettledInv /\ [Next]_vars => SettledInv'
  BY SettledStep
<1>3. SettledInv => CommittedIsSettled
  BY DEF SettledInv, CommittedIsSettled, Finished
<1> QED BY <1>1, <1>2, <1>3, TypeCorrect, TriesCounted, PTL DEF Spec

-----------------------------------------------------------------------------
(* Attempt numbers.                                                        *)

Numbers(n) == {attempts[k].no : k \in AttemptsOf(n)}
Numbered(n) == Numbers(n) = 1 .. Cardinality(AttemptsOf(n))

\* Without a take-over the owner is the only instance at work, so what it has
\* counted is still the number of rows when it inserts the next.
NumberInv ==
    "rebalance" \notin happened =>
        /\ \A i \in Instances : running[i] => owner = i
        /\ \A i \in Instances :
              step[i] = "save" => counted[i] = Cardinality(AttemptsOf(Record(i)))
        /\ \A n \in Notifications : Numbered(n)

\* While no row is added, the numbers need only that a listener that has counted
\* stands where it stood.
LEMMA NumbersKept ==
    ASSUME TypeOK, NumberInv, attempts' = attempts, happened \subseteq happened',
           "rebalance" \notin happened' =>
               /\ \A i \in Instances : running'[i] => owner' = i
               /\ \A i \in Instances :
                     \/ step'[i] # "save"
                     \/ /\ step'[i] = step[i] /\ counted'[i] = counted[i]
                        /\ cursor'[i] = cursor[i] /\ log'[cursor[i]] = log[cursor[i]]
    PROVE  NumberInv'
<1>1. \A n : AttemptsOf(n)' = AttemptsOf(n) /\ Numbers(n)' = Numbers(n)
  BY DEF AttemptsOf, Numbers
<1>2. \A n : Numbered(n)' = Numbered(n)
  BY <1>1 DEF Numbered
<1>3. ASSUME "rebalance" \notin happened', NEW i \in Instances, step'[i] = "save"
      PROVE  counted'[i] = Cardinality(AttemptsOf(Record(i))')
  <2>1. counted[i] = Cardinality(AttemptsOf(Record(i))) /\ counted'[i] = counted[i]
    BY <1>3 DEF NumberInv
  <2>2. AttemptsOf(Record(i))' = AttemptsOf(Record(i))
    BY <1>3 DEF AttemptsOf, Record
  <2> QED BY <2>1, <2>2
<1> QED BY <1>2, <1>3 DEF NumberInv

\* The row that is inserted next continues the numbers.
LEMMA NumbersGrow ==
    ASSUME TypeOK, NEW i \in Instances, Delivering(i),
           attempts' = Append(attempts, Row(i)),
           counted[i] = Cardinality(AttemptsOf(Record(i))),
           NEW n \in Notifications, Numbered(n)
    PROVE  Numbered(n)'
<1>1. Row(i) \in RowType /\ Row(i).notification = Record(i) /\ Row(i).no = counted[i] + 1
  BY RowIsTyped DEF Row
<1> DEFINE L == Len(attempts)
<1>2. /\ AttemptsOf(n)' = IF n = Record(i) THEN AttemptsOf(n) \cup {L + 1} ELSE AttemptsOf(n)
      /\ L + 1 \notin AttemptsOf(n)
      /\ \A k \in AttemptsOf(n) : attempts'[k] = attempts[k]
      /\ attempts'[L + 1] = Row(i)
  BY <1>1, NewRow
<1>3. CASE n # Record(i)
  <2>1. AttemptsOf(n)' = AttemptsOf(n)
    BY <1>2, <1>3
  <2>2. Numbers(n)' = Numbers(n)
    BY <1>2, <2>1 DEF Numbers
  <2> QED BY <2>1, <2>2 DEF Numbered
<1>4. CASE n = Record(i)
  <2>1. IsFiniteSet(AttemptsOf(n)) /\ Cardinality(AttemptsOf(n)) \in Nat
    BY RowsAreFinite
  <2>2. AttemptsOf(n)' = AttemptsOf(n) \cup {L + 1}
    BY <1>2, <1>4
  <2>3. Cardinality(AttemptsOf(n)') = Cardinality(AttemptsOf(n)) + 1
    BY <1>2, <2>1, <2>2, FS_AddElement
  <2>4. Numbers(n)' = Numbers(n) \cup {counted[i] + 1}
    BY <1>1, <1>2, <2>2, ZenonT(30) DEF Numbers
  <2>5. counted[i] = Cardinality(AttemptsOf(n))
    BY <1>4
  <2>6. Numbers(n)' = 1 .. Cardinality(AttemptsOf(n)) + 1
    BY <2>1, <2>4, <2>5 DEF Numbered
  <2> QED BY <2>3, <2>6 DEF Numbered
<1> QED BY <1>3, <1>4

LEMMA NumberStep == TypeOK /\ NumberInv /\ [Next]_vars => NumberInv'
<1> SUFFICES ASSUME TypeOK, NumberInv, [Next]_vars
             PROVE  NumberInv'
  OBVIOUS
<1>a. "rebalance" \notin happened => \A i \in Instances : running[i] => owner = i
  BY DEF NumberInv
<1>1. ASSUME NEW n \in Notifications, Request(n)
      PROVE  NumberInv'
  <2>1. /\ \A o \in Offsets : log'[o] = log[o]
        /\ UNCHANGED <<owner, running, cursor, happened, step, counted, attempts>>
    BY <1>1, AppendElements DEF Request, Append1, TypeOK
  <2>2. \A i \in Instances : step[i] = "save" => cursor[i] \in Offsets
    BY DEF TypeOK, Delivering
  <2> QED BY <1>a, <2>1, <2>2, NumbersKept
<1>2. ASSUME NEW i \in Instances, SendToProvider(i)
      PROVE  NumberInv'
  <2>1. /\ \A j \in Instances : step'[j] # "save" \/ step'[j] = step[j]
        /\ UNCHANGED <<consumerVars, counted, attempts>>
    BY <1>2 DEF SendToProvider, GoTo, TypeOK
  <2> QED BY <1>a, <2>1, NumbersKept
<1>3. ASSUME NEW i \in Instances, ProviderFails(i)
      PROVE  NumberInv'
  <2>1. /\ \A j \in Instances : step'[j] # "save" \/ step'[j] = step[j]
        /\ UNCHANGED <<readerVars, counted, attempts>> /\ happened \subseteq happened'
    BY <1>3, FaultCounted DEF ProviderFails, GoTo, TypeOK
  <2> QED BY <1>a, <2>1, NumbersKept
<1>4. ASSUME NEW i \in Instances, CountAttempts(i)
      PROVE  NumberInv'
  <2>1. /\ UNCHANGED <<consumerVars, attempts>>
        /\ \A j \in Instances : j # i => step'[j] = step[j] /\ counted'[j] = counted[j]
        /\ counted'[i] = Cardinality(AttemptsOf(Record(i)))
    BY <1>4 DEF CountAttempts, GoTo, TypeOK
  <2>2. \A n : AttemptsOf(n)' = AttemptsOf(n) /\ Numbers(n)' = Numbers(n)
    BY <2>1 DEF AttemptsOf, Numbers
  <2>3. \A n : Numbered(n)' = Numbered(n)
    BY <2>2 DEF Numbered
  <2>4. \A j \in Instances : AttemptsOf(Record(j))' = AttemptsOf(Record(j))
    BY <2>1 DEF AttemptsOf, Record
  <2> QED BY <2>1, <2>3, <2>4 DEF NumberInv
<1>5. ASSUME NEW i \in Instances, SaveAttempt(i)
      PROVE  NumberInv'
  <2>1. /\ At(i, "save") /\ Delivering(i) /\ running[i] /\ attempts' = Append(attempts, Row(i))
        /\ faultVars' = faultVars
    BY <1>5 DEF SaveAttempt, At, Delivering
  <2>2. owner' = owner /\ \A j \in Instances : running'[j] => running[j]
    <3>1. CASE Succeed(i)
      BY <3>1 DEF Succeed
    <3>2. CASE Throw(i)
      BY <2>1, <3>2, ThrowTyped
    <3> QED BY <1>5, <3>1, <3>2 DEF SaveAttempt, Rethrow
  <2>3. step' = [step EXCEPT ![i] = "send"]
    BY <1>5 DEF SaveAttempt, ResetDelivery, GoTo
  <2>4. ASSUME "rebalance" \notin happened, NEW j \in Instances
        PROVE  step'[j] # "save"
    <3>1. \A k \in Instances : step[k] = "save" => running[k]
      BY DEF TypeOK, Delivering
    <3> QED BY <1>a, <2>1, <2>3, <2>4, <3>1 DEF TypeOK
  <2>5. ASSUME "rebalance" \notin happened, NEW n \in Notifications
        PROVE  Numbered(n)'
    <3>1. counted[i] = Cardinality(AttemptsOf(Record(i))) /\ Numbered(n)
      BY <2>1, <2>5 DEF NumberInv, At
    <3> QED BY <2>1, <3>1, NumbersGrow
  <2> QED BY <1>a, <2>1, <2>2, <2>4, <2>5 DEF NumberInv
<1>6. ASSUME NEW i \in Instances, DatabaseFails(i)
      PROVE  NumberInv'
  <2>1. /\ At(i, "count") \/ At(i, "save")
        /\ attempts' = attempts /\ happened \subseteq happened'
    BY <1>6, FaultCounted DEF DatabaseFails
  <2>2. CASE result[i] = "SUCCESS"
    <3>1. /\ step' = [step EXCEPT ![i] = "count"] /\ counted' = [counted EXCEPT ![i] = 0]
          /\ UNCHANGED readerVars
      BY <1>6, <2>2 DEF DatabaseFails, GoTo
    <3>2. \A j \in Instances : step'[j] # "save" \/ (step'[j] = step[j] /\ counted'[j] = counted[j])
      BY <3>1 DEF TypeOK
    <3> QED BY <1>a, <2>1, <3>1, <3>2, NumbersKept
  <2>3. CASE result[i] = "FAILED"
    <3>1. Throw(i) /\ ResetDelivery(i) /\ Delivering(i)
      BY <1>6, <2>1, <2>3 DEF DatabaseFails, Rethrow, At
    <3>2. /\ log' = log /\ owner' = owner
          /\ \A j \in Instances : j # i => running'[j] = running[j] /\ cursor'[j] = cursor[j]
      BY <3>1, ThrowTyped
    <3>3. \A j \in Instances : running'[j] => running[j]
      BY <3>1, <3>2 DEF Delivering
    <3>4. /\ step'[i] = "send"
          /\ \A j \in Instances : j # i => step'[j] = step[j] /\ counted'[j] = counted[j]
      BY <3>1 DEF ResetDelivery, GoTo, TypeOK
    <3>5. \A j \in Instances :
             \/ step'[j] # "save"
             \/ /\ step'[j] = step[j] /\ counted'[j] = counted[j]
                /\ cursor'[j] = cursor[j] /\ log'[cursor[j]] = log[cursor[j]]
      BY <3>2, <3>4
    <3> QED BY <1>a, <2>1, <3>2, <3>3, <3>5, NumbersKept
  <2> QED BY <2>2, <2>3 DEF TypeOK
<1>7. ASSUME NEW i \in Instances, Commit(i)
      PROVE  NumberInv'
  <2>1. UNCHANGED <<log, owner, running, cursor, happened, step, counted, attempts>>
    BY <1>7 DEF Commit, CommitOffset
  <2> QED BY <1>a, <2>1, NumbersKept
<1>8. ASSUME NEW i \in Instances, Restart(i)
      PROVE  NumberInv'
  <2>1. /\ Starts(i) /\ ~running[owner] /\ happened' = happened /\ step[i] = "send"
        /\ UNCHANGED <<step, counted, attempts>>
    BY <1>8 DEF Restart, Assign, Starts, TypeOK, Delivering
  <2>2. /\ log' = log /\ owner' = i
        /\ \A j \in Instances : j # i => running'[j] = running[j] /\ cursor'[j] = cursor[j]
    BY <2>1, StartsTyped
  <2>3. "rebalance" \notin happened => \A j \in Instances : running'[j] => owner' = j
    BY <1>a, <2>1, <2>2
  <2> QED BY <2>1, <2>2, <2>3, NumbersKept
<1>9. ASSUME NEW i \in Instances, TakeOver(i)
      PROVE  NumberInv'
  BY <1>9, FaultCounted DEF TakeOver, Rebalance, NumberInv
<1>10. ASSUME NEW i \in Instances, Stop(i)
       PROVE  NumberInv'
  <2>1. /\ log' = log /\ owner' = owner /\ cursor' = cursor
        /\ \A j \in Instances : running'[j] => running[j]
        /\ UNCHANGED <<happened, step, counted, attempts>>
    BY <1>10, LeaveTyped DEF Stop, LosePartition
  <2> QED BY <1>a, <2>1, NumbersKept
<1>11. ASSUME NEW i \in Instances, Crash(i)
       PROVE  NumberInv'
  <2>1. /\ log' = log /\ owner' = owner /\ cursor' = cursor
        /\ \A j \in Instances : running'[j] => running[j]
        /\ happened \subseteq happened' /\ attempts' = attempts /\ ResetDelivery(i)
    BY <1>11, LeaveTyped, FaultCounted DEF Crash, Die
  <2>2. \A j \in Instances : step'[j] # "save" \/ (step'[j] = step[j] /\ counted'[j] = counted[j])
    BY <2>1 DEF ResetDelivery, GoTo, TypeOK
  <2> QED BY <1>a, <2>1, <2>2, NumbersKept
<1>12. CASE UNCHANGED vars
  <2>1. UNCHANGED <<log, owner, running, cursor, happened, step, counted, attempts>>
    BY <1>12 DEF vars
  <2> QED BY <1>a, <2>1, NumbersKept
<1> QED BY <1>1, <1>2, <1>3, <1>4, <1>5, <1>6, <1>7, <1>8, <1>9, <1>10, <1>11, <1>12
           DEF Next, Consume

\* Whatever fails, the attempts of a notification are numbered from 1 without a
\* gap or a repetition, unless a take-over lets two instances count at once.
THEOREM AttemptsAreNumbered == Spec => []AttemptsNumbered
<1>1. Init => NumberInv
  <2>1. ASSUME Init, NEW n PROVE Numbered(n)
    <3>1. AttemptsOf(n) = {} /\ Numbers(n) = {}
      BY <2>1 DEF Init, AttemptsOf, Numbers
    <3>2. Cardinality({}) = 0 /\ 1 .. 0 = {}
      BY FS_EmptySet
    <3> QED BY <3>1, <3>2 DEF Numbered
  <2> QED BY <2>1 DEF Init, ConsumerInit, NumberInv
<1>2. TypeOK /\ NumberInv /\ [Next]_vars => NumberInv'
  BY NumberStep
<1>3. NumberInv => AttemptsNumbered
  BY DEF NumberInv, AttemptsNumbered, Numbered, Numbers
<1> QED BY <1>1, <1>2, <1>3, TypeCorrect, PTL DEF Spec

-----------------------------------------------------------------------------
(* Resends.                                                                *)
(*                                                                         *)
(* Every accepted send is charged to a pair of an offset and a token, no   *)
(* two to the same pair.  There is one token to begin with and one more    *)
(* for every fault.  An instance at work holds a token of its own, with    *)
(* which it passes each offset once; it gets a new one with the fault that *)
(* makes it go back, and who takes over gets that of the fault that made   *)
(* room for it.                                                            *)

Pairs == Offsets \X (0 .. faults)

\* Every send is charged.
ChargedTo(S, n) == {p \in S : log[p[1]] = n}
Paid(S) == \A n \in Notifications : sent[n] <= Cardinality(ChargedTo(S, n))

\* No token is held twice.
Apart(token) ==
    \A i, j \in Instances : running[i] /\ running[j] /\ i # j => token[i] # token[j]

\* What an instance has still to send is not charged to its token.
Ahead(S, token) ==
    \A i \in Instances : running[i] =>
        \A p \in S : p[2] = token[i] =>
            \/ p[1] < cursor[i]
            \/ p[1] = cursor[i] /\ step[i] # "send" /\ result[i] = "SUCCESS"

\* When the owner is gone, there is an unused token for the next one.
Unused(S, token, t) ==
    /\ \A p \in S : p[2] # t
    /\ \A i \in Instances : running[i] => token[i] # t
Spare(S, token) == ~running[owner] => \E t \in 0 .. faults : Unused(S, token, t)

Charged(S, token) == Paid(S) /\ Apart(token) /\ Ahead(S, token) /\ Spare(S, token)

ChargeInv ==
    \E S \in SUBSET Pairs : \E token \in [Instances -> 0 .. faults] : Charged(S, token)

\* There are finitely many charges.
LEMMA ChargesAreFinite ==
    ASSUME TypeOK, NEW S \in SUBSET Pairs, NEW n
    PROVE  /\ IsFiniteSet(ChargedTo(S, n)) /\ Cardinality(ChargedTo(S, n)) \in Nat
<1>1. IsFiniteSet(Offsets) /\ IsFiniteSet(0 .. faults)
  BY FS_Interval DEF TypeOK, ConsumerTypeOK
<1>2. IsFiniteSet(Pairs)
  BY <1>1, FS_Product DEF Pairs
<1>3. ChargedTo(S, n) \subseteq Pairs
  BY DEF ChargedTo
<1> QED BY <1>2, <1>3, FS_Subset, FS_CardinalityType

\* Charges stay while their records stay, and pay for what they paid for.
LEMMA PaidKept ==
    ASSUME NEW S, Paid(S), sent' = sent, \A p \in S : log'[p[1]] = log[p[1]]
    PROVE  Paid(S)'
<1>1. ASSUME NEW n PROVE ChargedTo(S, n)' = ChargedTo(S, n)
  BY DEF ChargedTo
<1> QED BY <1>1 DEF Paid

\* A new pair pays for one more send of its record.
LEMMA PaidMore ==
    ASSUME TypeOK, NEW S \in SUBSET Pairs, Paid(S), NEW c \in Pairs, c \notin S,
           NEW T, T = S \cup {c}, log' = log,
           sent' \in {sent, [sent EXCEPT ![log[c[1]]] = @ + 1]}
    PROVE  Paid(T)'
<1> SUFFICES ASSUME NEW n \in Notifications
             PROVE  sent'[n] <= Cardinality(ChargedTo(T, n)')
  BY DEF Paid
<1>1. /\ sent[n] \in Nat /\ sent[n] <= Cardinality(ChargedTo(S, n))
      /\ IsFiniteSet(ChargedTo(S, n)) /\ Cardinality(ChargedTo(S, n)) \in Nat
  BY ChargesAreFinite DEF Paid, TypeOK
<1>2. CASE n = log[c[1]]
  <2>1. ChargedTo(T, n)' = ChargedTo(S, n) \cup {c} /\ c \notin ChargedTo(S, n)
    BY <1>2 DEF ChargedTo
  <2>2. Cardinality(ChargedTo(T, n)') = Cardinality(ChargedTo(S, n)) + 1
    BY <1>1, <2>1, FS_AddElement
  <2>3. sent'[n] \in {sent[n], sent[n] + 1}
    BY <1>2 DEF TypeOK
  <2> QED BY <1>1, <2>2, <2>3
<1>3. CASE n # log[c[1]]
  <2>1. ChargedTo(T, n)' = ChargedTo(S, n)
    BY <1>3 DEF ChargedTo
  <2>2. sent'[n] = sent[n]
    BY <1>3 DEF TypeOK
  <2> QED BY <1>1, <2>1, <2>2
<1> QED BY <1>2, <1>3

\* Steps that send nothing and are no fault: whoever goes on is not behind where
\* it was, or was to repeat the record in any case.
LEMMA ChargeKept ==
    ASSUME TypeOK, NEW S \in SUBSET Pairs, NEW token \in [Instances -> 0 .. faults],
           Charged(S, token),
           sent' = sent, log' = log, faults' = faults, owner' = owner,
           running[owner] => running'[owner],
           \A i \in Instances : running'[i] =>
               /\ running[i]
               /\ \/ cursor'[i] = cursor[i] + 1
                  \/ /\ cursor'[i] = cursor[i]
                     /\ step[i] # "send" /\ result[i] = "SUCCESS"
                           => step'[i] # "send" /\ result'[i] = "SUCCESS"
    PROVE  ChargeInv'
<1>1. Pairs' = Pairs /\ \A i \in Instances : cursor[i] \in Nat
  BY DEF Pairs, TypeOK, ConsumerTypeOK
<1>2. Paid(S)'
  BY PaidKept DEF Charged
<1>3. Apart(token)'
  BY DEF Charged, Apart
<1>4. Ahead(S, token)'
  <2> SUFFICES ASSUME NEW i \in Instances, running'[i], NEW p \in S, p[2] = token[i]
               PROVE  \/ p[1] < cursor'[i]
                      \/ p[1] = cursor'[i] /\ step'[i] # "send" /\ result'[i] = "SUCCESS"
    BY DEF Ahead
  <2>1. \/ p[1] < cursor[i]
        \/ p[1] = cursor[i] /\ step[i] # "send" /\ result[i] = "SUCCESS"
    BY DEF Charged, Ahead
  <2>2. p[1] \in Nat
    BY DEF Pairs, TypeOK
  <2> QED BY <1>1, <2>1, <2>2
<1>5. Spare(S, token)'
  BY DEF Charged, Spare, Unused
<1> QED BY <1>1, <1>2, <1>3, <1>4, <1>5 DEF ChargeInv, Charged

\* Faults: whatever one makes instance i do, i has a new token for it.
LEMMA FreshToken ==
    ASSUME TypeOK, NEW S \in SUBSET Pairs, NEW token \in [Instances -> 0 .. faults],
           Charged(S, token), NEW i \in Instances,
           NEW T \in SUBSET Pairs, S \subseteq T,
           \A p \in T \ S : running[i] /\ p[2] = token[i],
           Paid(T)', log' = log, faults' = faults + 1, owner' \in {owner, i},
           \A j \in Instances : j # i =>
               /\ running'[j] = running[j] /\ cursor'[j] = cursor[j]
               /\ step'[j] = step[j] /\ result'[j] = result[j]
    PROVE  ChargeInv'
<1>1. faults \in Nat /\ owner \in Instances
  BY DEF TypeOK, ConsumerTypeOK
<1>2. Pairs \subseteq Pairs' /\ \A p \in Pairs : p[2] \in 0 .. faults
  BY <1>1 DEF Pairs
<1>3. PICK next : next = [token EXCEPT ![i] = faults + 1]
  OBVIOUS
<1>4. /\ next \in [Instances -> 0 .. faults']
      /\ next[i] = faults + 1
      /\ \A j \in Instances : j # i => next[j] = token[j] /\ next[j] \in 0 .. faults
  BY <1>1, <1>3
<1>5. \A t \in 0 .. faults : t # faults + 1
  BY <1>1
<1>6. Apart(next)'
  BY <1>4, <1>5 DEF Charged, Apart
<1>7. Ahead(T, next)'
  <2> SUFFICES ASSUME NEW j \in Instances, running'[j], NEW p \in T, p[2] = next[j]
               PROVE  \/ p[1] < cursor'[j]
                      \/ p[1] = cursor'[j] /\ step'[j] # "send" /\ result'[j] = "SUCCESS"
    BY DEF Ahead
  <2>1. j # i
    BY <1>2, <1>4, <1>5
  <2>2. running[j] /\ p[2] = token[j]
    BY <1>4, <2>1
  <2>3. p \in S
    BY <2>1, <2>2 DEF Charged, Apart
  <2> QED BY <2>1, <2>2, <2>3 DEF Charged, Ahead
<1>8. Spare(T, next)'
  <2> SUFFICES ASSUME ~running'[owner']
               PROVE  \E t \in 0 .. faults' : Unused(T, next, t)'
    BY DEF Spare
  <2>1. CASE ~running'[i]
    <3>1. faults + 1 \in 0 .. faults'
      BY <1>1
    <3>2. \A p \in T : p[2] # faults + 1
      BY <1>2, <1>5
    <3>3. \A j \in Instances : running'[j] => next[j] # faults + 1
      BY <1>4, <1>5, <2>1
    <3>4. PICK t : t = faults + 1
      OBVIOUS
    <3>5. Unused(T, next, t)'
      BY <3>2, <3>3, <3>4 DEF Unused
    <3> QED BY <3>1, <3>4, <3>5
  <2>2. CASE running'[i]
    <3>1. owner' = owner /\ owner # i /\ ~running[owner]
      BY <1>1, <2>2
    <3>2. PICK t \in 0 .. faults : Unused(S, token, t)
      BY <3>1 DEF Charged, Spare
    <3>3. \A p \in T : p[2] # t
      BY <3>2 DEF Unused
    <3>4. \A j \in Instances : running'[j] => next[j] # t
      BY <1>4, <1>5, <3>2 DEF Unused
    <3>5. Unused(T, next, t)' /\ t \in 0 .. faults'
      BY <1>1, <3>3, <3>4 DEF Unused
    <3> QED BY <3>5
  <2> QED BY <2>1, <2>2
<1> QED BY <1>2, <1>4, <1>6, <1>7, <1>8 DEF ChargeInv, Charged

LEMMA ChargeStep ==
    ASSUME TypeOK, TriesInv, NEW S \in SUBSET Pairs, NEW token \in [Instances -> 0 .. faults],
           Charged(S, token), [Next]_vars
    PROVE  ChargeInv'
<1>a. \A p \in S : p[1] \in Offsets /\ p[2] \in 0 .. faults
  BY DEF Pairs
<1>1. ASSUME NEW n \in Notifications, Request(n)
      PROVE  ChargeInv'
  <2>1. /\ Len(log) \in Nat /\ Len(log') = Len(log) + 1 /\ \A o \in Offsets : log'[o] = log[o]
        /\ UNCHANGED <<owner, running, cursor, faults, step, result, sent>>
    BY <1>1, AppendElements DEF Request, Append1, TypeOK
  <2>2. S \in SUBSET Pairs' /\ token \in [Instances -> 0 .. faults']
    BY <1>a, <2>1 DEF Pairs
  <2>3. Paid(S)'
    BY <1>a, <2>1, PaidKept DEF Charged
  <2>4. Apart(token)' /\ Ahead(S, token)' /\ Spare(S, token)'
    BY <2>1 DEF Charged, Apart, Ahead, Spare, Unused
  <2> QED BY <2>2, <2>3, <2>4 DEF ChargeInv, Charged
<1>2. ASSUME NEW i \in Instances, SendToProvider(i)
      PROVE  ChargeInv'
  <2>1. /\ Delivering(i) /\ running[i] /\ cursor[i] \in Offsets /\ step[i] = "send"
        /\ sent' = [sent EXCEPT ![log[cursor[i]]] = @ + 1]
        /\ step' = [step EXCEPT ![i] = "count"] /\ UNCHANGED <<consumerVars, result>>
    BY <1>2 DEF SendToProvider, At, Delivering, Record, GoTo
  <2>2. PICK c : c = <<cursor[i], token[i]>>
    OBVIOUS
  <2>3. c \in Pairs /\ c[1] = cursor[i] /\ c[2] = token[i]
    BY <2>1, <2>2 DEF Pairs
  <2>4. c \notin S
    BY <2>1, <2>3 DEF Charged, Ahead, TypeOK
  <2>5. PICK T : T = S \cup {c}
    OBVIOUS
  <2>6. T \in SUBSET Pairs' /\ token \in [Instances -> 0 .. faults']
    BY <2>1, <2>3, <2>5 DEF Pairs
  <2>7. Paid(T)'
    BY <2>1, <2>3, <2>4, <2>5, PaidMore DEF Charged
  <2>8. Apart(token)'
    BY <2>1 DEF Charged, Apart
  <2>9. Ahead(T, token)'
    <3> SUFFICES ASSUME NEW j \in Instances, running[j], NEW p \in T, p[2] = token[j]
                 PROVE  \/ p[1] < cursor[j]
                        \/ p[1] = cursor[j] /\ step'[j] # "send" /\ result[j] = "SUCCESS"
      BY <2>1 DEF Ahead
    <3>1. CASE p \in S
      <4>1. step'[j] = step[j] \/ step'[j] = "count"
        BY <2>1 DEF TypeOK
      <4> QED BY <3>1, <4>1 DEF Charged, Ahead
    <3>2. CASE p = c
      <4>1. j = i
        BY <2>1, <2>3, <3>2 DEF Charged, Apart
      <4>2. step'[i] = "count"
        BY <2>1 DEF TypeOK
      <4>3. result[i] = "SUCCESS"
        BY <2>1 DEF TriesInv
      <4> QED BY <2>3, <3>2, <4>1, <4>2, <4>3
    <3> QED BY <2>5, <3>1, <3>2
  <2>10. Spare(T, token)'
    <3> SUFFICES ASSUME ~running[owner]
                 PROVE  \E t \in 0 .. faults : Unused(T, token, t)'
      BY <2>1 DEF Spare
    <3>1. PICK t \in 0 .. faults : Unused(S, token, t)
      BY DEF Charged, Spare
    <3>2. Unused(T, token, t)'
      BY <2>1, <2>3, <2>5, <3>1 DEF Unused
    <3> QED BY <3>2
  <2> QED BY <2>6, <2>7, <2>8, <2>9, <2>10 DEF ChargeInv, Charged
<1>3. ASSUME NEW i \in Instances, ProviderFails(i)
      PROVE  ChargeInv'
  <2>1. /\ Delivering(i) /\ running[i] /\ cursor[i] \in Offsets /\ step[i] = "send"
        /\ sent' \in {sent, [sent EXCEPT ![log[cursor[i]]] = @ + 1]}
        /\ faults' = faults + 1 /\ UNCHANGED readerVars
    BY <1>3, FaultCounted DEF ProviderFails, At, Delivering, Record
  <2>2. \A j \in Instances : j # i => step'[j] = step[j] /\ result'[j] = result[j]
    BY <1>3 DEF ProviderFails, GoTo, TypeOK
  <2>3. PICK c : c = <<cursor[i], token[i]>>
    OBVIOUS
  <2>4. c \in Pairs /\ c[1] = cursor[i] /\ c[2] = token[i]
    BY <2>1, <2>3 DEF Pairs
  <2>5. c \notin S
    BY <2>1, <2>4 DEF Charged, Ahead, TypeOK
  <2>6. PICK T : T = S \cup {c}
    OBVIOUS
  <2>7. Paid(T)'
    BY <2>1, <2>4, <2>5, <2>6, PaidMore DEF Charged
  <2>8. T \in SUBSET Pairs /\ S \subseteq T /\ \A p \in T \ S : running[i] /\ p[2] = token[i]
    BY <2>1, <2>4, <2>6
  <2> QED BY <2>1, <2>2, <2>7, <2>8, FreshToken
<1>4. ASSUME NEW i \in Instances, CountAttempts(i)
      PROVE  ChargeInv'
  <2>1. /\ UNCHANGED <<consumerVars, result, sent>>
        /\ \A j \in Instances : step'[j] = step[j] \/ step'[j] # "send"
    BY <1>4 DEF CountAttempts, GoTo, TypeOK
  <2> QED BY <2>1, ChargeKept
<1>5. ASSUME NEW i \in Instances, SaveAttempt(i)
      PROVE  ChargeInv'
  <2>1. /\ At(i, "save") /\ Delivering(i) /\ running[i] /\ ResetDelivery(i)
        /\ UNCHANGED <<faults, sent>>
    BY <1>5 DEF SaveAttempt, At, Delivering
  <2>2. \A j \in Instances : j # i => step'[j] = step[j] /\ result'[j] = result[j]
    BY <2>1 DEF ResetDelivery, GoTo, TypeOK
  <2>3. CASE result[i] = "SUCCESS"
    <3>1. /\ UNCHANGED <<log, owner, running>> /\ cursor'[i] = cursor[i] + 1
          /\ \A j \in Instances : j # i => cursor'[j] = cursor[j]
      BY <1>5, <2>3 DEF SaveAttempt, Succeed, TypeOK, ConsumerTypeOK
    <3>2. \A j \in Instances : running'[j] =>
             /\ running[j]
             /\ \/ cursor'[j] = cursor[j] + 1
                \/ cursor'[j] = cursor[j] /\ step'[j] = step[j] /\ result'[j] = result[j]
      BY <2>2, <3>1
    <3> QED BY <2>1, <3>1, <3>2, ChargeKept
  <2>4. CASE result[i] = "FAILED"
    <3>1. Throw(i)
      BY <1>5, <2>4 DEF SaveAttempt, Rethrow
    <3>2. /\ UNCHANGED <<log, owner>> /\ (running[owner] => running'[owner])
          /\ cursor'[i] \in {cursor[i], cursor[i] + 1}
          /\ \A j \in Instances : j # i => running'[j] = running[j] /\ cursor'[j] = cursor[j]
      BY <2>1, <3>1, ThrowTyped, ThrowTries DEF TypeOK, ConsumerTypeOK
    <3>3. \A j \in Instances : running'[j] =>
             /\ running[j]
             /\ \/ cursor'[j] = cursor[j] + 1
                \/ /\ cursor'[j] = cursor[j]
                   /\ result[j] = "FAILED" \/ (step'[j] = step[j] /\ result'[j] = result[j])
      BY <2>1, <2>2, <2>4, <3>2
    <3>4. \A j \in Instances : running'[j] =>
             /\ running[j]
             /\ \/ cursor'[j] = cursor[j] + 1
                \/ /\ cursor'[j] = cursor[j]
                   /\ step[j] # "send" /\ result[j] = "SUCCESS"
                         => step'[j] # "send" /\ result'[j] = "SUCCESS"
      BY <3>3
    <3> QED BY <2>1, <3>2, <3>4, ChargeKept
  <2> QED BY <2>3, <2>4 DEF TypeOK
<1>6. ASSUME NEW i \in Instances, DatabaseFails(i)
      PROVE  ChargeInv'
  <2>1. /\ At(i, "count") \/ At(i, "save")
        /\ faults' = faults + 1 /\ UNCHANGED sent
    BY <1>6, FaultCounted DEF DatabaseFails
  <2>2. /\ log' = log /\ owner' = owner
        /\ \A j \in Instances : j # i =>
              /\ running'[j] = running[j] /\ cursor'[j] = cursor[j]
              /\ step'[j] = step[j] /\ result'[j] = result[j]
    <3>1. CASE result[i] = "SUCCESS"
      BY <1>6, <3>1 DEF DatabaseFails, GoTo, TypeOK
    <3>2. CASE result[i] = "FAILED"
      <4>1. Throw(i) /\ ResetDelivery(i) /\ Delivering(i)
        BY <1>6, <2>1, <3>2 DEF DatabaseFails, Rethrow, At
      <4> QED BY <4>1, ThrowTyped DEF ResetDelivery, GoTo, TypeOK
    <3> QED BY <3>1, <3>2 DEF TypeOK
  <2>3. Paid(S)'
    BY <2>1, <2>2, PaidKept DEF Charged
  <2> QED BY <2>1, <2>2, <2>3, FreshToken
<1>7. ASSUME NEW i \in Instances, Commit(i)
      PROVE  ChargeInv'
  <2>1. UNCHANGED <<log, owner, running, cursor, faults, step, result, sent>>
    BY <1>7 DEF Commit, CommitOffset
  <2> QED BY <2>1, ChargeKept
<1>8. ASSUME NEW i \in Instances, Restart(i)
      PROVE  ChargeInv'
  <2>1. /\ Starts(i) /\ ~running[owner] /\ UNCHANGED <<faults, step, result, sent>>
    BY <1>8 DEF Restart, Assign
  <2>2. /\ UNCHANGED log /\ owner' = i /\ running'[i]
        /\ \A j \in Instances : j # i => running'[j] = running[j] /\ cursor'[j] = cursor[j]
    BY <2>1, StartsTyped
  <2>3. PICK t \in 0 .. faults : Unused(S, token, t)
    BY <2>1 DEF Charged, Spare
  <2>4. PICK next : next = [token EXCEPT ![i] = t]
    OBVIOUS
  <2>5. /\ next \in [Instances -> 0 .. faults] /\ next[i] = t
        /\ \A j \in Instances : j # i => next[j] = token[j]
    BY <2>3, <2>4
  <2>6. Pairs' = Pairs
    BY <2>1, <2>2 DEF Pairs
  <2>7. Paid(S)'
    BY <2>1, <2>2, PaidKept DEF Charged
  <2>8. Apart(next)'
    BY <2>2, <2>3, <2>5 DEF Charged, Apart, Unused
  <2>9. Ahead(S, next)'
    BY <2>1, <2>2, <2>3, <2>5 DEF Charged, Ahead, Unused
  <2>10. Spare(S, next)'
    BY <2>2 DEF Spare
  <2> QED BY <2>1, <2>5, <2>6, <2>7, <2>8, <2>9, <2>10 DEF ChargeInv, Charged
<1>9. ASSUME NEW i \in Instances, TakeOver(i)
      PROVE  ChargeInv'
  <2>1. /\ Starts(i) /\ faults' = faults + 1 /\ UNCHANGED <<step, result, sent>>
    BY <1>9, FaultCounted DEF TakeOver, Rebalance
  <2>2. /\ UNCHANGED log /\ owner' = i
        /\ \A j \in Instances : j # i => running'[j] = running[j] /\ cursor'[j] = cursor[j]
    BY <2>1, StartsTyped
  <2>3. Paid(S)'
    BY <2>1, <2>2, PaidKept DEF Charged
  <2> QED BY <2>1, <2>2, <2>3, FreshToken
<1>10. ASSUME NEW i \in Instances, Stop(i)
       PROVE  ChargeInv'
  <2>1. /\ owner # i /\ Leave(i) /\ UNCHANGED <<faults, step, result, sent>>
    BY <1>10 DEF Stop, LosePartition
  <2>2. /\ UNCHANGED <<log, owner, cursor>> /\ ~running'[i]
        /\ \A j \in Instances : j # i => running'[j] = running[j]
    BY <2>1, LeaveTyped
  <2>3. owner \in Instances
    BY DEF TypeOK, ConsumerTypeOK
  <2> QED BY <2>1, <2>2, <2>3, ChargeKept
<1>11. ASSUME NEW i \in Instances, Crash(i)
       PROVE  ChargeInv'
  <2>1. /\ Leave(i) /\ faults' = faults + 1 /\ ResetDelivery(i) /\ UNCHANGED sent
    BY <1>11, FaultCounted DEF Crash, Die
  <2>2. /\ UNCHANGED <<log, owner, cursor>>
        /\ \A j \in Instances : j # i => running'[j] = running[j]
    BY <2>1, LeaveTyped
  <2>3. \A j \in Instances : j # i => step'[j] = step[j] /\ result'[j] = result[j]
    BY <2>1 DEF ResetDelivery, GoTo, TypeOK
  <2>4. Paid(S)'
    BY <2>1, <2>2, PaidKept DEF Charged
  <2> QED BY <2>1, <2>2, <2>3, <2>4, FreshToken
<1>12. CASE UNCHANGED vars
  <2>1. UNCHANGED <<log, owner, running, cursor, faults, step, result, sent>>
    BY <1>12 DEF vars
  <2> QED BY <2>1, ChargeKept
<1> QED BY <1>1, <1>2, <1>3, <1>4, <1>5, <1>6, <1>7, <1>8, <1>9, <1>10, <1>11, <1>12
           DEF Next, Consume

\* There are as many pairs for a notification as copies of it times tokens.
LEMMA ChargesAreBounded ==
    ASSUME TypeOK, NEW S \in SUBSET Pairs, NEW n
    PROVE  Cardinality(ChargedTo(S, n)) <= Copies(n) * (1 + faults)
<1> DEFINE Os == {o \in Offsets : log[o] = n}
<1>1. /\ IsFiniteSet(Offsets) /\ IsFiniteSet(0 .. faults) /\ faults \in Nat
      /\ Cardinality(0 .. faults) = faults + 1
  BY FS_Interval DEF TypeOK, ConsumerTypeOK
<1>2. IsFiniteSet(Os)
  BY <1>1, FS_Subset
<1>3. /\ IsFiniteSet(Os \X (0 .. faults))
      /\ Cardinality(Os \X (0 .. faults)) = Cardinality(Os) * (faults + 1)
  BY <1>1, <1>2, FS_Product
<1>4. ChargedTo(S, n) \subseteq Os \X (0 .. faults)
  BY DEF ChargedTo, Pairs
<1>5. Cardinality(ChargedTo(S, n)) <= Cardinality(Os \X (0 .. faults))
  BY <1>3, <1>4, FS_Subset
<1>6. Copies(n) = Cardinality(Os) /\ 1 + faults = faults + 1
  BY <1>1 DEF Copies
<1> QED BY <1>3, <1>5, <1>6

\* The recipient gets a message again only for another copy in the topic or for a
\* fault, however often the partition changes hands.
THEOREM ResendsAreCaused == Spec => []ResendsHaveCause
<1>1. Init => ChargeInv
  <2> SUFFICES ASSUME Init PROVE ChargeInv
    OBVIOUS
  <2>1. {} \in SUBSET Pairs /\ [i \in Instances |-> 0] \in [Instances -> 0 .. faults]
    BY DEF Init, ConsumerInit
  <2>2. Paid({})
    <3>1. ASSUME NEW n \in Notifications
          PROVE  sent[n] = 0 /\ Cardinality(ChargedTo({}, n)) = 0
      <4>1. ChargedTo({}, n) = {} /\ Cardinality({}) = 0
        BY FS_EmptySet DEF ChargedTo
      <4> QED BY <4>1 DEF Init
    <3> QED BY <3>1 DEF Paid
  <2>3. Apart([i \in Instances |-> 0]) /\ Ahead({}, [i \in Instances |-> 0])
    BY DEF Init, ConsumerInit, Apart, Ahead
  <2>4. Unused({}, [i \in Instances |-> 0], 0) /\ 0 \in 0 .. faults
    BY DEF Init, ConsumerInit, Unused
  <2> QED BY <2>1, <2>2, <2>3, <2>4 DEF ChargeInv, Charged, Spare
<1>2. TypeOK /\ TriesInv /\ ChargeInv /\ [Next]_vars => ChargeInv'
  BY ChargeStep DEF ChargeInv
<1>3. TypeOK /\ ChargeInv => ResendsHaveCause
  <2> SUFFICES ASSUME TypeOK, NEW S \in SUBSET Pairs, Paid(S), NEW n \in Notifications
               PROVE  sent[n] <= Copies(n) * (1 + faults)
    BY DEF ChargeInv, Charged, ResendsHaveCause
  <2>1. sent[n] <= Cardinality(ChargedTo(S, n)) /\ sent[n] \in Nat
    BY DEF Paid, TypeOK
  <2>2. Cardinality(ChargedTo(S, n)) \in Nat
    BY ChargesAreFinite
  <2>3. Cardinality(ChargedTo(S, n)) <= Copies(n) * (1 + faults)
    BY ChargesAreBounded
  <2>4. Copies(n) * (1 + faults) \in Nat
    <3>1. IsFiniteSet(Offsets)
      BY FS_Interval DEF TypeOK
    <3>2. Copies(n) \in Nat /\ faults \in Nat
      BY <3>1, FS_Subset, FS_CardinalityType DEF Copies, TypeOK, ConsumerTypeOK
    <3> QED BY <3>2
  <2> HIDE DEF Copies
  <2> QED BY <2>1, <2>2, <2>3, <2>4
<1> QED BY <1>1, <1>2, <1>3, TypeCorrect, TriesCounted, PTL DEF Spec


-----------------------------------------------------------------------------
(* Summaries of attempts.                                                  *)

\* A set of numbers has a least one.
LEMMA LeastNumber ==
    ASSUME NEW T \in SUBSET Nat, T # {}
    PROVE  \E m \in T : \A k \in T : m <= k
<1>1. PICK m \in T : \A k \in T : ~ (<<k, m>> \in OpToRel(<, Nat))
  BY WFMin, NatLessThanWellFounded, Zenon
<1>2. \A k \in T : ~ (<<k, m>> \in {ss \in Nat \X Nat : ss[1] < ss[2]})
  BY <1>1, Zenon DEF OpToRel
<1>3. ASSUME NEW k \in T PROVE m <= k
  <2>1. k \in Nat /\ m \in Nat
    OBVIOUS
  <2>2. ~ (k < m)
    BY <1>2, <2>1
  <2> QED BY <2>1, <2>2
<1> QED BY <1>3

\* The numbers in a part of a finite table are bounded.
LEMMA NumbersAreBounded ==
    ASSUME NEW L \in Nat, NEW f \in [1 .. L -> Nat]
    PROVE  \E b \in Nat : \A k \in 1 .. L : f[k] <= b
<1> DEFINE Bounded(n) == \E b \in Nat : \A k \in 1 .. L : k <= n => f[k] <= b
           T == {n \in Nat : ~Bounded(n)}
<1>1. CASE T = {}
  <2>1. Bounded(L)
    BY <1>1
  <2> QED BY <2>1
<1>2. CASE T # {}
  <2>1. PICK n \in T : \A k \in T : n <= k
    BY <1>2, LeastNumber
  <2>2. n # 0
    <3>1. \A k \in 1 .. L : k <= 0 => f[k] <= 0
      OBVIOUS
    <3> QED BY <2>1, <3>1
  <2>3. PICK b \in Nat : \A k \in 1 .. L : k <= n - 1 => f[k] <= b
    <3>1. n \in Nat /\ n - 1 \in Nat /\ ~(n <= n - 1)
      BY <2>1, <2>2
    <3>2. n - 1 \notin T
      BY <2>1, <3>1
    <3>3. Bounded(n - 1)
      BY <3>1, <3>2
    <3> QED BY <3>3
  <2>4. CASE n \in 1 .. L
    <3>1. PICK c \in Nat : c = f[n]
      BY <2>4
    <3>2. \A k \in 1 .. L : k <= n => f[k] <= b + c
      <4> SUFFICES ASSUME NEW k \in 1 .. L, k <= n PROVE f[k] <= b + c
        OBVIOUS
      <4>1. f[k] \in Nat
        OBVIOUS
      <4>2. CASE k = n
        BY <3>1, <4>2
      <4>3. CASE k <= n - 1
        <5>1. f[k] <= b
          BY <2>3, <4>3
        <5> QED BY <4>1, <5>1
      <4> QED BY <2>1, <4>2, <4>3
    <3>3. b + c \in Nat
      OBVIOUS
    <3> QED BY <2>1, <3>2, <3>3
  <2>5. CASE n \notin 1 .. L
    <3>1. \A k \in 1 .. L : k <= n => f[k] <= b
      BY <2>1, <2>3, <2>5
    <3> QED BY <2>1, <3>1
  <2> QED BY <2>4, <2>5
<1> QED BY <1>1, <1>2

\* Among rows there is a first one with the largest number.
LEMMA LatestIsARow ==
    ASSUME TypeOK, NEW rows \in SUBSET DOMAIN attempts, rows # {}
    PROVE  \E k \in rows : latest(rows) = attempts[k]
<1> DEFINE no(k) == attempts[k].no
<1>1. /\ Len(attempts) \in Nat /\ DOMAIN attempts = 1 .. Len(attempts)
      /\ \A k \in DOMAIN attempts : no(k) \in Nat
  <2>1. attempts \in Seq(RowType)
    BY DEF TypeOK, RowType
  <2>2. /\ Len(attempts) \in Nat /\ DOMAIN attempts = 1 .. Len(attempts)
        /\ \A k \in DOMAIN attempts : attempts[k] \in RowType
    BY <2>1
  <2> QED BY <2>2 DEF RowType
<1>2. PICK b \in Nat : \A k \in DOMAIN attempts : no(k) <= b
  <2> DEFINE f == [k \in 1 .. Len(attempts) |-> no(k)]
  <2>1. f \in [1 .. Len(attempts) -> Nat]
    BY <1>1
  <2>2. \E b \in Nat : \A k \in 1 .. Len(attempts) : f[k] <= b
    BY <1>1, <2>1, NumbersAreBounded
  <2> QED BY <1>1, <2>2
<1> HIDE DEF no
<1>3. PICK h \in rows : \A l \in rows : no(l) <= no(h)
  <2> DEFINE T == {b - no(k) : k \in rows}
  <2>1. T \in SUBSET Nat /\ T # {}
    BY <1>1, <1>2
  <2>2. PICK m \in T : \A t \in T : m <= t
    BY <2>1, LeastNumber
  <2>3. PICK h \in rows : m = b - no(h)
    OBVIOUS
  <2>4. \A l \in rows : b - no(h) <= b - no(l)
    BY <2>2, <2>3
  <2>5. \A l \in rows : no(l) <= no(h)
    BY <1>1, <2>4
  <2> QED BY <2>5
<1>4. PICK k \in rows : no(k) = no(h) /\ \A l \in rows : no(l) = no(h) => k <= l
  <2> DEFINE T == {k \in rows : no(k) = no(h)}
  <2>1. T \in SUBSET Nat /\ T # {}
    BY <1>1
  <2>2. PICK m \in T : \A t \in T : m <= t
    BY <2>1, LeastNumber
  <2> QED BY <2>2
<1>5. \A l \in rows : no(l) <= no(k)
  BY <1>3, <1>4
<1>6. \A l \in rows : l < k => no(l) < no(k)
  <2> SUFFICES ASSUME NEW l \in rows, l < k PROVE no(l) < no(k)
    OBVIOUS
  <2>1. l \in Nat /\ k \in Nat /\ no(l) \in Nat /\ no(k) \in Nat
    BY <1>1
  <2>2. no(l) # no(h)
    BY <1>4, <2>1
  <2> QED BY <1>4, <1>5, <2>1, <2>2
<1>7. PICK c : c = CHOOSE j \in rows : /\ \A l \in rows : attempts[l].no <= attempts[j].no
                                       /\ \A l \in rows : l < j => attempts[l].no < attempts[j].no
  OBVIOUS
<1>8. c \in rows
  BY <1>5, <1>6, <1>7 DEF no
<1>9. latest(rows) = attempts[c]
  BY <1>7 DEF latest
<1> QED BY <1>8, <1>9

\* A delivery of a message for n threw.
Threw(n) == \E o \in Offsets : log[o] = n /\ failed[o] > 0

\* A row that says SUCCESS, and a listener about to write one, has had its message
\* accepted; a row that says FAILED was written by a delivery that threw.
SummaryInv ==
    /\ \A k \in DOMAIN attempts :
          attempts[k].result = "SUCCESS" => sent[attempts[k].notification] > 0
    /\ \A i \in Instances : step[i] # "send" /\ result[i] = "SUCCESS" => sent[Record(i)] > 0
    /\ \A k \in DOMAIN attempts :
          attempts[k].result = "FAILED" => Threw(attempts[k].notification)

\* What threw stays in the topic, and stays counted.
LEMMA LogStep ==
    ASSUME TypeOK, [Next]_vars
    PROVE  \A o \in Offsets : o \in Offsets' /\ log'[o] = log[o]
<1>1. CASE log' = log
  BY <1>1
<1>2. ASSUME NEW n \in Notifications, Request(n)
      PROVE  \A o \in Offsets : o \in Offsets' /\ log'[o] = log[o]
  BY <1>2, AppendElements DEF Request, Append1, TypeOK
<1>3. log' = log \/ \E n \in Notifications : Request(n)
  <2>1. ASSUME NEW i \in Instances, SaveAttempt(i) \/ DatabaseFails(i)
        PROVE  log' = log
    BY <2>1 DEF SaveAttempt, DatabaseFails, Succeed, Rethrow, Throw
  <2>2. ASSUME NEW i \in Instances, SendToProvider(i) \/ ProviderFails(i) \/ CountAttempts(i)
        PROVE  log' = log
    BY <2>2 DEF SendToProvider, ProviderFails, CountAttempts
  <2>3. ASSUME NEW i \in Instances,
               Commit(i) \/ Restart(i) \/ TakeOver(i) \/ Stop(i) \/ Crash(i)
        PROVE  log' = log
    BY <2>3 DEF Commit, CommitOffset, Restart, Assign, TakeOver, Rebalance, Starts, Stop,
                LosePartition, Crash, Die, Leave
  <2>4. CASE UNCHANGED vars
    BY <2>4 DEF vars
  <2> QED BY <2>1, <2>2, <2>3, <2>4 DEF Next, Consume
<1> QED BY <1>1, <1>2, <1>3

LEMMA ThrewStays ==
    ASSUME TypeOK, [Next]_vars, NEW n, Threw(n)
    PROVE  Threw(n)'
<1>1. PICK o \in Offsets : log[o] = n /\ failed[o] > 0
  BY DEF Threw
<1>2. o \in 1 .. MaxRecords
  BY Counts
<1>3. failed'[o] > 0
  BY <1>1, <1>2, Counts
<1> QED BY <1>1, <1>3, LogStep DEF Threw

\* Steps that insert no row.
LEMMA SummaryKept ==
    ASSUME TypeOK, SummaryInv, [Next]_vars, attempts' = attempts,
           \A n \in Notifications : sent[n] > 0 => sent'[n] > 0,
           \A i \in Instances : step'[i] # "send" /\ result'[i] = "SUCCESS" =>
               \/ step[i] # "send" /\ result[i] = "SUCCESS" /\ Record(i)' = Record(i)
               \/ sent'[Record(i)'] > 0
    PROVE  SummaryInv'
<1>1. \A k \in DOMAIN attempts : attempts[k].notification \in Notifications
  <2>1. attempts \in Seq(RowType)
    BY DEF TypeOK, RowType
  <2>2. \A k \in DOMAIN attempts : attempts[k] \in RowType
    BY <2>1
  <2> QED BY <2>2 DEF RowType
<1>2. \A i \in Instances : step[i] # "send" => Record(i) \in Notifications
  BY RowIsTyped DEF TypeOK
<1>4. \A k \in DOMAIN attempts' :
         attempts'[k].result = "SUCCESS" => sent'[attempts'[k].notification] > 0
  BY <1>1 DEF SummaryInv
<1>5. \A i \in Instances : step'[i] # "send" /\ result'[i] = "SUCCESS" => sent'[Record(i)'] > 0
  BY <1>2 DEF SummaryInv
<1>6. ASSUME NEW k \in DOMAIN attempts', attempts'[k].result = "FAILED"
      PROVE  Threw(attempts[k].notification)'
  <2>1. PICK n : n = attempts[k].notification
    OBVIOUS
  <2>2. Threw(n)
    BY <1>6, <2>1 DEF SummaryInv
  <2>3. Threw(n)'
    BY <2>2, ThrewStays
  <2> QED BY <2>1, <2>3
<1> QED BY <1>4, <1>5, <1>6 DEF SummaryInv

LEMMA SummaryStep == TypeOK /\ SummaryInv /\ [Next]_vars => SummaryInv'
<1> SUFFICES ASSUME TypeOK, SummaryInv, [Next]_vars
             PROVE  SummaryInv'
  OBVIOUS
<1>a. \A i \in Instances : step[i] # "send" => cursor[i] \in Offsets
  BY DEF TypeOK, Delivering
<1>b. faults \in Nat /\ \A n \in Notifications : sent[n] \in Nat
  BY DEF TypeOK, ConsumerTypeOK
<1>1. ASSUME NEW n \in Notifications, Request(n)
      PROVE  SummaryInv'
  <2>1. \A o \in Offsets : log'[o] = log[o]
    BY <1>1, AppendElements DEF Request, Append1, TypeOK
  <2>2. UNCHANGED <<cursor, faults, step, result, sent, attempts>>
    BY <1>1 DEF Request, Append1
  <2>3. \A i \in Instances : step[i] # "send" => Record(i)' = Record(i)
    BY <1>a, <2>1, <2>2 DEF Record
  <2> QED BY <2>2, <2>3, SummaryKept
<1>2. ASSUME NEW i \in Instances, SendToProvider(i)
      PROVE  SummaryInv'
  <2>1. /\ At(i, "send") /\ Record(i) \in Notifications
        /\ UNCHANGED <<log, cursor, faults, result, attempts>>
        /\ sent' = [sent EXCEPT ![Record(i)] = @ + 1]
        /\ step' = [step EXCEPT ![i] = "count"]
    BY <1>2, RowIsTyped DEF SendToProvider, At, GoTo
  <2>2. /\ \A n \in Notifications : sent[n] > 0 => sent'[n] > 0
        /\ sent'[Record(i)] > 0
    BY <1>b, <2>1 DEF TypeOK
  <2>3. \A j \in Instances : Record(j)' = Record(j) /\ (j # i => step'[j] = step[j])
    BY <2>1 DEF Record, TypeOK
  <2> QED BY <2>1, <2>2, <2>3, SummaryKept
<1>3. ASSUME NEW i \in Instances, ProviderFails(i)
      PROVE  SummaryInv'
  <2>1. /\ At(i, "send") /\ Record(i) \in Notifications
        /\ UNCHANGED <<log, cursor, attempts>> /\ faults' = faults + 1
        /\ sent' \in {sent, [sent EXCEPT ![Record(i)] = @ + 1]}
        /\ step' = [step EXCEPT ![i] = "count"]
        /\ result' = [result EXCEPT ![i] = "FAILED"]
    BY <1>3, RowIsTyped, FaultCounted DEF ProviderFails, At, GoTo
  <2>2. \A n \in Notifications : sent[n] > 0 => sent'[n] > 0
    <3>1. sent \in [Notifications -> Nat]
      BY DEF TypeOK
    <3>2. CASE sent' = sent
      BY <3>2
    <3>3. CASE sent' = [sent EXCEPT ![Record(i)] = @ + 1]
      BY <1>b, <2>1, <3>1, <3>3
    <3> QED BY <2>1, <3>2, <3>3
  <2>3. \A j \in Instances :
           /\ Record(j)' = Record(j)
           /\ j # i => step'[j] = step[j] /\ result'[j] = result[j]
           /\ result'[i] = "FAILED"
    BY <2>1 DEF Record, TypeOK
  <2> QED BY <2>1, <2>2, <2>3, SummaryKept
<1>4. ASSUME NEW i \in Instances, CountAttempts(i)
      PROVE  SummaryInv'
  <2>1. /\ UNCHANGED <<log, cursor, faults, result, sent, attempts>>
        /\ step[i] = "count" /\ step' = [step EXCEPT ![i] = "save"]
    BY <1>4 DEF CountAttempts, At, GoTo
  <2>2. \A j \in Instances : Record(j)' = Record(j) /\ (step'[j] # "send" => step[j] # "send")
    BY <2>1 DEF Record, TypeOK
  <2> QED BY <2>1, <2>2, SummaryKept
<1>5. ASSUME NEW i \in Instances, SaveAttempt(i)
      PROVE  SummaryInv'
  <2>1. /\ At(i, "save") /\ Row(i) \in RowType /\ attempts' = Append(attempts, Row(i))
        /\ faults' = faults /\ sent' = sent /\ log' = log
        /\ step' = [step EXCEPT ![i] = "send"]
        /\ result' = [result EXCEPT ![i] = "SUCCESS"]
    BY <1>5, RowIsTyped
       DEF SaveAttempt, Rethrow, At, ResetDelivery, GoTo, Succeed, Throw
  <2>2. \A j \in Instances : j # i => cursor'[j] = cursor[j]
    <3>1. CASE Succeed(i)
      BY <3>1 DEF Succeed, TypeOK, ConsumerTypeOK
    <3>2. CASE Throw(i)
      BY <2>1, <3>2, ThrowTyped DEF At
    <3> QED BY <1>5, <3>1, <3>2 DEF SaveAttempt, Rethrow
  <2>3. \A j \in Instances :
           /\ j # i => Record(j)' = Record(j) /\ step'[j] = step[j] /\ result'[j] = result[j]
           /\ step'[i] = "send" /\ result'[i] = "SUCCESS"
    BY <2>1, <2>2 DEF Record, TypeOK
  <2>4. \A j \in Instances : step'[j] # "send" /\ result'[j] = "SUCCESS" => sent'[Record(j)'] > 0
    BY <2>1, <2>3 DEF SummaryInv
  <2>5. /\ DOMAIN attempts' = DOMAIN attempts \cup {Len(attempts) + 1}
        /\ \A k \in DOMAIN attempts : attempts'[k] = attempts[k]
        /\ attempts'[Len(attempts) + 1] = Row(i)
    <3>1. attempts \in Seq(RowType)
      BY DEF TypeOK, RowType
    <3> QED BY <2>1, <3>1, AppendElements
  <2>6. Row(i).notification = Record(i) /\ Row(i).result = result[i]
    BY DEF Row
  <2>7. result[i] = "SUCCESS" => sent[Record(i)] > 0
    BY <2>1 DEF SummaryInv, At
  <2>8. \A k \in DOMAIN attempts' :
           attempts'[k].result = "SUCCESS" => sent'[attempts'[k].notification] > 0
    BY <2>1, <2>5, <2>6, <2>7 DEF SummaryInv
  <2>9. ASSUME NEW k \in DOMAIN attempts', attempts'[k].result = "FAILED"
        PROVE  Threw(attempts[k].notification)'
    <3>1. PICK n : n = attempts'[k].notification
      OBVIOUS
    <3>2. CASE k \in DOMAIN attempts
      <4>1. Threw(n)
        BY <2>5, <2>9, <3>1, <3>2 DEF SummaryInv
      <4>2. Threw(n)'
        BY <4>1, ThrewStays
      <4> QED BY <3>1, <4>2
    <3>3. CASE k = Len(attempts) + 1
      <4>1. PICK c \in Offsets : c = cursor[i]
        BY <2>1 DEF At, Delivering
      <4>2. n = log[c] /\ result[i] # "SUCCESS"
        BY <2>5, <2>6, <2>9, <3>1, <3>3, <4>1 DEF Record
      <4>3. failed'[c] = failed[c] + 1
        BY <1>5, <2>1, <4>1, <4>2, RethrowCounted DEF SaveAttempt, At
      <4>4. failed[c] \in Nat /\ c \in Offsets' /\ log'[c] = log[c]
        BY <4>1, Counts, LogStep
      <4>5. failed'[c] > 0
        BY <4>3, <4>4
      <4>6. Threw(n)'
        BY <4>2, <4>4, <4>5 DEF Threw
      <4> QED BY <3>1, <4>6
    <3> QED BY <2>5, <3>2, <3>3
  <2> QED BY <2>4, <2>8, <2>9 DEF SummaryInv
<1>6. ASSUME NEW i \in Instances, DatabaseFails(i)
      PROVE  SummaryInv'
  <2>1. step[i] \in {"count", "save"} /\ Delivering(i)
    BY <1>6 DEF DatabaseFails, At
  <2>2. faults' = faults + 1 /\ attempts' = attempts /\ sent' = sent
    BY <1>6, FaultCounted DEF DatabaseFails
  <2>3. CASE result[i] = "SUCCESS"
    <3>1. /\ UNCHANGED <<log, cursor>> /\ step' = [step EXCEPT ![i] = "count"]
          /\ result' = [result EXCEPT ![i] = "FAILED"]
      BY <1>6, <2>3 DEF DatabaseFails, GoTo
    <3>2. \A j \in Instances :
             /\ Record(j)' = Record(j)
             /\ j # i => step'[j] = step[j] /\ result'[j] = result[j]
             /\ result'[i] = "FAILED"
      BY <3>1 DEF Record, TypeOK
    <3> QED BY <2>2, <3>2, SummaryKept
  <2>4. CASE result[i] = "FAILED"
    <3>1. /\ Throw(i) /\ step' = [step EXCEPT ![i] = "send"]
          /\ result' = [result EXCEPT ![i] = "SUCCESS"]
      BY <1>6, <2>1, <2>4 DEF DatabaseFails, Rethrow, ResetDelivery, GoTo
    <3>2. log' = log /\ \A j \in Instances : j # i => cursor'[j] = cursor[j]
      BY <2>1, <3>1, ThrowTyped
    <3>3. \A j \in Instances :
             /\ j # i => Record(j)' = Record(j) /\ step'[j] = step[j] /\ result'[j] = result[j]
             /\ step'[i] = "send"
      BY <3>1, <3>2 DEF Record, TypeOK
    <3> QED BY <2>2, <3>3, SummaryKept
  <2> QED BY <2>3, <2>4 DEF TypeOK
<1>7. ASSUME NEW i \in Instances, Commit(i)
      PROVE  SummaryInv'
  <2>1. UNCHANGED <<log, cursor, faults, step, result, sent, attempts>>
    BY <1>7 DEF Commit, CommitOffset
  <2> QED BY <2>1, SummaryKept DEF Record
<1>8. ASSUME NEW i \in Instances, Starts(i), faults' \in {faults, faults + 1},
             UNCHANGED <<step, result, sent, attempts>>
      PROVE  SummaryInv'
  <2>1. /\ log' = log /\ ~running[i]
        /\ \A j \in Instances : j # i => cursor'[j] = cursor[j]
    BY <1>8, StartsTyped
  <2>2. step[i] = "send"
    BY <2>1 DEF TypeOK, Delivering
  <2>3. \A j \in Instances : step[j] # "send" => Record(j)' = Record(j)
    BY <2>1, <2>2 DEF Record
  <2> QED BY <1>8, <2>3, SummaryKept
<1>9. ASSUME NEW i \in Instances, Restart(i) \/ TakeOver(i)
      PROVE  SummaryInv'
  BY <1>8, <1>9, FaultCounted DEF Restart, TakeOver, Assign, Rebalance
<1>10. ASSUME NEW i \in Instances, Stop(i)
       PROVE  SummaryInv'
  <2>1. UNCHANGED <<log, cursor, faults, step, result, sent, attempts>>
    BY <1>10 DEF Stop, LosePartition, Leave
  <2> QED BY <2>1, SummaryKept DEF Record
<1>11. ASSUME NEW i \in Instances, Crash(i)
       PROVE  SummaryInv'
  <2>1. /\ UNCHANGED <<log, cursor, sent, attempts>> /\ faults' = faults + 1
        /\ step' = [step EXCEPT ![i] = "send"]
        /\ result' = [result EXCEPT ![i] = "SUCCESS"]
    BY <1>11, FaultCounted DEF Crash, Die, Leave, ResetDelivery, GoTo
  <2>2. \A j \in Instances :
           /\ Record(j)' = Record(j)
           /\ j # i => step'[j] = step[j] /\ result'[j] = result[j]
           /\ step'[i] = "send"
    BY <2>1 DEF Record, TypeOK
  <2> QED BY <2>1, <2>2, SummaryKept
<1>12. CASE UNCHANGED vars
  BY <1>12, SummaryKept DEF vars, Record
<1> QED BY <1>1, <1>2, <1>3, <1>4, <1>5, <1>6, <1>7, <1>9, <1>10, <1>11, <1>12
           DEF Next, Consume

\* What the summary counts as a success was accepted by the provider, and a sample
\* whose messages are settled is left out or counted as failed only if a delivery of
\* one of them threw.
THEOREM SummariesAreTrue == Spec => []SummaryIsTrue
<1>1. Init => SummaryInv
  BY DEF Init, ConsumerInit, SummaryInv
<1>2. TypeOK /\ SummaryInv /\ [Next]_vars => SummaryInv'
  BY SummaryStep
<1>3. TypeOK /\ SummaryInv /\ CommittedIsSettled => SummaryIsTrue
  <2> SUFFICES ASSUME TypeOK, SummaryInv, CommittedIsSettled,
                      NEW samples \in SUBSET Notifications, NEW unanswered \in SUBSET samples
               PROVE  LET summary == summarize_channel_attempts(
                                 samples, collect_attempts_for_samples(samples, unanswered))
                      IN  /\ \A n \in summary.success : sent[n] > 0
                          /\ \A n \in samples \ unanswered :
                                Settled(n) /\ Untroubled(n) => n \in summary.success
    BY DEF SummaryIsTrue
  <2> DEFINE collected == collect_attempts_for_samples(samples, unanswered)
             summary == summarize_channel_attempts(samples, collected)
  <2>1. ASSUME NEW n, AttemptsOf(n) # {}
        PROVE  \E k \in AttemptsOf(n) : latest(AttemptsOf(n)) = attempts[k]
    <3>1. AttemptsOf(n) \in SUBSET DOMAIN attempts
      BY DEF AttemptsOf
    <3> QED BY <2>1, <3>1, LatestIsARow
  <2>2. summary.success =
           {n \in samples \ unanswered : /\ AttemptsOf(n) # {}
                                         /\ latest(AttemptsOf(n)).result = "SUCCESS"}
    <3>1. \A n \in samples : collected[n] = IF n \in unanswered
                                            THEN [error |-> TRUE, rows |-> {}]
                                            ELSE [error |-> FALSE, rows |-> AttemptsOf(n)]
      BY DEF collect_attempts_for_samples, getAttempts
    <3> HIDE DEF collected
    <3>2. \A n \in samples : /\ n \in unanswered => collected[n].error
                             /\ n \notin unanswered => /\ ~collected[n].error
                                                      /\ collected[n].rows = AttemptsOf(n)
      <4> SUFFICES ASSUME NEW n \in samples
                   PROVE  /\ n \in unanswered => collected[n].error
                          /\ n \notin unanswered => /\ ~collected[n].error
                                                   /\ collected[n].rows = AttemptsOf(n)
        OBVIOUS
      <4>1. CASE n \in unanswered
        <5>1. collected[n] = [error |-> TRUE, rows |-> {}]
          BY <3>1, <4>1
        <5>2. collected[n].error
          BY <5>1
        <5> QED BY <4>1, <5>2
      <4>2. CASE n \notin unanswered
        <5>1. collected[n] = [error |-> FALSE, rows |-> AttemptsOf(n)]
          BY <3>1, <4>2
        <5>2. collected[n].error = FALSE /\ collected[n].rows = AttemptsOf(n)
          BY <5>1
        <5> QED BY <4>2, <5>2
      <4> QED BY <4>1, <4>2
    <3>3. summary.success =
             {n \in samples \ {m \in samples : collected[m].error \/ collected[m].rows = {}} :
                latest(collected[n].rows).result = "SUCCESS"}
      BY DEF summarize_channel_attempts
    <3> QED BY <3>2, <3>3
  <2>3. ASSUME NEW n \in summary.success PROVE sent[n] > 0
    <3>1. PICK k \in AttemptsOf(n) : latest(AttemptsOf(n)) = attempts[k]
      BY <2>1, <2>2, <2>3
    <3>2. /\ k \in DOMAIN attempts /\ attempts[k].notification = n
          /\ attempts[k].result = "SUCCESS"
      BY <2>2, <2>3, <3>1 DEF AttemptsOf
    <3> QED BY <3>2 DEF SummaryInv
  <2>4. ASSUME NEW n \in samples \ unanswered, Settled(n), Untroubled(n)
        PROVE  n \in summary.success
    <3>1. PICK o \in Offsets : log[o] = n /\ o < committed
      BY <2>4 DEF Settled
    <3>2. ~(failed[o] >= MaxTries)
      BY <2>4, <3>1, ConsumerAssumption DEF ConsumerAssumption, Untroubled
    <3>3. AttemptsOf(n) # {}
      BY <3>1, <3>2 DEF CommittedIsSettled, Rows
    <3>4. PICK k \in AttemptsOf(n) : latest(AttemptsOf(n)) = attempts[k]
      BY <2>1, <3>3
    <3>5. k \in DOMAIN attempts /\ attempts[k].notification = n
      BY <3>4 DEF AttemptsOf
    <3>6. ~Threw(n)
      BY <2>4 DEF Threw, Untroubled
    <3>7. attempts[k].result # "FAILED"
      BY <3>5, <3>6 DEF SummaryInv
    <3>8. attempts[k].result \in Results
      <4>1. attempts \in Seq(RowType)
        BY DEF TypeOK, RowType
      <4>2. attempts[k] \in RowType
        BY <3>5, <4>1
      <4> QED BY <4>2 DEF RowType
    <3> QED BY <2>2, <3>3, <3>4, <3>7, <3>8
  <2> QED BY <2>3, <2>4
<1> QED BY <1>1, <1>2, <1>3, TypeCorrect, CommitsAreSettled, PTL DEF Spec
=============================================================================
