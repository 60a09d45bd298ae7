---------------------------- MODULE ChannelWorker ----------------------------
(***************************************************************************)
(* A channel worker of the notification service:                           *)
(* messaging/consumer/EmailNotificationConsumer.java (and its twin         *)
(* InAppNotificationConsumer.java) send what the partition log of their    *)
(* channel's topic holds through a provider, and record every attempt      *)
(* with application/AttemptService.java.                                   *)
(***************************************************************************)
EXTENDS PartitionConsumer, FiniteSets

CONSTANTS Notifications, MaxRecords

ASSUME WorkerAssumption == MaxRecords \in Nat

VARIABLES
    step,      \* step[i]: where i is in consume
    result,    \* result[i]: what it is about to record
    counted,   \* counted[i]: the attempts it has counted
    sent,      \* sent[n]: times the provider accepted n
    attempts,  \* the rows of notification_attempts, in order of insertion
    failed     \* history: failed[o]: deliveries of record o that threw

vars == <<consumerVars, step, result, counted, sent, attempts, failed>>

Results == {"SUCCESS", "FAILED"}

Init ==
    /\ ConsumerInit
    /\ step = [i \in Instances |-> "send"]
    /\ result = [i \in Instances |-> "SUCCESS"]
    /\ counted = [i \in Instances |-> 0]
    /\ sent = [n \in Notifications |-> 0]
    /\ attempts = <<>>
    /\ failed = [o \in 1 .. MaxRecords |-> 0]

-----------------------------------------------------------------------------
At(i, s) == Delivering(i) /\ step[i] = s
GoTo(i, s) == step' = [step EXCEPT ![i] = s]

AttemptsOf(n) == {k \in DOMAIN attempts : attempts[k].notification = n}

\* The local variables of a delivery end with it.
ResetDelivery(i) ==
    /\ GoTo(i, "send")
    /\ result' = [result EXCEPT ![i] = "SUCCESS"]
    /\ counted' = [counted EXCEPT ![i] = 0]

\* Routing puts a message for n in the topic.
Request(n) ==
    /\ Len(log) < MaxRecords
    /\ Append1(n)
    /\ UNCHANGED <<step, result, counted, sent, attempts, failed>>

\* emailProvider.send returns.
SendToProvider(i) ==
    /\ At(i, "send")
    /\ sent' = [sent EXCEPT ![Record(i)] = @ + 1]
    /\ GoTo(i, "count")
    /\ UNCHANGED <<consumerVars, result, counted, attempts, failed>>

\* Fault: the exception is caught too early, the attempt looks successful.
ProviderFails_Unnoticed(i) ==
    /\ Fault("providerFails")
    /\ At(i, "send")
    /\ GoTo(i, "count")
    /\ UNCHANGED <<readerVars, result, counted, sent, attempts, failed>>

\* send throws, whether or not the message went out.
ProviderFails(i) ==
    /\ Fault("providerFails")
    /\ At(i, "send")
    /\ sent' \in {sent, [sent EXCEPT ![Record(i)] = @ + 1]}
    /\ GoTo(i, "count")
    /\ result' = [result EXCEPT ![i] = "FAILED"]
    /\ UNCHANGED <<readerVars, counted, attempts, failed>>

\* recordAttempt counts the rows there are ...
CountAttempts(i) ==
    /\ At(i, "count")
    /\ counted' = [counted EXCEPT ![i] = Cardinality(AttemptsOf(Record(i)))]
    /\ GoTo(i, "save")
    /\ UNCHANGED <<consumerVars, result, sent, attempts, failed>>

\* The exception leaves consume.
Rethrow(i) == Throw(i) /\ failed' = [failed EXCEPT ![cursor[i]] = @ + 1]

\* Fault: the first delivery's number is used again.
Row_NoCount(i) == [notification |-> Record(i), no |-> 1, result |-> result[i]]

\* ... and inserts the next one, as a transaction of its own.
Row(i) == [notification |-> Record(i), no |-> counted[i] + 1, result |-> result[i]]

\* Faults: what the provider threw is not rethrown; consume throws in any case.
SaveAttempt_Swallows(i) ==
    /\ At(i, "save")
    /\ attempts' = Append(attempts, Row(i))
    /\ Succeed(i)
    /\ ResetDelivery(i)
    /\ UNCHANGED <<faultVars, sent, failed>>

SaveAttempt_Throws(i) ==
    /\ At(i, "save")
    /\ attempts' = Append(attempts, Row(i))
    /\ Rethrow(i)
    /\ ResetDelivery(i)
    /\ UNCHANGED <<faultVars, sent>>

\* consume returns after a SUCCESS and rethrows after a FAILED.
SaveAttempt(i) ==
    /\ At(i, "save")
    /\ attempts' = Append(attempts, Row(i))
    /\ IF result[i] = "SUCCESS" THEN Succeed(i) /\ UNCHANGED failed ELSE Rethrow(i)
    /\ ResetDelivery(i)
    /\ UNCHANGED <<faultVars, sent>>

\* Fault: the listener waits for a database that does not answer.
DatabaseFails_Hangs(i) ==
    /\ Fault("databaseFails")
    /\ At(i, "count") \/ At(i, "save")
    /\ GoTo(i, "hangs")
    /\ UNCHANGED <<readerVars, result, counted, sent, attempts, failed>>

\* recordAttempt throws.  In the try block that is caught like a provider's
\* exception, and the message that was sent is to be recorded as FAILED; in the
\* catch block it ends the delivery without a row.
DatabaseFails(i) ==
    /\ Fault("databaseFails")
    /\ At(i, "count") \/ At(i, "save")
    /\ \/ /\ result[i] = "SUCCESS"
          /\ result' = [result EXCEPT ![i] = "FAILED"]
          /\ counted' = [counted EXCEPT ![i] = 0]
          /\ GoTo(i, "count")
          /\ UNCHANGED <<readerVars, failed>>
       \/ /\ result[i] = "FAILED"
          /\ Rethrow(i)
          /\ ResetDelivery(i)
    /\ UNCHANGED <<sent, attempts>>

\* The container, between two records; death, at any time.
Commit(i) ==
    /\ step[i] = "send" /\ CommitOffset(i)
    /\ UNCHANGED <<step, result, counted, sent, attempts, failed>>
Restart(i) == Assign(i) /\ UNCHANGED <<step, result, counted, sent, attempts, failed>>
TakeOver(i) == Rebalance(i) /\ UNCHANGED <<step, result, counted, sent, attempts, failed>>
Stop(i) ==
    /\ step[i] = "send" /\ LosePartition(i)
    /\ UNCHANGED <<step, result, counted, sent, attempts, failed>>

Crash(i) == Die(i) /\ ResetDelivery(i) /\ UNCHANGED <<sent, attempts, failed>>

Consume(i) ==
    SendToProvider(i) \/ ProviderFails(i) \/ CountAttempts(i)
        \/ SaveAttempt(i) \/ DatabaseFails(i)

Next ==
    \/ \E n \in Notifications : Request(n)
    \/ \E i \in Instances : \/ Consume(i) \/ Commit(i)
                            \/ Restart(i) \/ TakeOver(i) \/ Stop(i) \/ Crash(i)

Spec == Init /\ [][Next]_vars

\* Listener threads run, the container commits, and a partition whose
\* instance is gone is assigned to some instance.
Fairness ==
    /\ \A i \in Instances : WF_vars(Consume(i)) /\ WF_vars(Commit(i))
    /\ WF_vars(\E i \in Instances : Restart(i))

FairSpec == Spec /\ Fairness

-----------------------------------------------------------------------------
(* Properties                                                              *)

TypeOK ==
    /\ log \in Seq(Notifications) /\ Len(log) <= MaxRecords
    /\ ConsumerTypeOK
    /\ step \in [Instances -> {"send", "count", "save"}]
    /\ \A i \in Instances : step[i] # "send" => Delivering(i)
    /\ result \in [Instances -> Results]
    /\ counted \in [Instances -> Nat]
    /\ sent \in [Notifications -> Nat]
    /\ attempts \in Seq([notification : Notifications, no : Nat, result : Results])
    /\ failed \in [1 .. MaxRecords -> Nat]

Rows(n, res) == {k \in AttemptsOf(n) : attempts[k].result = res}
Copies(n) == Cardinality({o \in Offsets : log[o] = n})

\* A message is forgotten (its offset committed) only once a SUCCESS row says
\* that it was sent, or after MaxTries deliveries of that very record that each
\* ended in an exception: crashes, take-overs and the failures of other messages
\* excuse nothing.
CommittedIsSettled ==
    \A o \in Offsets : o < committed =>
        Rows(log[o], "SUCCESS") # {} \/ failed[o] >= MaxTries

\* The recipient gets a message again only for another copy in the topic or
\* for a fault: a failed provider or database call, a crash, a take-over.
\* A take-over replays what is not committed, at most the whole partition.
ResendsHaveCause ==
    \A n \in Notifications : sent[n] <= Copies(n) * (1 + faults)

\* Attempts of a notification are numbered 1, 2, ... without a gap or a
\* repetition, however it was delivered, as long as no take-over lets two
\* instances count at once.
AttemptsNumbered ==
    "rebalance" \notin happened =>
        \A n \in Notifications :
            /\ {attempts[k].no : k \in AttemptsOf(n)} = 1 .. Cardinality(AttemptsOf(n))

\* Every message in the topic is settled in the end: no failure of a provider,
\* of the database or of an instance stops the partition.
EveryMessageSettled == \A o \in 1 .. MaxRecords : o \in Offsets ~> committed > o
=============================================================================
