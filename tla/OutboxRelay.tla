----------------------------- MODULE OutboxRelay -----------------------------
(***************************************************************************)
(* The transactional outbox of the notification service:                   *)
(* application/NotificationService.java stores a request and its outbox    *)
(* row in one transaction, application/OutboxPublisher.java (one instance  *)
(* per replica) moves rows to Kafka through                                *)
(* messaging/producer/KafkaEventPublisher.java.                            *)
(*                                                                         *)
(* An event stands for one accepted request, its notification row and its  *)
(* outbox row.  Kafka keeps the copies of one event in one partition, so   *)
(* the topic is a count of copies per event.                               *)
(***************************************************************************)
EXTENDS Integers, FiniteSets

CONSTANTS
    Events,
    Publishers,         \* replicas of the service running the publisher
    BatchSize,          \* app.outbox.publisher.batch-size
    MaxBatchesPerRun,   \* app.outbox.publisher.max-batches-per-run
    FaultKinds,         \* the faults that may happen
    MaxFaults           \* and how many of them in a behaviour

ASSUME RelayAssumption ==
    /\ IsFiniteSet(Events)
    /\ BatchSize \in Nat \ {0} /\ MaxBatchesPerRun \in Nat \ {0}
    /\ FaultKinds \subseteq {"rollback", "crash", "sendFails", "ackLost"}
    /\ MaxFaults \in Nat

VARIABLES
    status,       \* status[e]: of the outbox row; "none" before it exists
    createdAt,    \* createdAt[e]: its created_at
    mode,         \* mode[p]: where the publisher of replica p is
    batch,        \* batch[p]: the rows its transaction has locked
    toSend,       \* toSend[p]: those it has not handed to the producer yet
    batchNumber,  \* batchNumber[p]: batches committed in this run
    inFlight,     \* inFlight[p][e]: copies in p's producer, not yet answered
    topic,        \* topic[e]: copies of e that Kafka has stored
    copies,       \* history: copies of e ever handed to Kafka
    faults,       \* faults so far
    happened      \* and their kinds

brokerVars == <<inFlight, topic, copies>>
publisherVars == <<mode, batch, toSend, batchNumber>>
faultVars == <<faults, happened>>
vars == <<status, createdAt, publisherVars, brokerVars, faultVars>>

\* created_at matters only in comparisons: as many instants as events.
Times == 0 .. Cardinality(Events) - 1

Statuses == {"none", "NEW", "PUBLISHED", "FAILED"}

Init ==
    /\ status = [e \in Events |-> "none"]
    /\ createdAt = [e \in Events |-> 0]
    /\ mode = [p \in Publishers |-> "idle"]
    /\ batch = [p \in Publishers |-> {}]
    /\ toSend = [p \in Publishers |-> {}]
    /\ batchNumber = [p \in Publishers |-> 0]
    /\ inFlight = [p \in Publishers |-> [e \in Events |-> 0]]
    /\ topic = [e \in Events |-> 0]
    /\ copies = [e \in Events |-> 0]
    /\ faults = 0 /\ happened = {}

-----------------------------------------------------------------------------
\* createNotification: the notification and its outbox row are committed
\* together, or neither is and the client gets an error.  created_at was read
\* from the clock of a replica before the commit, so it may be any.
CreateNotification(e) ==
    /\ status[e] = "none"
    /\ status' = [status EXCEPT ![e] = "NEW"]
    /\ \E t \in Times : createdAt' = [createdAt EXCEPT ![e] = t]
    /\ UNCHANGED <<publisherVars, brokerVars, faultVars>>

\* The rows FOR UPDATE SKIP LOCKED may return.
Available == {e \in Events : status[e] = "NEW" /\ \A p \in Publishers : e \notin batch[p]}

\* lockNextBatchByStatus(NEW, batchSize): the oldest rows that are available.
IsNextBatch(B) ==
    /\ B \subseteq Available
    /\ Cardinality(B) <= BatchSize
    /\ Cardinality(B) < BatchSize => B = Available
    /\ \A b \in B, e \in Available \ B : createdAt[b] <= createdAt[e]

\* A run begins (fixedDelay: not before the last one ended) or goes on with
\* another transaction.
LockBatch(p, B) ==
    /\ mode[p] \in {"idle", "looping"}
    /\ B # {} /\ IsNextBatch(B)
    /\ mode' = [mode EXCEPT ![p] = "open"]
    /\ batch' = [batch EXCEPT ![p] = B]
    /\ toSend' = [toSend EXCEPT ![p] = B]
    /\ UNCHANGED <<status, createdAt, batchNumber, brokerVars, faultVars>>

\* The run ends on an empty batch.
FindNothing(p) ==
    /\ mode[p] = "looping" /\ Available = {}
    /\ mode' = [mode EXCEPT ![p] = "idle"]
    /\ batchNumber' = [batchNumber EXCEPT ![p] = 0]
    /\ UNCHANGED <<status, createdAt, batch, toSend, brokerVars, faultVars>>

\* kafkaTemplate.send queues the record and returns; nobody looks at the future.
Publish(p, e) ==
    /\ mode[p] = "open" /\ e \in toSend[p]
    /\ \A d \in toSend[p] : createdAt[e] <= createdAt[d]
    /\ toSend' = [toSend EXCEPT ![p] = @ \ {e}]
    /\ inFlight' = [inFlight EXCEPT ![p][e] = @ + 1]
    /\ copies' = [copies EXCEPT ![e] = @ + 1]
    /\ UNCHANGED <<status, createdAt, mode, batch, batchNumber, topic, faultVars>>

\* publishPendingEvents goes on only after a full batch, and not for ever.
EndsRun(p) == \/ Cardinality(batch[p]) < BatchSize
              \/ batchNumber[p] + 1 >= MaxBatchesPerRun

\* Faults: rows are not marked; the transaction ends before the last send.
Commit_NotMarked(p) ==
    /\ mode[p] = "open" /\ toSend[p] = {}
    /\ mode' = [mode EXCEPT ![p] = IF EndsRun(p) THEN "idle" ELSE "looping"]
    /\ batch' = [batch EXCEPT ![p] = {}]
    /\ batchNumber' = [batchNumber EXCEPT ![p] = IF EndsRun(p) THEN 0 ELSE @ + 1]
    /\ UNCHANGED <<status, createdAt, toSend, brokerVars, faultVars>>

Commit_Early(p) ==
    /\ mode[p] = "open"
    /\ status' = [e \in Events |-> IF e \in batch[p] THEN "PUBLISHED" ELSE status[e]]
    /\ mode' = [mode EXCEPT ![p] = IF EndsRun(p) THEN "idle" ELSE "looping"]
    /\ batch' = [batch EXCEPT ![p] = {}]
    /\ toSend' = [toSend EXCEPT ![p] = {}]
    /\ batchNumber' = [batchNumber EXCEPT ![p] = IF EndsRun(p) THEN 0 ELSE @ + 1]
    /\ UNCHANGED <<createdAt, brokerVars, faultVars>>

\* The end of publishNextBatch and of its transaction: every row is PUBLISHED,
\* whatever became of the records.
Commit(p) ==
    /\ mode[p] = "open" /\ toSend[p] = {}
    /\ status' = [e \in Events |-> IF e \in batch[p] THEN "PUBLISHED" ELSE status[e]]
    /\ mode' = [mode EXCEPT ![p] = IF EndsRun(p) THEN "idle" ELSE "looping"]
    /\ batch' = [batch EXCEPT ![p] = {}]
    /\ batchNumber' = [batchNumber EXCEPT ![p] = IF EndsRun(p) THEN 0 ELSE @ + 1]
    /\ UNCHANGED <<createdAt, toSend, brokerVars, faultVars>>

-----------------------------------------------------------------------------
Fault(kind) ==
    /\ kind \in FaultKinds /\ faults < MaxFaults
    /\ faults' = faults + 1
    /\ happened' = happened \cup {kind}

CloseTransaction(p) ==
    /\ mode' = [mode EXCEPT ![p] = "idle"]
    /\ batch' = [batch EXCEPT ![p] = {}]
    /\ toSend' = [toSend EXCEPT ![p] = {}]
    /\ batchNumber' = [batchNumber EXCEPT ![p] = 0]

\* Fault: the rows of a transaction that failed are given up.
Rollback_MarksFailed(p) ==
    /\ Fault("rollback")
    /\ mode[p] = "open"
    /\ status' = [e \in Events |-> IF e \in batch[p] THEN "FAILED" ELSE status[e]]
    /\ CloseTransaction(p)
    /\ UNCHANGED <<createdAt, brokerVars>>

\* send throws, or flush or commit fails: the exception ends the run, the rows
\* are NEW and unlocked again, records already handed over stay so.
Rollback(p) ==
    /\ Fault("rollback")
    /\ mode[p] = "open"
    /\ CloseTransaction(p)
    /\ UNCHANGED <<status, createdAt, brokerVars>>

\* The replica dies: the database rolls back, and what its producer had not
\* delivered is gone.
Crash(p) ==
    /\ Fault("crash")
    /\ CloseTransaction(p)
    /\ inFlight' = [inFlight EXCEPT ![p] = [e \in Events |-> 0]]
    /\ UNCHANGED <<status, createdAt, topic, copies>>

\* Kafka stores a record.
Store(p, e) ==
    /\ inFlight[p][e] > 0
    /\ inFlight' = [inFlight EXCEPT ![p][e] = @ - 1]
    /\ topic' = [topic EXCEPT ![e] = @ + 1]
    /\ UNCHANGED <<status, createdAt, publisherVars, copies, faultVars>>

\* Kafka stores a record, its answer is lost and the producer sends it again
\* (acks: 1 turns the idempotent producer off).
StoreUnanswered(p, e) ==
    /\ Fault("ackLost")
    /\ inFlight[p][e] > 0
    /\ topic' = [topic EXCEPT ![e] = @ + 1]
    /\ copies' = [copies EXCEPT ![e] = @ + 1]
    /\ UNCHANGED <<status, createdAt, publisherVars, inFlight>>

\* The producer gives a record up: the future fails.
SendFails(p, e) ==
    /\ Fault("sendFails")
    /\ inFlight[p][e] > 0
    /\ inFlight' = [inFlight EXCEPT ![p][e] = @ - 1]
    /\ UNCHANGED <<status, createdAt, publisherVars, topic, copies>>

Next ==
    \/ \E e \in Events : CreateNotification(e)
    \/ \E p \in Publishers : \/ \E B \in SUBSET Events : LockBatch(p, B)
                             \/ FindNothing(p) \/ Commit(p)
                             \/ Rollback(p) \/ Crash(p)
    \/ \E p \in Publishers, e \in Events :
          Publish(p, e) \/ Store(p, e) \/ StoreUnanswered(p, e) \/ SendFails(p, e)

Spec == Init /\ [][Next]_vars

\* The scheduler runs every publisher again and again, a run goes on, and
\* the broker answers.  Nothing makes a client send a request.
Fairness ==
    /\ \A p \in Publishers : /\ WF_vars(\E B \in SUBSET Events : LockBatch(p, B))
                             /\ WF_vars(FindNothing(p))
                             /\ WF_vars(Commit(p))
    /\ \A p \in Publishers, e \in Events : WF_vars(Publish(p, e)) /\ WF_vars(Store(p, e))

FairSpec == Spec /\ Fairness

-----------------------------------------------------------------------------
(* Properties                                                              *)

TypeOK ==
    /\ status \in [Events -> Statuses]
    /\ createdAt \in [Events -> Times]
    /\ mode \in [Publishers -> {"idle", "looping", "open"}]
    /\ batch \in [Publishers -> SUBSET Events]
    /\ toSend \in [Publishers -> SUBSET Events]
    /\ batchNumber \in [Publishers -> 0 .. MaxBatchesPerRun - 1]
    /\ inFlight \in [Publishers -> [Events -> Nat]]
    /\ topic \in [Events -> Nat]
    /\ copies \in [Events -> Nat]
    /\ faults \in 0 .. MaxFaults /\ happened \subseteq FaultKinds

\* Publishing is at least once by repetition, never without a cause: a second
\* copy of an event takes a failed transaction, a crash or a lost answer.
CopiesHaveCause == \A e \in Events : copies[e] <= 1 + faults

\* An event whose row is PUBLISHED is in Kafka, or in the producer of a replica
\* that is still running.
PublishedIsSent ==
    \A e \in Events : status[e] = "PUBLISHED" =>
        topic[e] > 0 \/ \E p \in Publishers : inFlight[p][e] > 0

\* What holds of the code: that is so as long as no send has failed and no
\* replica has died, rollbacks and lost answers notwithstanding.
LossNeedsFailedSend == happened \cap {"sendFails", "crash"} = {} => PublishedIsSent

\* The relay seen from its two ends: requests accepted, requests in the topic.
Relay == INSTANCE ReliableRelay WITH
    accepted <- {e \in Events : status[e] # "none"},
    relayed  <- {e \in Events : topic[e] > 0}

\* It implements the relay README.md announces, where sends do not fail and no
\* replica dies: nothing is relayed before it is accepted, and every accepted
\* request is, by whichever replica, over however many transactions and runs.
ImplementsRelay == Relay!FairSpec
=============================================================================
