---------------------------- MODULE RequestRouting ----------------------------
(***************************************************************************)
(* The routing step of the notification service:                           *)
(* messaging/consumer/NotificationRequestedConsumer.java and               *)
(* application/RoutingService.java turn a requested notification into one  *)
(* message per channel.  The partition log holds notifications, possibly   *)
(* several copies of one (the outbox delivers at least once).              *)
(*                                                                         *)
(* messaging/producer/KafkaEventPublisher.java hands a message to the      *)
(* producer of the instance's process, which delivers it some time later:  *)
(* also after the offset of its request is committed, and after the        *)
(* instance has lost the partition.  Every instance is taken to have a     *)
(* process of its own.                                                     *)
(***************************************************************************)
EXTENDS PartitionConsumer, FiniteSets

CONSTANTS
    Notifications,
    ChannelsOf,    \* ChannelsOf[n]: the channels of its request, in order
    Supported,     \* the channels route has a case for
    MaxRecords,    \* bound on the length of the partition
    Partitions     \* bound: the sequences of requests it may hold in the end

ASSUME RoutingAssumption ==
    /\ MaxRecords \in Nat
    /\ \A n \in Notifications :
          /\ DOMAIN ChannelsOf[n] = 1 .. Len(ChannelsOf[n])
          /\ Len(ChannelsOf[n]) \in Nat \ {0}   \* @NotEmpty

VARIABLES
    next,      \* next[i]: the channel i is at, in the loop of route
    inFlight,  \* inFlight[i][m]: copies of m in i's producer, not yet answered
    stored,    \* the messages Kafka has in the topics of the channels
    copies,    \* history: copies[m]: copies of m ever handed to Kafka
    threw      \* history: threw[o]: deliveries of record o that publish ended

brokerVars == <<inFlight, stored, copies>>
vars == <<consumerVars, next, brokerVars, threw>>

\* A notification's message in the topic of a channel.
Messages == Notifications \X Supported

Init ==
    /\ ConsumerInit
    /\ next = [i \in Instances |-> 1]
    /\ inFlight = [i \in Instances |-> [m \in Messages |-> 0]]
    /\ stored = {}
    /\ copies = [m \in Messages |-> 0]
    /\ threw = [o \in 1 .. MaxRecords |-> 0]

-----------------------------------------------------------------------------
\* The outbox relay puts a request, or another copy of it, in the topic.
Request(n) ==
    /\ Len(log) < MaxRecords
    /\ \E p \in Partitions :
          Len(log) < Len(p) /\ SubSeq(p, 1, Len(log) + 1) = Append(log, n)
    /\ Append1(n)
    /\ UNCHANGED <<next, brokerVars, threw>>

InLoop(i) == Delivering(i) /\ next[i] \in DOMAIN ChannelsOf[Record(i)]
Channel(i) == ChannelsOf[Record(i)][next[i]]
Message(i) == <<Record(i), Channel(i)>>

\* kafkaTemplate.send queues the record and returns.
publish(i, m) ==
    /\ inFlight' = [inFlight EXCEPT ![i][m] = @ + 1]
    /\ copies' = [copies EXCEPT ![m] = @ + 1]
    /\ UNCHANGED stored

\* Fault: the record is handed over again while its answer is missing.
RouteChannel_Resends(i) ==
    /\ InLoop(i) /\ Channel(i) \in Supported
    /\ publish(i, Message(i))
    /\ next' \in {next, [next EXCEPT ![i] = @ + 1]}
    /\ UNCHANGED <<consumerVars, threw>>

\* case "EMAIL", case "INAPP"; nobody looks at the future.
RouteChannel(i) ==
    /\ InLoop(i) /\ Channel(i) \in Supported
    /\ publish(i, Message(i))
    /\ next' = [next EXCEPT ![i] = @ + 1]
    /\ UNCHANGED <<consumerVars, threw>>

\* Fault: the exception is caught, and the next channel's turn comes.
PublishThrows_Caught(i) ==
    /\ Fault("publishFails")
    /\ InLoop(i) /\ Channel(i) \in Supported
    /\ next' = [next EXCEPT ![i] = @ + 1]
    /\ UNCHANGED <<readerVars, brokerVars, threw>>

\* The same where toJson or send throws (the buffer stays full, no metadata):
\* the earlier channels are sent, and will be again.
PublishThrows(i) ==
    /\ Fault("publishFails")
    /\ InLoop(i) /\ Channel(i) \in Supported
    /\ Throw(i)
    /\ threw' = [threw EXCEPT ![cursor[i]] = @ + 1]
    /\ next' = [next EXCEPT ![i] = 1]
    /\ UNCHANGED brokerVars

\* Fault: the channel is tried for ever.
RejectChannel_Forever(i) ==
    InLoop(i) /\ Channel(i) \notin Supported /\ UNCHANGED vars

\* default: IllegalArgumentException, with the earlier channels already sent.
RejectChannel(i) ==
    /\ InLoop(i) /\ Channel(i) \notin Supported
    /\ Throw(i)
    /\ next' = [next EXCEPT ![i] = 1]
    /\ UNCHANGED <<faultVars, brokerVars, threw>>

\* route returns.
FinishRequest(i) ==
    /\ Delivering(i) /\ ~InLoop(i)
    /\ Succeed(i)
    /\ next' = [next EXCEPT ![i] = 1]
    /\ UNCHANGED <<faultVars, brokerVars, threw>>

\* Between two records the container commits, or the instance loses the
\* partition; who takes it over starts with route's first channel.
Commit(i) == next[i] = 1 /\ CommitOffset(i) /\ UNCHANGED <<next, brokerVars, threw>>
Restart(i) == Assign(i) /\ UNCHANGED <<next, brokerVars, threw>>
TakeOver(i) == Rebalance(i) /\ UNCHANGED <<next, brokerVars, threw>>
Stop(i) == next[i] = 1 /\ LosePartition(i) /\ UNCHANGED <<next, brokerVars, threw>>

\* A process dies at any time, also one that has lost the partition and only has
\* records left to deliver: what its producer had not delivered is gone.
Crash(i) ==
    /\ \/ Die(i)
       \/ /\ ~running[i] /\ \E m \in Messages : inFlight[i][m] > 0
          /\ Fault("crash") /\ UNCHANGED readerVars
    /\ next' = [next EXCEPT ![i] = 1]
    /\ inFlight' = [inFlight EXCEPT ![i] = [m \in Messages |-> 0]]
    /\ UNCHANGED <<stored, copies, threw>>

\* Kafka stores a record.
Store(i, m) ==
    /\ inFlight[i][m] > 0
    /\ inFlight' = [inFlight EXCEPT ![i][m] = @ - 1]
    /\ stored' = stored \cup {m}
    /\ UNCHANGED <<consumerVars, next, copies, threw>>

\* Kafka stores a record, its answer is lost and the producer sends it again
\* (acks: 1 turns the idempotent producer off).
StoreUnanswered(i, m) ==
    /\ Fault("ackLost")
    /\ inFlight[i][m] > 0
    /\ stored' = stored \cup {m}
    /\ copies' = [copies EXCEPT ![m] = @ + 1]
    /\ UNCHANGED <<readerVars, next, inFlight, threw>>

\* The producer gives a record up: the future fails.
SendFails(i, m) ==
    /\ Fault("sendFails")
    /\ inFlight[i][m] > 0
    /\ inFlight' = [inFlight EXCEPT ![i][m] = @ - 1]
    /\ UNCHANGED <<readerVars, next, stored, copies, threw>>

Route(i) ==
    RouteChannel(i) \/ PublishThrows(i) \/ RejectChannel(i) \/ FinishRequest(i)

Next ==
    \/ \E n \in Notifications : Request(n)
    \/ \E i \in Instances : \/ Route(i) \/ Commit(i)
                            \/ Restart(i) \/ TakeOver(i) \/ Stop(i) \/ Crash(i)
    \/ \E i \in Instances, m \in Messages :
          Store(i, m) \/ StoreUnanswered(i, m) \/ SendFails(i, m)

Spec == Init /\ [][Next]_vars

\* The consumer threads run (one thread calls the listener and commits), and a
\* partition whose instance is gone is assigned to some instance.
Fairness ==
    /\ \A i \in Instances : WF_vars(Route(i) \/ Commit(i))
    /\ WF_vars(\E i \in Instances : Restart(i))

FairSpec == Spec /\ Fairness

-----------------------------------------------------------------------------
(* Properties                                                              *)

TypeOK ==
    /\ log \in Seq(Notifications) /\ Len(log) <= MaxRecords
    /\ ConsumerTypeOK
    /\ next \in [Instances -> Nat \ {0}]
    /\ \A i \in Instances : next[i] > 1 => running[i]
    /\ inFlight \in [Instances -> [Messages -> Nat]]
    /\ stored \subseteq Messages
    /\ copies \in [Messages -> Nat]
    /\ threw \in [1 .. MaxRecords -> Nat]

\* The channels of n before the first one that is not supported: the loop of
\* route gets no further.
Routable(n) ==
    {c \in Supported :
        \E k \in DOMAIN ChannelsOf[n] :
            /\ ChannelsOf[n][k] = c
            /\ \A j \in 1 .. k : ChannelsOf[n][j] \in Supported}

Acceptable(n) == \A k \in DOMAIN ChannelsOf[n] : ChannelsOf[n][k] \in Supported

TimesNamed(n, c) == Cardinality({k \in DOMAIN ChannelsOf[n] : ChannelsOf[n][k] = c})
Requests(n) == Cardinality({o \in Offsets : log[o] = n})

\* Kafka has the message, or a process that still runs will give it to Kafka.
Underway(m) == m \in stored \/ \E i \in Instances : inFlight[i][m] > 0

\* A request is forgotten (its offset committed) only after a message for each
\* of its routable channels was handed to a producer, through crashes, take-overs
\* and rejected requests; only MaxTries exceptions of publish at that very
\* request excuse it.  The message is then in its topic or still with a producer,
\* unless a send was given up or a process died: the commit does not wait for
\* the producer.
CommittedIsRouted ==
    \A o \in Offsets : o < committed =>
        \/ threw[o] >= MaxTries
        \/ \A c \in Routable(log[o]) :
              /\ copies[<<log[o], c>>] > 0
              /\ happened \cap {"sendFails", "crash"} = {} => Underway(<<log[o], c>>)

\* Duplicates are bounded: Kafka is given at most one copy of a message for each
\* time the channel is named, for each copy of the request and for each fault (a
\* crash, a take-over, an exception of publish, a lost answer), times the
\* deliveries a rejected request gets.
DuplicatesBounded ==
    \A n \in Notifications, c \in Supported :
        copies[<<n, c>>] <= TimesNamed(n, c) * Requests(n) * (1 + faults)
                              * (IF Acceptable(n) THEN 1 ELSE MaxTries)

\* A request that cannot be routed does not stop the ones behind it: every
\* request of the topic is left behind in the end.
EveryRequestPassed == []<>(committed = Len(log) + 1)
=============================================================================
