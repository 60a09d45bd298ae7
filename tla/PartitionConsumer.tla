-------------------------- MODULE PartitionConsumer --------------------------
(***************************************************************************)
(* What the listeners of the notification service get from Spring Kafka:   *)
(* one partition of a topic, read by the instances of one consumer group.  *)
(* None of this is code of the repository.  It is what @KafkaListener      *)
(* gives a consumer under the defaults the service keeps: offsets are      *)
(* committed after a batch, a delivery whose listener throws is repeated   *)
(* in place, and given up at the tenth failure.                            *)
(*                                                                         *)
(* An instance that loses the partition in the middle of a batch finishes  *)
(* what it has polled.  Batches are of any size here.                      *)
(***************************************************************************)
EXTENDS Naturals, Sequences

CONSTANTS
    Instances,   \* consumer threads of the group
    MaxTries,    \* deliveries of a record before it is given up
    FaultKinds,  \* the faults that may happen
    MaxFaults    \* and how many of them in a behaviour

ASSUME ConsumerAssumption == MaxTries \in Nat \ {0} /\ MaxFaults \in Nat

VARIABLES
    log,        \* the records of the partition
    owner,      \* the instance the partition is assigned to
    committed,  \* records before this offset are not delivered again
    running,    \* running[i]: i has the partition, or still thinks so
    cursor,     \* cursor[i]: the offset i is at
    tries,      \* tries[i]: failed deliveries of that record to i
    faults,     \* faults so far
    happened    \* and their kinds

faultVars == <<faults, happened>>
readerVars == <<log, owner, committed, running, cursor, tries>>
consumerVars == <<readerVars, faultVars>>

Offsets == 1 .. Len(log)

ConsumerInit ==
    /\ log = <<>>
    /\ owner \in Instances
    /\ committed = 1
    /\ running = [i \in Instances |-> FALSE]
    /\ cursor = [i \in Instances |-> 1]
    /\ tries = [i \in Instances |-> 0]
    /\ faults = 0 /\ happened = {}

ConsumerTypeOK ==
    /\ owner \in Instances
    /\ committed \in 1 .. Len(log) + 1
    /\ running \in [Instances -> BOOLEAN]
    /\ cursor \in [Instances -> 1 .. Len(log) + 1]
    /\ tries \in [Instances -> 0 .. MaxTries - 1]
    /\ faults \in 0 .. MaxFaults /\ happened \subseteq FaultKinds

-----------------------------------------------------------------------------
Fault(kind) ==
    /\ kind \in FaultKinds /\ faults < MaxFaults
    /\ faults' = faults + 1
    /\ happened' = happened \cup {kind}

\* i has a record to deliver, and which one.
Delivering(i) == running[i] /\ cursor[i] \in Offsets
Record(i) == log[cursor[i]]

Append1(r) ==
    /\ log' = Append(log, r)
    /\ UNCHANGED <<owner, committed, running, cursor, tries, faultVars>>

\* The listener returned.
Succeed(i) ==
    /\ cursor' = [cursor EXCEPT ![i] = @ + 1]
    /\ tries' = [tries EXCEPT ![i] = 0]
    /\ UNCHANGED <<log, owner, committed, running>>

\* The listener threw.  DefaultErrorHandler seeks back to the record, or past
\* it after the last try; who no longer owns the partition finds that out.
Throw(i) ==
    /\ \/ /\ owner = i /\ tries[i] + 1 < MaxTries
          /\ tries' = [tries EXCEPT ![i] = @ + 1]
          /\ UNCHANGED <<cursor, running>>
       \/ /\ owner = i /\ tries[i] + 1 = MaxTries
          /\ tries' = [tries EXCEPT ![i] = 0]
          /\ cursor' = [cursor EXCEPT ![i] = @ + 1]
          /\ UNCHANGED running
       \/ /\ owner # i
          /\ running' = [running EXCEPT ![i] = FALSE]
          /\ tries' = [tries EXCEPT ![i] = 0]
          /\ UNCHANGED cursor
    /\ UNCHANGED <<log, owner, committed>>

\* The container commits what the listener is done with.
CommitOffset(i) ==
    /\ owner = i /\ running[i] /\ committed < cursor[i]
    /\ committed' = cursor[i]
    /\ UNCHANGED <<log, owner, running, cursor, tries, faultVars>>

Starts(i) ==
    /\ ~running[i]
    /\ owner' = i
    /\ running' = [running EXCEPT ![i] = TRUE]
    /\ cursor' = [cursor EXCEPT ![i] = committed]
    /\ tries' = [tries EXCEPT ![i] = 0]
    /\ UNCHANGED <<log, committed>>

\* The partition of an instance that is gone is assigned.
Assign(i) == ~running[owner] /\ Starts(i) /\ UNCHANGED faultVars

\* The group takes the partition from an instance that is still at work.
Rebalance(i) == Fault("rebalance") /\ running[owner] /\ Starts(i)

\* An instance finds out, or dies.
Leave(i) ==
    /\ running[i]
    /\ running' = [running EXCEPT ![i] = FALSE]
    /\ tries' = [tries EXCEPT ![i] = 0]
    /\ UNCHANGED <<log, owner, committed, cursor>>

LosePartition(i) == owner # i /\ Leave(i) /\ UNCHANGED faultVars
Die(i) == Fault("crash") /\ Leave(i)
=============================================================================
