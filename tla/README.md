# Verification of the CS6650 distributed-systems programs

TLA+ modules, TLC configurations and TLAPS proofs for the programs of this
repository: a replicated key-value store (`src/hw10`), a notification service
(`src/final project-notification system`), an album store (`src/final mastery`)
and a row of smaller services. The modules are translated from the source; where
a comment and the code disagree the code is modelled and the disagreement is
listed under *Findings*.

    tlc -workers 2 -config lf_w3_r5.cfg MCLeaderFollower     # any run: cfg + module
    tlc -workers 2 -config experiments.cfg MCExperiments
    tlapm LeaderFollowerProofs.tla                           # the proofs: a module *Proofs each
    tlapm LeaderlessProofs.tla
    tlapm OutboxRelayProofs.tla
    tlapm RequestRoutingProofs.tla
    tlapm ChannelWorkerProofs.tla
    tlapm AlbumPhotosProofs.tla
    tlapm OrderQueueProofs.tla
    tlapm ExperimentsProofs.tla

## 1. The system

The programs do not call each other. Each keeps its state in memory or in one
external store.

| Component | State | Operations | Talks to | What is hard |
|---|---|---|---|---|
| **hw10 leader-follower** `internal/modes/leader_follower.go`, `internal/store` | `MemoryStore` per node (key -> value, version); the leader's atomic `nextVersion` | `ClientSet` (leader only), `ClientGet` with R=1/3/5, `InternalReplicate`, `InternalRead`, `LocalRead` | other nodes over HTTP, one after the other, then in a background goroutine | concurrent PUTs, late and lost replication, read/write quorum overlap, unconditional `Put` at the leader |
| **hw10 leaderless** `internal/modes/leaderless.go` | `MemoryStore` per node | `ClientSet` at any node with a clock reading as version, `ClientGet` of the local copy, `InternalReplicate` | all peers, errors ignored | skewed clocks, two coordinators at once |
| **hw10 HTTP layer** `internal/api`, `internal/cluster`, `internal/config` | none | decode, call the service, translate errors to a status | | an ignored update is a success; 404 is an answer, other statuses are failures |
| **Notification ingress** `NotificationService` | tables `notifications`, `outbox_events` (MySQL) | `createNotification`, one transaction | database | dual writes |
| **Outbox publisher** `OutboxPublisher`, `KafkaEventPublisher` | rows `NEW`/`PUBLISHED`; records in the Kafka producer | `publishPendingEvents` on a timer in each replica, batches under `FOR UPDATE SKIP LOCKED` | database, Kafka (asynchronously) | concurrent replicas, rollbacks, sends that fail after the commit |
| **Routing** `NotificationRequestedConsumer`, `RoutingService` | none of its own | one message per channel | topics `notification-requested` -> `email-send`, `inapp-send` | redelivery, partial fan-out, unsupported channels, offsets committed while the producer still holds the records |
| **Channel workers** `EmailNotificationConsumer`, `InAppNotificationConsumer`, `AttemptService` | table `notification_attempts` | send through a provider, record the attempt, rethrow | topics, provider, database | crash between send and record, retries, rebalances, attempt numbers |
| **Experiments** `experiment/run_exp*.py`, `locust/locustfile.py` | the ECS services' replicas and latencies, a Locust on another host, CSV files, `summary_rows` | configure, wait, sample the lag in a thread, run Locust over ssh, copy, summarise, restore in a `finally` | ECS, ssh, Kafka, CloudWatch, the query API | signals and failures at any call, a Locust that outlives its ssh, two clocks, samples that failed |
| **hw10 load test** `loadtest/locustfile.py`, `results/result.py` | `expected_versions`, the stale-read log, Locust's table of requests | `do_write`, `do_read`, then `build_summary` | all nodes of the store | an expectation that is old when it is used, answers looked at out of order |
| **Album store** `store/memory.go`, `api/handlers_photo.go` | two maps under two locks, files in `data/tmp` and `data/files`, a channel of jobs | `putAlbum`, `uploadPhoto`, `deletePhoto`, four `uploadWorker`s, GETs | file system | delete against rename, two critical sections per upload, full queue |
| **hw7 orders** `main.go`, `part3-lambda` | SNS topic and SQS queue | sync/async order, processor, Lambda | AWS | visibility timeout against a batch, duplicates, a batch size SQS refuses |
| **hw8 carts** `dynamodb_store.go` | DynamoDB items | create, get, add item | DynamoDB | read-modify-write of a whole cart |
| **midterm search** `main.go` | product map, circuit breaker, semaphore | three searches | a simulated inventory service | late answers and the breaker |
| **hw4 MapReduce** `Main.java` | S3 objects with fixed names | split, map, reduce | S3 | words cut by the split, concurrent jobs |
| **hw5, hw6** | product map | create, read, bounded search | | boundaries of validation |
| **hw3**, hw1, hw2 | exercises: counters, maps, ping-pong, hello world | | | data races shown on purpose |

What makes each correct, in words:

* *leader-follower*: an acknowledgement at W stands for W replicas; a read that
  overlaps every write quorum returns nothing older than what was acknowledged
  before it began; a version names one value; replication converges.
* *leaderless*: an acknowledged write is everywhere unless a call failed;
  replication never takes a node back.
* *outbox*: nothing is sent that was not committed, everything committed is sent,
  and each extra copy has a cause.
* *routing and workers*: an offset is committed only when the work it stands for
  has been done (or has been tried as often as configured); duplicates are
  bounded by faults; a bad message does not block its partition.
* *experiments*: a reported row was measured with the configuration it names, over a
  whole load unless the exit code of its Locust hid that it was not, with no other
  load of its invocation beside it; the services are
  restored; a reported recovery is one; every invocation ends.
* *load test*: a read logged as stale was stale; a stale one that is not logged has
  the one cause the code leaves open; reads are counted as reads.
* *orders*: an order leaves the queue only when paid, none that SQS lets the processors
  receive stays for ever, and it is paid again only for a cause.
* *album store*: numbers are dense per album; a completed photo can be served; a
  deleted one leaves no file; an outcome told to a client is final.

## 2. Modules

| Module | Models | Correspondence |
|---|---|---|
| `LeaderFollower` | leader-follower mode | one element of `Sets` / `Gets` is one request; `pc`, `nextIndex`, `ackCount`, `call` are the locals of `ClientSet`/`propagateInBackground`; `readIndex`, `successCount`, `newest` those of `readMostRecent`. `ClientSet`, `Put`, `SendReplica`, `InternalReplicate`, `ReplicaAnswers`, `ReplicaFails`, `ClientGet`, `ReadOne`, `ReadFails` are the atomic steps between two accesses to shared state. |
| `VersionedRegister` | what a client may rely on | per key: versions issued, acknowledged, and reads that return nothing older than what was acknowledged when they began. `LeaderFollower` instantiates it with a refinement mapping. |
| `LeaderFollowerProofs` | theorems about `LeaderFollower`, its refinement, and `KVLoadTest` | section 5 |
| `Leaderless` | leaderless mode | as above, with `now` and `Skew` for the clocks; one key, because keys do not meet |
| `LeaderlessProofs` | theorems about `Leaderless` | section 5 |
| `OutboxRelay` | `NotificationService`, `OutboxPublisher`, `KafkaEventPublisher` | `LockBatch` .. `Commit` are one transaction of `publishNextBatch`; `inFlight` is the producer's buffer, `topic` what Kafka stored |
| `ReliableRelay` | the relay the README of the service announces | accepted requests are relayed in the end; refined by `OutboxRelay` |
| `OutboxRelayProofs` | theorems about `OutboxRelay` and its refinement | section 5 |
| `PartitionConsumer` | Spring Kafka's listener container | external: offsets, tries, assignment. Extended by the next two |
| `RequestRouting` | consumer of requests and `RoutingService.route` | `next[i]` is the position in the loop over the channels, `inFlight[i]` the buffer of instance i's Kafka producer, `stored` what Kafka has. `publish` returns before the record is delivered; `Store`, `StoreUnanswered` and `SendFails` are the producer's end of it, `PublishThrows` an exception of `toJson` or `send` itself. `Crash` empties the buffer, also that of an instance that has lost the partition |
| `RequestRoutingProofs` | theorems about `RequestRouting` | section 5 |
| `ChannelWorker` | the two channel consumers and `AttemptService` | `step[i]` is the place in `consume`: send, count, save; `failed[o]` counts the deliveries of record o that ended in `throw e` (`Rethrow`) or in an exception of `recordAttempt` in the catch block |
| `AttemptSummary` | `getAttempts` of the query API and experiment C's summary of sampled attempts | operators over the table of `ChannelWorker`, which it extends: they may be evaluated at any moment and for any sample |
| `ChannelWorkerProofs` | theorems about `ChannelWorker` and `AttemptSummary` | section 5 |
| `NotificationLoad` | `locust/locustfile.py` | `tick` is the shape over time, `Outcome` what an answer counts as |
| `LagRecovery` | experiment B's `summarize_lag_recovery` and `summarize_locust_history` | a sample is the interval it was taken in and the lag that was written; the loop over the samples is a recursive function of their number |
| `ExperimentHost` | what the four drivers share: `run`, the ECS services, the loop of rounds, the way of an exception through two `finally` blocks | `pc` is the call that comes next, `restoring` the outer `finally`, `raised` the exception on its way; `desired` and `running` are ECS |
| `RemoteLocust` | the measured part of a round: sampler threads, `run_remote_locust` / `run_locust`, signals | `load` is the child process and its end: `LocustEnds` at the end of its shape, `LocustStops` before it (SIGTERM, an uncaught exception: exit code 0 or 1), `LocustLost` (killed, or ssh lost: another code). The drivers see its `ExitCode` only. `orphans` the Locusts that go on without their ssh, `elapsed` and `began` the two clocks |
| `FixedLoadExperiment`, `BurstExperiment`, `IsolationExperiment` | `main` of experiments A (both scripts), B and C | `FixedLoadMain`, `BurstMain`, `IsolationMain` |
| `Experiments` | any of them after each other on one deployment | `Next`, fairness, properties |
| `ExperimentsProofs` | theorems about `Experiments` | section 5 |
| `KVLoadTest` | `loadtest/locustfile.py` against `LeaderFollower`, which it extends | `do_write` and `do_read_Checks` are what happens with an answer in hand, `do_read` is up to the request; users are greenlets, so nothing comes between the network calls |
| `ResultsReport` | `results/result.py`: which row of Locust's table is reported as what | operators over the number of requests per method |
| `AlbumPhotos` | album store | `upload[p]`, `doing[w]`, `removing[p]` are the places in `uploadPhoto`, `processPhoto`, `deletePhoto`; a step ends where a lock is released, a file operation ends or the channel is used |
| `AlbumPhotosProofs` | theorems about `AlbumPhotos` | section 5 |
| `OrderQueue` | the asynchronous order path of hw7 | `waiting[p]` are the messages of the batch `runProcessor` has not yet given to a goroutine, `left[p]` the goroutines in `processOneMessage` and the time they still sleep; `queue`, `hiddenFor` and `receipt` are SQS. `asked` is `MaxNumberOfMessages`, and SQS rejects what is not `Granted`: `ReceiveFails` is the error path with its `pause`. `Skip` is the return of `processOneMessage` at a body that is no order. `Tick` is the clock; goroutines start and end without delay, what takes time is in `Payment` and `Slack` |
| `OrderQueueProofs` | theorems about `OrderQueue` | section 5 |
| `MC...` | instances for TLC | nodes, keys and calls as model values, functions over them |

Definitions named `X_Something` stand directly before `X`: each is `X` with a
plausible bug, marked `Fault:`. They are used by no specification; putting one in
the place of `X` shows which property notices that bug.

Abstractions. A value is the name of the request that wrote it. Titles, payloads
and latencies are left out. HTTP is a call that is served at most once, answered,
or fails in the caller's eyes at any time, before or after it is served. Kafka
with `acks: 1` may duplicate on a lost answer; the loss of a broker is not
modelled. MySQL gives `SKIP LOCKED` and atomic commits. Where a step of the code only
reads one shared variable it is merged with the local steps after it.

## 3. Runs

| Run | Instance | Shows |
|---|---|---|
| `lf_w3_r5` | 5 nodes, W=3, R=5, two concurrent PUTs and a GET at a follower, two failing calls | types, `AckedIsReplicated`, `FreshReads`, `FollowersNeverGoBack`, and the refinement of `VersionedRegister` |
| `kv_loadtest` | 3 nodes, W=1, R=3, two PUTs at a time of one key, a GET, at most one failing call, the load test around them, fair | `SameVersionSameValue`, `AllReplicasAgree` (followers agree at the end), `EveryWritePropagates`; `NoFalseAlarms`, `MissedOnlyOutOfOrder`, `SummaryCountsReads` |
| `lf_leader_regresses` | 5 nodes, W=5, R=1 | violation: see *Findings* |
| `outbox_replicas` | 2 replicas, 3 requests, batches of two, one fault of any kind | `CopiesHaveCause`, `LossNeedsFailedSend` |
| `outbox_relays` | the same with batches of one, two batches a run, one rollback, fair | the refinement of `ReliableRelay`, liveness included |
| `outbox_send_lost` | one replica, one failed send | violation: see *Findings* |
| `routing` | 2 instances, 2 records, a request for a channel and one that is not supported, and behind it one for two channels or a copy of the first, two faults among rebalance, crash, exception of publish, send given up, answer lost | `CommittedIsRouted`, `DuplicatesBounded`, `EveryRequestPassed` |
| `worker` | 2 instances, 2 records, two faults among rebalance, crash, provider, database | `CommittedIsSettled`, `SummaryIsTrue`, `ResendsHaveCause`, `AttemptsNumbered`, `EveryMessageSettled` |
| `album` | 2 albums, 2 photos, 2 workers, queue of one, one failed rename | `SeqsDense`, `CompletedHasFile`, `DeletedLeavesNothing`, `OutcomesAreFinal`, `EveryUploadSettled` |
| `leaderless` | 3 nodes, 3 PUTs, one clock ahead, one failing call | `AckedIsEverywhere`, `OnlyOwnPutGoesBack` |
| `orders` | 2 orders and a message that is none, 2 processors with one or two workers, that ask for two messages or for a hundred (SQS grants ten), payments of one or two ticks, a timeout of four, one fault | types, `LeavesOnlyPaid`, `PaymentsHaveCause`, `EveryOrderLeaves` |
| `experiments` | any script, then any but B; two rounds each, two failures, two signals, fair | `MeasuredAsLabelled`, `SummariesAreWhole`, `OneLoadPerInvocation`, `DefaultsRestored`, `RecoveryIsSustained`, `PhasesAgree`, `EveryRunEnds` |

Bounds and why they are enough:

* five nodes are what `compose.yaml` starts and what W and R of 3 and 5 make sense
  for; two concurrent PUTs are what it takes to reorder versions at the leader or
  at a follower, and one GET what it takes to see it. Two faults (`MaxFaults`)
  let a PUT fail at W=3 only with both, so both failing and succeeding PUTs occur.
  `MaxConcurrentSets` bounds the clients that wait; a request that has ended may
  still have replication under way.
* `outbox_*`: two replicas, so that locks matter; three rows, so that a batch of two is
  full and the next is short (`BatchSize`, `MaxBatchesPerRun` are 1000 and 20 in the
  configuration files). One fault is enough to break each property that a fault can
  break; `Times` has as many instants as there are events, and clocks may tie or
  disagree with the order of commits.
* `routing`, `worker`: two instances are needed for a take-over with the old owner
  still at work; two records for one stuck in front of the other or for two
  copies of one request; `MaxTries` is 2 instead of the ten of the default error
  handler, so that a retry that succeeds and one that does not both happen. With two
  faults of any kind a record is tried out (both exceptions at the same record) or not
  (one is a crash, or hits the other record): only the first excuses an unsettled commit. `Partitions` says what a partition may hold: in `routing` the
  request that is rejected comes first, with a channel sent before the exception.
* `album`: a queue of one is filled by one upload, so the second waits; with two
  workers a worker, another worker and a delete meet in every order. The code has
  four workers and 512 places.
* `leaderless`: two PUTs at one node and one at another: the smallest case in which a
  node's own late `Put` overwrites a replicated newer record.
* `orders`: a batch of two needs one round of two workers, at most two ticks and so within
  the timeout of four, or two rounds of one worker, up to four ticks and so beyond it
  (`Timely` is strict): both sides of `Timely` occur, with the second processor there to
  take what becomes visible, and a message nobody can pay takes places in the batches. The
  code has payments of three seconds, a timeout of thirty and one worker by default
  (`terraform/main.tf` sets a hundred), and asks for a hundred messages, which SQS
  refuses (section 6): so both sizes are in `BatchSizes`. With
  batches of ten, the largest SQS grants, the default of one worker is on the wrong side
  and two workers are on the right one. `RetryDelay` is one tick for the two seconds.
* `kv_loadtest`: two writes whose answers can be looked at in either order, and one read
  that can be asked before, between and after them, are the smallest case of a
  missed stale read; R=3 of three nodes and W=1 let reads be stale or fresh.
  Clients' requests to the store are those of `Sets` and `Gets`; the user's part
  (`do_write`, `do_read`, `do_read_Checks`) may be arbitrarily late.
* `experiments`: phases of one sample interval (two for recovery), a window of one and two
  low samples in a row (`RECOVERY_CONSECUTIVE_SAMPLES` is 2 in the script): a
  recovery may be reached, missed, or broken off by a high sample.
  `LagValues` are a lag below and one above the threshold of 5. `MaxDelay`: Locust
  begins up to one interval after `start_time` (the two hosts' clocks are taken to agree:
  `PhasesAgree` is about the tables and the delay, not about skew). Two failures and two signals: one in
  a round and one in the `finally` that restores, or two SIGTERMs. Two rounds for
  whatever one leaves to the next; two invocations for whatever one leaves to the
  next (`Agenda`); B comes first only, its summary is written inside its one round.
  The scripts have four replica counts and three pairs of latencies.

`CHECK_DEADLOCK FALSE` is set where the finite sets of requests run out: the
system then rests.

## 4. Fairness

Weak fairness is assumed of steps the code's own scheduling takes: goroutines and
listener threads that can go on do so (`Put`, `SendReplica`, `ReplicaAnswers`,
`ReadOne`, `Consume`, `Route`, `WorkerStep`), the scheduled publisher runs again
(`@Scheduled(fixedDelay)`), a server serves a request whose client waits, a channel
send that has room happens, the broker answers, the container commits offsets and a
partition without an owner is assigned, a processor task polls and is restarted, and
the clock goes on. One thread of an instance both runs the routing listener and commits, so
`Route` and `Commit` of an instance are fair together. What a Kafka producer does
with its buffer is not fair: routing does not wait for it. In `OrderQueue` strong fairness is assumed of
each readable order's being received: with long polling (`WaitTimeSeconds` 20) SQS asks
all its servers and does not for ever pass over the same visible message in favour of
others, although it may do so at any single call. No client request, fault, crash,
rebalance or service of a request whose sender gave up is fair, nor anything a user of the load test does. Faults are
bounded in number, so "in the end" means "once faults stop".

`EveryWritePropagates` excepts behaviours with a failed call: the code tries each follower
once and no more, so with one it is false by design.

In `Experiments` the driver takes its next step (every command it waits for comes back
or fails: ssh notices a dead host by TCP keep-alive, its default here, and the waiter of
the AWS CLI gives up after a number of polls; a remote host that stays up and does not
answer is outside the assumption), ECS replaces
tasks, time goes by, and Locust ends when its shape returns `None`. The sampler thread
is not fair: its command may hang, which is what `join(timeout=20)` is for. A local
Locust whose pipe is not read any more (after SIGTERM, in `finally: proc.wait()`) is not
fair either, so `EveryRunEnds` excepts that wait (`Unread`).

## 5. Proofs

Every invariant a run checks is proved, for any value of the constants that satisfies the
`ASSUME`s of the modules, and so are the action properties and the safety of both
refinements. TLC evaluates the assumptions in the runs. Nothing else is assumed: the
proofs rest on the assumptions named below and on the library's theorems about finite sets
and well-founded orders. Two theorems have a hypothesis of their own: `RegisterImplemented`
and `HistoryFollowsShape`.

### Leader-follower store: `LeaderFollowerProofs`

For every list of distinct nodes with the leader in it, every finite set of PUTs, set of
GETs and keys, and any natural W, R, `MaxFaults` and `MaxConcurrentSets`
(`ClusterAssumption`, `RequestAssumption`, `ParameterAssumption`):

* `TypeCorrect`: `Spec => []TypeOK`. Inductive with `Counters` (a loop has counted no
  more answers than nodes it has been through).
* `FollowersMonotone`: the action property `FollowersNeverGoBack`; only
  `InternalReplicate` writes at a follower, through `PutIfNewer`.
* `VersionsIdentifyValues`: `[]SameVersionSameValue`. It is not inductive: what a
  replica holds must be tied to the request that made it (`StoreInv`), versions of
  different requests must differ and lie below `nextVersion` (`VersionInv`), and
  requests are sent only after the leader's own write (`CallInv`).
* `AckedReplication`: `[]AckedIsReplicated`. `AckInv` counts: the acknowledgements
  besides the leader's are at most the followers already passed that hold the
  write or a newer one (`Heard`). Since followers never go back (`HoldersGrow`),
  the set of holders only grows; an update ignored as stale is counted rightly
  because the follower holds something newer.
* `ReadsAreFresh`: `[]FreshReads`. For a read g and a write w acknowledged before it,
  `Covered(g, w)`: either g has already seen w's version, or there is a set Q of
  positions that hold w for good with |Q| + R > N and all answers of g so far came
  from outside Q. R answers cannot all come from outside Q. `Keepers` are the
  followers that hold w, and the leader only when clients write one at a time
  (`LeaderInv`); that is why concurrent writers need W+R > N+1 and a single writer
  W+R > N. `Inv` joins all parts; `Invariance` is its induction.
* `RegisterImplemented`: if quorums overlap in one of these two ways (`Overlap`), every
  behaviour is one of `VersionedRegister`. Besides `Inv` it takes `GenuineInv`: what a
  replica holds or a read has found was written to that key. Each step of the store is
  named as a step of the register or a stutter (`RegisterStep`).
* `ReplicasConverge`: `[]AllReplicasAgree`. `NoneLeftOut`: without failed calls the
  followers a loop has passed have answered; hence two followers hold, for a key, the
  newest version each, and by `SameVersionSameValue` the same value.
* `LogIsRight`, `MissedReadsAreExplained`, `SummaryIsRight` are about the load test,
  `LoadSpec`. `LoadInv` says what an expectation is: the version of the last successful
  PUT of the key among the answers looked at so far (`LastIn`), and what a read was
  compared with is the same for the answers known when it was asked, all of which were
  acknowledged before it began. Hence no false alarm; and an expectation below a known
  version means that two answers were looked at against their versions.

### Leaderless store: `LeaderlessProofs`

For any list of at least two distinct nodes, any PUTs, clocks and faults:
`ReplicationNeverGoesBack` (`OnlyOwnPutGoesBack`) and `AckedReachesAll`
(`[]AckedIsEverywhere`). The latter needs that the coordinator calls nobody before its own
write (`CallsFollowPut`), that without faults the peers behind its place have applied the
record (`NobodySkipped`), and that a node keeps what it has taken or a newer record, unless
its own `Put` set it back (`TakenIsKept`).

### Outbox: `OutboxRelayProofs`

For any finite set of events, any replicas and batch sizes, and any kinds of faults:

* `LocksExclude`: a row is in one open transaction at most, and `NEW` (`RowsLocked`).
* `EveryCopyHasACause`: `[]CopiesHaveCause`. An event is *fresh* as long as the next commit
  of the transaction that has it, or will have it, will hand it over; its copies are at
  most the faults, and one more once it is not fresh (`CopiesBounded`). A rollback or a crash
  makes an event fresh again and is itself a fault.
* `OnlyFailedSendsLose`: `[]LossNeedsFailedSend`, from `HandedOverIsSent`: without a failed
  send or a dead replica, what is not fresh is stored or in a producer.
* `OutboxIsARelay`: `Spec => Relay!Spec`, the safety half of `ImplementsRelay`: nothing is
  relayed that was not accepted (`NothingBefore`).

### Routing and workers: `RequestRoutingProofs`, `ChannelWorkerProofs`

For any notifications, instances, `MaxTries` > 0 and faults. Routing assumes that a request
names at least one channel, as its `@NotEmpty` does.

* `CommitsAreRouted`, `CommitsAreSettled`: `[]CommittedIsRouted`, `[]CommittedIsSettled`. They
  are inductive once they speak of every running instance and not only of the committed
  offset: what lies before its `cursor` is done, whether it owns the partition or not
  (`RoutedInv`, `SettledInv`), because a previous owner still commits what it has finished.
  The only excuse is that record's own history: `threw[o]`, `failed[o]` count the deliveries of record
  o that ended in an exception, and the tries of an instance at its record are at most those
  (`TriesInv`), so a record skipped after `MaxTries` tries has thrown as often.
  For routing, "done" is handed to a producer; a second part says where the
  message is then: stored, or in the buffer of a producer that still runs, as long as no send was
  given up and no process died. Nothing stronger holds: the commit does not wait.
* `DuplicatesAreBounded`, `ResendsAreCaused`: `[]DuplicatesBounded`, `[]ResendsHaveCause`.
  A bound on a sum over the past of several instances is not inductive in any obvious way.
  The argument is one of charging: each message is charged to an offset (and position and
  try) and a *token*, no two to the same; there is one token to begin with and one more per
  fault; an instance at work holds a token of its own and passes each offset once with it;
  an instance that goes back, or starts, does so with the token of the fault that let it.
  `ChargeInv` says that such a charge and such tokens exist: the steps of the proof give the
  new ones. The bound is the number of places there are to charge to.
* `AttemptsAreNumbered`: `[]AttemptsNumbered`, unless there was a rebalance. `NumberInv`: the
  instance at work is the owner, and what it counted is still the number of rows.
* `SummariesAreTrue`: `[]SummaryIsTrue`. `SummaryInv`: a row, or a listener on its way to
  one, says SUCCESS only of an accepted send, and FAILED only after a fault. That the latest
  row of a sample is one of its rows takes a greatest element of a finite set
  (`NumbersAreBounded`, `LatestIsARow`).
* `TypeCorrect` of both.

### Album store: `AlbumPhotosProofs`

For any albums, photos, workers, size of the queue and failing renames. `Inv` joins the
types, `FollowsHandler` (where a photo is in its handler fixes its number and status),
`OneJob` (a photo has one job, in the queue or at one worker, and is `processing` until that
worker is done) and `FilesOwned` (which file a photo has, and who will still remove it once
it is deleted). From it `CompletedIsServed`, `DeleteCleansUp`, `OutcomesStay` and
`TypeCorrect`; `NumberingIsDense` adds that a step numbers one photo at most, with the number
after the last.

### Orders: `OrderQueueProofs`

* `DeletedOrdersArePaid`: `[]LeavesOnlyPaid`, with no assumption on the constants. Only
  `Finish` deletes, and it pays in the same step; every other step adds payments or none
  (`NothingElseDeletes`).
* `TypeCorrect`: `[]TypeOK`, for any positive sizes and times (`OrderQueueAssumption`).
* `PaymentsAreCaused`: `[]PaymentsHaveCause`: if each processor is *timely*, an order is paid
  once and once more per fault at most. Two parts. `TimeInv`: a processor that has the
  newest receipt of a hidden order ends all it holds before that receipt runs out
  (`OnTime`). The waiting orders take rounds of the workers, and a round takes `Payment +
  Slack`; workers who have more left than the rest of the current round are *late* and pay one
  order less: `Cardinality(waiting) + Cardinality(Late) <= workers * rounds`. This is what
  stays true from tick to tick while workers end at different times. `CostInv`: the payments
  made, the processors that hold the order, and one more if it will be received again,
  are at most one and the faults; a batch hidden for nobody is received again.
* `RefusedReceivesNothing`: if SQS does not grant what is asked for, no order is ever received
  or paid: the half of `EveryOrderLeaves` that is about the source as it stands.

### Experiments: `ExperimentsProofs`

For any lists of rounds, replica counts, latencies, durations and lags, any `Agenda` and any
number of failures and signals. `HostAssumption` says that the lists hold what they should,
that there is a round at all, and that lags and bounds are numbers. `IInv` is inductive; its
parts are

* `ControlInv`: the calls a driver can be at while it restores, or has a Locust;
* `NumberInv` and `OrphanInv`: a Locust that is out of sight belongs to an invocation that
  has begun, and if that is the current one, its driver is on its way out: the load is
  broken, or an exception is on its way through the `join` of the sampler, or the loop
  is behind it. Hence `OneLoad` (`[]OneLoadPerInvocation`), since a load is on only in
  the loop;
* `RoundInv` and `RowInv`: a report is written only behind a Locust with an exit code of
  `Success`, which it has at the end of its shape or when it is terminated or crashes before
  it, never when it is killed, its ssh is lost or the driver is interrupted; and outside the
  `finally` block there are `round - 1` rows. Hence `WholeSummaries` (`[]SummariesAreWhole`);
* `RestoreInv`: A and B never change a latency, C never a count other than 1; a dimension the
  driver does change is as deployed before its first call and behind its `finally` block, and
  within the block from the call on that sets it, unless it is spoilt. Hence `Restored`
  (`[]DefaultsRestored`).

Each action is one step of each part's lemma; an exception may come at every call, so
`CommandFails` and the signals are where the parts have to be strong enough. On top of it:

* `RowsAreLabelled`: `[]MeasuredAsLabelled`. `LabelInv` follows a configuration from the call
  that sets it through the wait that sees it running to the rows that were measured with
  it: in the measured part of a round what runs is what is desired, and that is what the row
  will say, except for a latency an earlier C left behind.
* `HistoryFollowsShape`: `[]PhasesAgree`, if `MaxDelay` is at most one spike and one recovery.
  The hypothesis is needed: a Locust that begins later than a whole phase has rows that are
  counted two phases ahead. The script's phases are minutes, a start is seconds. `DelayInv`:
  Locust begins no later than `MaxDelay` after `start_time`.
* `RecoveriesAreSustained`: `[]RecoveryIsSustained`, which is about rises that were sampled:
  where failed commands (lags of 0) hide the rise itself, the end of the spike is reported and
  nothing is said. The loop over the samples is a recursive
  function; that its state after i samples is the length of the run of low samples that ends
  at i (`RunsGrow`, `LoopFindsFirstRun`) is an induction over the samples, done with the least
  counterexample (`SetInduction`, from the library's theorem that < on the naturals is
  well-founded). `SamplesInv`: no more samples are invented zeros than there were failures.
* `TypeCorrect`: `[]TypeOK`, from all of these and `KindInv`, what they leave open.

### What stays with TLC

Liveness: `EveryWritePropagates`, `EveryRequestPassed`, `EveryMessageSettled`,
`EveryUploadSettled`, `EveryOrderLeaves`, `EveryRunEnds` and the liveness half of
`ImplementsRelay`. They need fairness, and so ENABLED, which the provers do not handle. The
two violations are counterexamples and need no proof. `TypeOK` is a run's property only where
the run shows something with it; it is proved in all eight modules.

## 6. Findings

1. *A later PUT can be undone at the leader* (`lf_leader_regresses`,
   `leader_follower.go:67`). `ClientSet` takes a version and stores it in two
   steps, and `Put` is unconditional. Of two overlapping PUTs the older may be
   stored last; the leader then keeps it, while the followers, which use
   `PutIfNewer`, keep the newer one. With R=1 every GET in the cluster returns
   the leader's copy, so it can return a value older than one that was
   acknowledged by all five nodes before the GET was sent, against what
   `consistency_test.go:63` expects of a read after an acknowledged write. Nothing
   repairs it. `FreshReads` says when reads are fresh nevertheless.
2. *An event marked PUBLISHED may never reach Kafka* (`outbox_send_lost`,
   `KafkaEventPublisher.java:16`). The future of `send` is dropped and the row is
   marked at once. README.md:12 of the service says the outbox publishes reliably;
   a send that fails after the commit, or a replica that dies with records in its
   producer, loses them. `LossNeedsFailedSend` is what does hold.

The order path of hw7 does not work as the source stands: `main.go:189` asks for 100
messages, SQS accepts one to ten and rejects the call, and `runProcessor` logs the error,
sleeps and asks for 100 again (`ReceiveFails`). An order answered "accepted for asynchronous
processing" (`main.go:168`) is then never received by the processor
(`RefusedReceivesNothing`; `EveryOrderLeaves` says for which sizes it is). Everything
else about orders is shown for sizes that are granted.

Facts the models show and no text of the repository contradicts: an offset of the request
topic is committed while its messages may still be in the producer's buffer, so a crash
after the commit loses them as finding 2 does (`CommittedIsRouted` says what is left); two
leaderless PUTs with one timestamp may leave different values under one version,
two workers that hold one record across a rebalance give two attempts the same
number, and hw7 pays orders twice with no fault at all when WORKER_COUNT is too small
for the visibility timeout.

Of the experiments and the load test: a driver that is interrupted while it restores
leaves the services as they were, and the next experiment A or B, which do not set
latencies, is measured with what C left (`spoilt` in `MeasuredAsLabelled`); a Locust that is
terminated or crashes exits 0 or 1 as after a whole load, so half a load can become a row of B
or C, and with 0 of A (`SummariesAreWhole`); a Locust that
outlived its driver goes on into the next invocation; a failed lag command is recorded as
a lag of 0, and two of them in a row can pass for a recovery; a late Locust has rows of its
history counted one phase ahead; of a steady test with writes only, `result.py` reports the
writes as reads; and `update_expected_version` takes the answer that is looked at last, so
a stale read may be missed. That a broken-off experiment has no `summary.csv` can be seen
in the repository: `locust/results/expC_mixed_isolation_ec2_20260421_182610` has two
whole rounds, a third without its Locust files, and no summary.

## 7. Not modelled, and why

* hw7's synchronous handler (it waits for the one payment slot and keeps nothing) and
  its Lambda (no state; subscribed to the same topic as the queue, it pays every
  order once more on a path of its own); the retention of the queue, four days.
* In `OrderQueue`: what removes a message that is no order in the end, the queue's retention;
  such a message comes only from another publisher to the topic (raw message delivery is on).
* A driver of an experiment that is killed outright (SIGKILL, a hangup of its terminal): it runs
  no `finally` block, and what it changed stays. `DefaultsRestored` is about exceptions and
  the two signals it handles.
* A clock of the load generator that differs from the driver's (see `PhasesAgree`).
* In `AlbumPhotos`: an `os.Remove` that fails; its error is ignored and the file stays.
* Restarts of key-value nodes: a restarted leader counts from 1 again and a restarted
  follower is empty. Nothing is stored and no code recovers anything, so there is no
  promise to check; every property of the store is about nodes that stay up.
* HTTP decoding, JSON, URL handling, status texts, environment parsing: data
  conversions no property depends on.
* Query controllers, mock providers, health checks: they read or sleep.
* In the experiments: CloudWatch figures, percentiles, Markdown, the averages of experiments
  A and C over their lag samples (their rows are dropped in the model), the payload and the
  choice of channels of `locustfile.py`, and what the drivers print. `summary.csv` is written in one step.
  `experiment/locustfile.py` is used by no driver.
* In the load test: `recent_keys`, which makes some keys likelier and none impossible; the
  interval log; plots.
* Locust files of the exercises (one request each), Terraform, result files.
* hw3 to hw6, hw8 and the midterm: small exercises that share nothing with the rest. What is
  hard in them is said at the component: carts that overwrite each other (hw8), late
  answers at the breaker (midterm), words cut by the split (hw4), unlocked maps (hw3).
* hw1, hw2 and `hello`: tutorials.

## 8. Plan

Done, in this order: `LeaderFollower` with its register and its proofs, `OutboxRelay`
with its relay, `PartitionConsumer` with `RequestRouting` and `ChannelWorker`,
`AlbumPhotos`, `Leaderless`, `OrderQueue`, then the programs around the systems:
`Experiments` with its parts, `KVLoadTest` with `ResultsReport`, `AttemptSummary`.

Then the proofs, in the order of section 5: first the safety of the store and the invariants
of the experiments, then every other invariant and action property the runs check, and both
refinements.

What is left needs a decision first. A restart of a key-value node is in no model, because
nothing promises anything about it; a persistent store would need one. The liveness
properties could be stated over the variants their arguments use (the offsets not yet
committed, the rows not yet published), whose steps are safety and could be proved. The
retention of the queue and hw7's Lambda could join `OrderQueue` if orders were ever to be
counted across both paths.
