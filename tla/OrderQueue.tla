----------------------------- MODULE OrderQueue -----------------------------
(***************************************************************************)
(* The asynchronous order path of hw7: the receiver publishes an order to  *)
(* SNS, which puts it into an SQS queue; processor tasks receive batches,  *)
(* pay each order in a bounded number of goroutines and delete its message *)
(* only when it is paid.  SQS refuses a request for more messages than it  *)
(* ever gives at once; the source asks for 100, and SQS gives ten.         *)
(*                                                                         *)
(* A received message is hidden for one visibility timeout, counted from   *)
(* the receipt of the whole batch, however long its orders wait for a      *)
(* worker.  Time is counted in Tick steps; every handler step takes none.  *)
(***************************************************************************)
EXTENDS Naturals, FiniteSets, Functions

CONSTANTS
    Orders,        \* orders, each the body of one message
    Unreadable,    \* those whose body is empty or no order
    Processors,    \* ECS tasks running in processor mode
    WorkerCounts,  \* values the environment may give WORKER_COUNT
    BatchSizes,    \* what MaxNumberOfMessages of ReceiveMessage may be
    MaxReceive,    \* the most that SQS accepts there
    RetryDelay,    \* the pause after a failed ReceiveMessage, in ticks
    Visibility,    \* VisibilityTimeout of a receipt, in ticks
    Payment,       \* the shortest payment, in ticks
    Slack,         \* and how much longer one may take
    MaxFaults      \* crashes, failed calls and early redeliveries

ASSUME OrderQueueAssumption ==
    /\ WorkerCounts \subseteq Nat \ {0}
    /\ Unreadable \subseteq Orders
    /\ BatchSizes \subseteq Nat \ {0} /\ MaxReceive \in Nat
    /\ RetryDelay \in Nat /\ Visibility \in Nat \ {0}
    /\ Payment \in Nat \ {0} /\ Slack \in Nat /\ MaxFaults \in Nat

VARIABLES
    queue,      \* queue[o]: where the message of o is
    hiddenFor,  \* hiddenFor[o]: ticks until a hidden message is visible again
    receipt,    \* receipt[o]: who has its newest receipt handle, if any
    asked,      \* MaxNumberOfMessages
    workers,    \* workers[p]: WORKER_COUNT of p
    pause,      \* pause[p]: ticks until p asks SQS again
    waiting,    \* waiting[p]: received by p, not started
    left,       \* left[p]: the ticks left of every payment p is making
    paid,       \* paid[o]: payments of o
    faults

queueVars == <<queue, hiddenFor, receipt>>
settings == <<asked, workers>>
taskVars == <<pause, waiting, left>>
vars == <<settings, queueVars, taskVars, paid, faults>>

Durations == Payment .. Payment + Slack
In(state) == {o \in Orders : queue[o] = state}
Working(p) == DOMAIN left[p]

Init ==
    /\ queue = [o \in Orders |-> "unsent"]
    /\ hiddenFor = [o \in Orders |-> 0]
    /\ receipt = [o \in Orders |-> {}]
    /\ asked \in BatchSizes
    /\ workers \in [Processors -> WorkerCounts]
    /\ pause = [p \in Processors |-> 0]
    /\ waiting = [p \in Processors |-> {}]
    /\ left = [p \in Processors |-> <<>>]
    /\ paid = [o \in Orders |-> 0]
    /\ faults = 0

Fault == faults < MaxFaults /\ faults' = faults + 1

-----------------------------------------------------------------------------
(* The receiver: asyncOrderHandler.  It answers 202 only after this step;  *)
(* a publication that fails may have reached the topic, which is this      *)
(* step too, or not, which changes nothing here.  Whoever else may publish *)
(* to the topic may put messages there that are no orders.                 *)
Publish(o) ==
    /\ queue[o] = "unsent"
    /\ queue' = [queue EXCEPT ![o] = "visible"]
    /\ UNCHANGED <<settings, hiddenFor, receipt, taskVars, paid, faults>>

-----------------------------------------------------------------------------
(* A processor: the loop of runProcessor, which receives again only when   *)
(* every goroutine of the last batch is done.                              *)
Idle(p) == waiting[p] = {} /\ Working(p) = {}
Ready(p) == Idle(p) /\ pause[p] = 0

\* SQS rejects a call that asks for more.
Granted == asked <= MaxReceive

\* What one call may hand out, and what that does to the messages.
Batches == {batch \in SUBSET In("visible") :
              IsFiniteSet(batch) /\ Cardinality(batch) \in 1 .. asked}

Hide(batch, holder) ==
    /\ queue' = [o \in Orders |-> IF o \in batch THEN "hidden" ELSE queue[o]]
    /\ hiddenFor' = [o \in Orders |-> IF o \in batch THEN Visibility ELSE hiddenFor[o]]
    /\ receipt' = [o \in Orders |-> IF o \in batch THEN holder ELSE receipt[o]]

Receive(p) ==
    /\ Ready(p) /\ Granted
    /\ \E batch \in Batches : Hide(batch, {p}) /\ waiting' = [waiting EXCEPT ![p] = batch]
    /\ UNCHANGED <<settings, pause, left, paid, faults>>

\* ReceiveMessage returns an error: SQS rejects it, it is not reached, or its
\* answer is lost with a batch that is hidden for nobody.  The loop sleeps and
\* asks again, for as many.
ReceiveFails(p) ==
    /\ Ready(p)
    /\ \/ ~Granted /\ UNCHANGED <<queueVars, faults>>
       \/ Granted /\ Fault /\ UNCHANGED queueVars
       \/ Granted /\ Fault /\ \E batch \in Batches : Hide(batch, {})
    /\ pause' = [pause EXCEPT ![p] = RetryDelay]
    /\ UNCHANGED <<settings, waiting, left, paid>>

\* Fault: no limiter, a goroutine for every message at once.
WorkerFree_Unlimited(p) == TRUE
\* Fault: one order at a time, whatever WORKER_COUNT says.
WorkerFree_Single(p) == Working(p) = {}
\* Fault: a limiter one short; its channel has no buffer when WORKER_COUNT is 1.
WorkerFree_OneShort(p) == Cardinality(Working(p)) + 1 < workers[p]

\* workerLimiter <- struct{}{} does not block.
WorkerFree(p) == Cardinality(Working(p)) < workers[p]

Starting(p, o, ticks) ==
    [left EXCEPT ![p] =
       [w \in Working(p) \cup {o} |-> IF w = o THEN ticks ELSE left[p][w]]]

\* What SQS knows of a message goes with it.
Forget(o) ==
    /\ hiddenFor' = [hiddenFor EXCEPT ![o] = 0]
    /\ receipt' = [receipt EXCEPT ![o] = {}]

\* Fault: the message is deleted before it is paid.
Start_DeletesFirst(p, o) ==
    /\ o \in waiting[p] \ Unreadable /\ WorkerFree(p)
    /\ waiting' = [waiting EXCEPT ![p] = @ \ {o}]
    /\ \E ticks \in Durations : left' = Starting(p, o, ticks)
    /\ queue' = [queue EXCEPT ![o] = "deleted"]
    /\ Forget(o)
    /\ UNCHANGED <<settings, pause, paid, faults>>

Start(p, o) ==
    /\ o \in waiting[p] \ Unreadable /\ WorkerFree(p)
    /\ waiting' = [waiting EXCEPT ![p] = @ \ {o}]
    /\ \E ticks \in Durations : left' = Starting(p, o, ticks)
    /\ UNCHANGED <<settings, queueVars, pause, paid, faults>>

\* processOneMessage returns without paying or deleting what is no order; SQS
\* delivers it again, time after time.
Skip(p, o) ==
    /\ o \in waiting[p] \cap Unreadable /\ WorkerFree(p)
    /\ waiting' = [waiting EXCEPT ![p] = @ \ {o}]
    /\ UNCHANGED <<settings, queueVars, pause, left, paid, faults>>

Ending(p, o) == [left EXCEPT ![p] = Restrict(@, Working(p) \ {o})]

\* DeleteMessage with the newest receipt handle removes the message; SQS
\* may or may not remove it for an older one.
Deletions(p, o) ==
    LET gone == [queue EXCEPT ![o] = "deleted"]
    IN  IF receipt[o] = {p} THEN {gone} ELSE {gone, queue}

\* The end of processOneMessage, with its DeleteMessage.
Finish(p, o) ==
    /\ o \in Working(p) /\ left[p][o] = 0
    /\ paid' = [paid EXCEPT ![o] = @ + 1]
    /\ left' = Ending(p, o)
    /\ queue' \in Deletions(p, o)
    /\ \/ queue'[o] = "deleted" /\ Forget(o)
       \/ queue'[o] # "deleted" /\ UNCHANGED <<hiddenFor, receipt>>
    /\ UNCHANGED <<settings, pause, waiting, faults>>

\* The same with a failed DeleteMessage: the error is logged, nothing is
\* tried again.
DeleteFails(p, o) ==
    /\ o \in Working(p) /\ left[p][o] = 0
    /\ Fault
    /\ paid' = [paid EXCEPT ![o] = @ + 1]
    /\ left' = Ending(p, o)
    /\ UNCHANGED <<settings, queueVars, pause, waiting>>

\* The task dies and is started again: its batch is forgotten.
Crash(p) ==
    /\ ~Ready(p)
    /\ Fault
    /\ waiting' = [waiting EXCEPT ![p] = {}]
    /\ left' = [left EXCEPT ![p] = <<>>]
    /\ pause' = [pause EXCEPT ![p] = 0]
    /\ UNCHANGED <<settings, queueVars, paid>>

-----------------------------------------------------------------------------
(* SQS and the clock.                                                      *)

\* At-least-once delivery: a hidden message may be delivered early.
Redeliver(o) ==
    /\ queue[o] = "hidden"
    /\ Fault
    /\ queue' = [queue EXCEPT ![o] = "visible"]
    /\ hiddenFor' = [hiddenFor EXCEPT ![o] = 0]
    /\ UNCHANGED <<settings, receipt, taskVars, paid>>

\* Goroutines are started and end without delay: time does not pass while
\* one of them could.
Busy(p) ==
    \/ waiting[p] # {} /\ WorkerFree(p)
    \/ \E o \in Working(p) : left[p][o] = 0

Tick ==
    /\ \A p \in Processors : ~Busy(p)
    /\ In("hidden") # {} \/ \E p \in Processors : ~Ready(p)
    /\ hiddenFor' = [o \in Orders |-> IF hiddenFor[o] > 0 THEN hiddenFor[o] - 1 ELSE 0]
    /\ queue' = [o \in Orders |-> IF hiddenFor[o] = 1 THEN "visible" ELSE queue[o]]
    /\ left' = [p \in Processors |-> [o \in Working(p) |-> left[p][o] - 1]]
    /\ pause' = [p \in Processors |-> IF pause[p] > 0 THEN pause[p] - 1 ELSE 0]
    /\ UNCHANGED <<settings, receipt, waiting, paid, faults>>

-----------------------------------------------------------------------------
Next ==
    \/ \E o \in Orders : Publish(o) \/ Redeliver(o)
    \/ \E p \in Processors : Receive(p) \/ ReceiveFails(p) \/ Crash(p)
    \/ \E p \in Processors, o \in Orders :
         Start(p, o) \/ Skip(p, o) \/ Finish(p, o) \/ DeleteFails(p, o)
    \/ Tick

Spec == Init /\ [][Next]_vars

\* Processors poll, goroutines run, the visibility timeout elapses, and SQS does
\* not for ever pass over the same message.
Fairness ==
    /\ WF_vars(Tick)
    /\ \A p \in Processors :
         /\ WF_vars(Receive(p))
         /\ \A o \in Orders : WF_vars(Start(p, o) \/ Skip(p, o)) /\ WF_vars(Finish(p, o))
    /\ \A o \in Orders \ Unreadable :
         SF_vars(\E p \in Processors : Receive(p) /\ o \in waiting'[p])

FairSpec == Spec /\ Fairness

-----------------------------------------------------------------------------
\* A batch of p is worked off before the timeout of its receipts: as many
\* rounds of its workers as the batch needs, each of the longest payment.
Rounds(p) == (asked + workers[p] - 1) \div workers[p]
Timely(p) == Rounds(p) * (Payment + Slack) < Visibility

\* The states have the shapes below; a processor never pays more orders at
\* once than WORKER_COUNT (the workerLimiter channel of runProcessor).
TypeOK ==
    /\ queue \in [Orders -> {"unsent", "visible", "hidden", "deleted"}]
    /\ hiddenFor \in [Orders -> 0 .. Visibility]
    /\ receipt \in [Orders -> SUBSET Processors]
    /\ asked \in BatchSizes /\ workers \in [Processors -> WorkerCounts]
    /\ pause \in [Processors -> 0 .. RetryDelay]
    /\ waiting \in [Processors -> SUBSET Orders]
    /\ \A p \in Processors :
         /\ Working(p) \subseteq Orders \ waiting[p]
         /\ Cardinality(Working(p)) <= workers[p]
         /\ \A o \in Working(p) : left[p][o] \in 0 .. Payment + Slack
    /\ paid \in [Orders -> Nat] /\ faults \in 0 .. MaxFaults

\* An order leaves the queue only when its payment is complete, whatever
\* crashes, expires or is delivered twice: processOneMessage deletes the
\* message last.
LeavesOnlyPaid == \A o \in Orders : queue[o] = "deleted" => paid[o] > 0

\* When every processor has workers enough to finish a full batch within the
\* visibility timeout, an order is paid a second time only for a fault: one
\* payment more for each failed deletion, crash or early redelivery.
PaymentsHaveCause ==
    (\A p \in Processors : Timely(p)) =>
        \A o \in Orders : paid[o] <= 1 + faults

\* An order that was accepted, being in the queue, leaves it in the end, also
\* when the workers are too few for the timeout, batches expire and messages that
\* are no orders come back for ever: but only if SQS grants what the processor
\* asks for.  Asking for 100, as the source does, it has no order paid, ever.
EveryOrderLeaves ==
    \A o \in Orders \ Unreadable :
        /\ queue[o] = "visible" /\ Granted ~> queue[o] = "deleted"
        /\ [](~Granted => queue[o] \in {"unsent", "visible"} /\ paid[o] = 0)

=============================================================================
